------------------------ MODULE MessageWriter_proofs ------------------------
(***************************************************************************)
(* What TLC checks of MessageWriter for a small buffer and a few messages, *)
(* proved for any: that a message stays inside the buffer, that the room   *)
(* kept for the headers which grow is what they need, and that they can be *)
(* expanded, every byte behind them moved to where it should be.           *)
(***************************************************************************)
EXTENDS MessageWriter, SequenceTheorems, WellFoundedInduction, TLAPS

-----------------------------------------------------------------------------
(* Induction, from the order of the natural numbers being well founded.    *)

\* a set of numbers that is not empty has a least one
LEMMA LeastNatural ==
  ASSUME NEW T, T \subseteq Nat, T # {}
  PROVE  \E x \in T : \A y \in T : ~ (y < x)
<1>1. PICK x \in T : \A y \in T : ~ (<<y, x>> \in OpToRel(<, Nat))
  BY NatLessThanWellFounded, WFMin
<1>2. \A y \in T : y < x => <<y, x>> \in OpToRel(<, Nat)
  BY DEF OpToRel
<1> QED
  BY <1>1, <1>2

\* what holds of 0, and up to n of the next number, holds of all numbers up to n
LEMMA InductionUpTo ==
  ASSUME NEW n \in Nat, NEW S, 0 \in S, \A k \in 0 .. n : k \in S /\ k # n => k + 1 \in S
  PROVE  0 .. n \subseteq S
<1> SUFFICES ASSUME NEW y \in 0 .. n, y \notin S PROVE FALSE
  OBVIOUS
<1> DEFINE T == (0 .. n) \ S
<1>1. PICK x \in T : \A z \in T : ~ (z < x)
  <2>1. T \subseteq Nat /\ T # {}
    OBVIOUS
  <2> HIDE DEF T
  <2> QED BY <2>1, LeastNatural
<1>2. x \in 0 .. n /\ x \notin S /\ x # 0
  BY <1>1
<1>3. x - 1 \in 0 .. n /\ x - 1 # n /\ x - 1 < x /\ (x - 1) + 1 = x
  BY <1>2
<1>4. x - 1 \in S
  BY <1>1, <1>3
<1> QED
  BY <1>2, <1>3, <1>4

-----------------------------------------------------------------------------
(* How much the headers grow: a sum, point by point.                       *)

\* f is the growth at each of the points
SumsOf(f, points) ==
    f = [k \in 0 .. Len(points) |->
            IF k = 0 THEN 0 ELSE f[k - 1] + Len(points[k].packed) - 1]

\* the sums of the first m points only
SumsUpTo(f, points, m) ==
    f = [k \in 0 .. m |-> IF k = 0 THEN 0 ELSE f[k - 1] + Len(points[k].packed) - 1]

\* there is such a function
LEMMA SumsExist ==
  ASSUME NEW points, Len(points) \in Nat
  PROVE  \E f : SumsOf(f, points)
<1> DEFINE n == Len(points)
           S == {m \in 0 .. n : \E f : SumsUpTo(f, points, m)}
<1>1. 0 \in S
  <2>1. SumsUpTo([k \in 0 .. 0 |-> 0], points, 0)
    BY DEF SumsUpTo
  <2> QED BY <2>1
<1>2. ASSUME NEW m \in 0 .. n, m \in S /\ m # n PROVE m + 1 \in S
  <2>1. PICK f : SumsUpTo(f, points, m)
    BY <1>2
  <2> DEFINE last == f[m] + Len(points[m + 1].packed) - 1
             g == [k \in 0 .. m + 1 |-> IF k \in 0 .. m THEN f[k] ELSE last]
  <2>2. ASSUME NEW k \in 0 .. m + 1
        PROVE  g[k] = IF k = 0 THEN 0 ELSE g[k - 1] + Len(points[k].packed) - 1
    <3>1. CASE k \in 0 .. m
      <4>1. g[k] = f[k]
        BY <3>1
      <4>2. f[k] = IF k = 0 THEN 0 ELSE f[k - 1] + Len(points[k].packed) - 1
        BY <2>1, <3>1 DEF SumsUpTo
      <4>3. k # 0 => k - 1 \in 0 .. m /\ k - 1 \in 0 .. m + 1
        BY <3>1
      <4>4. k # 0 => g[k - 1] = f[k - 1]
        BY <4>3
      <4> QED
        BY <4>1, <4>2, <4>4
    <3>2. CASE k = m + 1
      <4>1. k # 0 /\ k - 1 = m /\ m \in 0 .. m /\ m \in 0 .. m + 1 /\ ~(k \in 0 .. m)
        BY <3>2
      <4>2. g[k] = last /\ g[m] = f[m]
        BY <4>1
      <4> QED
        BY <3>2, <4>1, <4>2
    <3> QED
      BY <3>1, <3>2
  <2> HIDE DEF g
  <2>3. g = [k \in 0 .. m + 1 |->
                IF k = 0 THEN 0 ELSE g[k - 1] + Len(points[k].packed) - 1]
    <3>1. g = [k \in 0 .. m + 1 |-> g[k]]
      BY DEF g
    <3> QED
      BY <2>2, <3>1
  <2>4. SumsUpTo(g, points, m + 1)
    BY <2>3 DEF SumsUpTo
  <2>5. m + 1 \in 0 .. n
    BY <1>2
  <2> QED
    BY <2>4, <2>5
<1>3. n \in Nat
  OBVIOUS
<1>4. n \in 0 .. n
  BY <1>3
<1> HIDE DEF S, n
<1>5. n \in S
  BY <1>1, <1>2, <1>3, <1>4, InductionUpTo
<1> QED
  BY <1>5 DEF S, n, SumsOf, SumsUpTo

\* Growth is its value: nothing before the first point, and then what each adds
LEMMA GrowthStep ==
  ASSUME NEW points, Len(points) \in Nat
  PROVE  /\ Growth(points, 0) = 0
         /\ \A k \in 1 .. Len(points) :
               Growth(points, k) = Growth(points, k - 1) + Len(points[k].packed) - 1
<1> DEFINE f == CHOOSE f : SumsOf(f, points)
<1>1. SumsOf(f, points)
  BY SumsExist
<1>2. ASSUME NEW k PROVE Growth(points, k) = f[k]
  BY DEF Growth, SumsOf
<1> HIDE DEF f
<1>3. f[0] = 0
  <2>1. 0 \in 0 .. Len(points)
    OBVIOUS
  <2> QED BY <1>1, <2>1 DEF SumsOf
<1>4. ASSUME NEW k \in 1 .. Len(points) PROVE f[k] = f[k - 1] + Len(points[k].packed) - 1
  <2>1. k \in 0 .. Len(points) /\ k # 0
    OBVIOUS
  <2> QED BY <1>1, <2>1 DEF SumsOf
<1> QED
  BY <1>2, <1>3, <1>4

\* headers grow by one byte or two
Growing(points) ==
    /\ points \in Seq([at : Nat, packed : Seq(0 .. (B - 1))])
    /\ \A k \in DOMAIN points : Len(points[k].packed) \in {2, 3}

\* growth is a number, and it only goes up
LEMMA GrowthIsNat ==
  ASSUME NEW points, Growing(points)
  PROVE  /\ Len(points) \in Nat /\ DOMAIN points = 1 .. Len(points)
         /\ \A k \in 0 .. Len(points) : Growth(points, k) \in Nat /\ k <= Growth(points, k)
<1> DEFINE n == Len(points)
           S == {k \in 0 .. n : Growth(points, k) \in Nat /\ k <= Growth(points, k)}
<1>1. n \in Nat /\ DOMAIN points = 1 .. n
  BY DEF Growing
<1>2. 0 \in S
  BY <1>1, GrowthStep
<1>3. ASSUME NEW k \in 0 .. n, k \in S /\ k # n PROVE k + 1 \in S
  <2>1. k + 1 \in 1 .. n /\ k + 1 \in 0 .. n /\ (k + 1) - 1 = k /\ k \in Nat
    <3>1. k # n
      BY <1>3
    <3> HIDE DEF n, S
    <3> QED BY <1>1, <3>1
  <2>2. Len(points[k + 1].packed) \in {2, 3}
    BY <1>1, <2>1 DEF Growing
  <2>3. Growth(points, k + 1) = Growth(points, k) + Len(points[k + 1].packed) - 1
    BY <1>1, <2>1, GrowthStep
  <2>4. Growth(points, k) \in Nat /\ k <= Growth(points, k)
    BY <1>3
  <2>5. Growth(points, k + 1) \in Nat /\ k + 1 <= Growth(points, k + 1)
    <3> DEFINE g == Growth(points, k)
               l == Len(points[k + 1].packed)
    <3>1. g \in Nat /\ k <= g /\ l \in {2, 3} /\ Growth(points, k + 1) = g + l - 1
      BY <2>2, <2>3, <2>4
    <3> HIDE DEF g, l
    <3> QED
      BY <2>1, <3>1
  <2> QED
    BY <2>1, <2>5
<1> HIDE DEF S
<1>4. 0 .. n \subseteq S
  <2> HIDE DEF n
  <2> QED BY <1>1, <1>2, <1>3, InductionUpTo
<1> QED
  BY <1>1, <1>4 DEF S

\* one point more
LEMMA GrowthOn ==
  ASSUME NEW points, Growing(points), NEW x \in [at : Nat, packed : Seq(0 .. (B - 1))]
  PROVE  Growth(Append(points, x), Len(points) + 1)
           = Growth(points, Len(points)) + Len(x.packed) - 1
<1> DEFINE n == Len(points)
           more == Append(points, x)
           S == {k \in 0 .. n : Growth(more, k) = Growth(points, k)}
<1>1. points \in Seq([at : Nat, packed : Seq(0 .. (B - 1))])
  BY DEF Growing
<1>2. n \in Nat /\ Len(more) = n + 1 /\ more[n + 1] = x /\ \A k \in 1 .. n : more[k] = points[k]
  BY <1>1, AppendProperties
<1>3. Len(more) \in Nat /\ Len(points) \in Nat
  BY <1>2
<1> HIDE DEF more
<1>4. 0 \in S
  BY <1>2, <1>3, GrowthStep
<1>5. ASSUME NEW k \in 0 .. n, k \in S /\ k # n PROVE k + 1 \in S
  <2>1. k + 1 \in 1 .. n /\ k + 1 \in 1 .. n + 1 /\ (k + 1) - 1 = k /\ k + 1 \in 0 .. n
    BY <1>2, <1>5
  <2>2. Growth(points, k + 1) = Growth(points, k) + Len(points[k + 1].packed) - 1
    BY <1>3, <2>1, GrowthStep
  <2>3. Growth(more, k + 1) = Growth(more, k) + Len(more[k + 1].packed) - 1
    BY <1>2, <1>3, <2>1, GrowthStep
  <2> QED
    BY <1>2, <1>5, <2>1, <2>2, <2>3
<1>6. Growth(more, n + 1) = Growth(more, (n + 1) - 1) + Len(more[n + 1].packed) - 1
  <2>1. n + 1 \in 1 .. Len(more)
    BY <1>2
  <2> QED BY <1>3, <2>1, GrowthStep
<1>7. n \in 0 .. n /\ (n + 1) - 1 = n
  BY <1>2
<1> HIDE DEF S, n
<1>8. n \in S
  BY <1>2, <1>4, <1>5, <1>7, InductionUpTo
<1> QED
  BY <1>2, <1>6, <1>7, <1>8 DEF S, n, more

-----------------------------------------------------------------------------
(* Bytes, and the types of what the writer holds.                          *)

Bytes  == 0 .. 255
Opens  == [header : Nat, isArray : BOOLEAN]
Points == [at : Nat, packed : Seq(0 .. (B - 1))]

Writers ==
    [buf : Seq(Bytes), open : Seq(Opens), points : Seq(Points),
     extra : [0 .. MaxNested -> Nat]]

\* what the sizes are, in terms of Q
LEMMA Sizes ==
  /\ Q \in Nat \ {0} /\ B = 4 * Q /\ One = 2 * Q /\ B \in Nat /\ B <= 256 /\ Two \in Nat
  /\ MaxNested \in Nat \ {0} /\ Capacity \in Nat \ {0} /\ HeaderBytes \in Nat \ {0}
<1>1. B \in Nat \ {0} /\ B % 4 = 0 /\ B <= 256
  BY WriterAssumption
<1>2. B \div 4 \in Nat \ {0} /\ B = 4 * (B \div 4) /\ B \div 2 = 2 * (B \div 4)
  BY <1>1
<1>3. Two \in Nat
  BY <1>1, <1>2 DEF Two, Q
<1> QED
  BY <1>1, <1>2, <1>3, WriterAssumption DEF Q, One

\* the length of a container is one byte, or two or three when it is long
LEMMA PackedBytes ==
  ASSUME NEW v \in Nat
  PROVE  /\ Packed(v) \in Seq(0 .. (B - 1)) /\ Packed(v) \in Seq(Bytes)
         /\ v < One => Packed(v) = <<v>> /\ Len(Packed(v)) = 1
         /\ ~(v < One) => Len(Packed(v)) \in {2, 3}
<1>1. Q \in Nat \ {0} /\ B = 4 * Q /\ One = 2 * Q /\ B \in Nat /\ B <= 256 /\ Two \in Nat
  BY Sizes
<1> DEFINE low == v % Q
           mid == (v \div Q) % B
           high == (v \div Two) % B
<1>2. low \in 0 .. (Q - 1) /\ mid \in 0 .. (B - 1)
  BY <1>1
<1>3. ~(v < One) /\ ~(v \in One .. (Two - 1)) => high \in 0 .. (B - 1)
  <2>1. B \in Nat \ {0} /\ Two \in Nat \ {0}
    BY <1>1 DEF Two
  <2> QED BY <2>1
<1> HIDE DEF low, mid, high
<1>4. Packed(v) = CASE v < One -> <<v>>
                    [] v \in One .. (Two - 1) -> <<low + 2 * Q, mid>>
                    [] OTHER -> <<low + 3 * Q, mid, high>>
  BY DEF Packed, low, mid, high
<1>5. CASE v < One
  <2>1. ~(v \in One .. (Two - 1)) /\ v \in 0 .. (B - 1) /\ v \in Bytes
    BY <1>1, <1>5 DEF Bytes
  <2>2. Packed(v) = <<v>>
    BY <1>4, <1>5, <2>1
  <2> QED BY <1>5, <2>1, <2>2
<1>6. CASE v \in One .. (Two - 1)
  <2>1. ~(v < One)
    BY <1>1, <1>6
  <2>2. Packed(v) = <<low + 2 * Q, mid>>
    BY <1>4, <1>6, <2>1
  <2>3. low + 2 * Q \in 0 .. (B - 1) /\ low + 2 * Q \in Bytes /\ mid \in Bytes
    BY <1>1, <1>2 DEF Bytes
  <2> QED BY <1>2, <2>1, <2>2, <2>3
<1>7. CASE ~(v < One) /\ ~(v \in One .. (Two - 1))
  <2>1. Packed(v) = <<low + 3 * Q, mid, high>>
    BY <1>4, <1>7
  <2>2. low + 3 * Q \in 0 .. (B - 1) /\ low + 3 * Q \in Bytes /\ mid \in Bytes /\ high \in Bytes
    BY <1>1, <1>2, <1>3, <1>7 DEF Bytes
  <2> QED BY <1>2, <1>3, <1>7, <2>1, <2>2
<1> QED
  BY <1>5, <1>6, <1>7

\* the bytes of a number
LEMMA NumberBytes ==
  ASSUME NEW v \in Nat, NEW n \in Nat
  PROVE  /\ LE(v, n) \in Seq(Bytes) /\ Len(LE(v, n)) = n
         /\ BE(v, n) \in Seq(Bytes) /\ Len(BE(v, n)) = n
<1>1. ASSUME NEW i \in 1 .. n PROVE (IF i > 4 THEN 0 ELSE (v \div Weight[i]) % 256) \in Bytes
  <2>1. CASE i > 4
    BY <2>1 DEF Bytes
  <2>2. CASE ~(i > 4)
    <3>1. Weight[i] \in Nat \ {0}
      BY <2>2 DEF Weight
    <3>2. (v \div Weight[i]) % 256 \in Bytes
      BY <3>1 DEF Bytes
    <3> QED BY <2>2, <3>2
  <2> QED BY <2>1, <2>2
<1>2. LE(v, n) \in Seq(Bytes) /\ Len(LE(v, n)) = n
  BY <1>1 DEF LE
<1> HIDE DEF LE
<1>3. BE(v, n) \in Seq(Bytes) /\ Len(BE(v, n)) = n
  BY <1>2 DEF BE, Reverse
<1> QED
  BY <1>2, <1>3

\* two sequences one after the other
LEMMA JoinedSeq ==
  ASSUME NEW S, NEW s \in Seq(S), NEW t \in Seq(S)
  PROVE  /\ s \o t \in Seq(S) /\ Len(s \o t) = Len(s) + Len(t)
         /\ \A i \in 1 .. Len(s) : (s \o t)[i] = s[i]
         /\ Len(s) \in Nat /\ Len(t) \in Nat
BY ConcatProperties

\* the last element, and the rest
LEMMA LastAndFront ==
  ASSUME NEW S, NEW s \in Seq(S), Len(s) # 0
  PROVE  /\ Last(s) = s[Len(s)] /\ Last(s) \in S /\ Len(s) \in Nat \ {0}
         /\ Front(s) \in Seq(S) /\ Len(Front(s)) = Len(s) - 1
         /\ \A i \in 1 .. Len(s) - 1 : Front(s)[i] = s[i]
<1>1. Len(s) \in Nat \ {0} /\ DOMAIN s = 1 .. Len(s) /\ s # <<>>
  OBVIOUS
<1>2. Last(s) = s[Len(s)] /\ s[Len(s)] \in S
  BY <1>1 DEF Last
<1>3. Front(s) = SubSeq(s, 1, Len(s) - 1)
  BY DEF Front
<1> QED
  BY <1>1, <1>2, <1>3

-----------------------------------------------------------------------------
(* What each step of the writer leaves.                                    *)

\* bytes are put behind the buffer
LEMMA PutIs ==
  ASSUME NEW v \in Writers, NEW b \in Seq(Bytes)
  PROVE  /\ Put(v, b) \in Writers /\ Put(v, b).buf = v.buf \o b
         /\ Len(Put(v, b).buf) = Len(v.buf) + Len(b)
         /\ \A i \in 1 .. Len(v.buf) : Put(v, b).buf[i] = v.buf[i]
         /\ Put(v, b).open = v.open /\ Put(v, b).points = v.points
         /\ Put(v, b).extra = v.extra
         /\ Len(v.buf) \in Nat /\ Len(b) \in Nat
<1>1. v.buf \in Seq(Bytes)
  BY DEF Writers
<1>2. /\ v.buf \o b \in Seq(Bytes) /\ Len(v.buf \o b) = Len(v.buf) + Len(b)
      /\ \A i \in 1 .. Len(v.buf) : (v.buf \o b)[i] = v.buf[i]
      /\ Len(v.buf) \in Nat /\ Len(b) \in Nat
  BY <1>1, JoinedSeq
<1>3. Put(v, b) = [v EXCEPT !.buf = v.buf \o b]
  BY DEF Put
<1> QED
  BY <1>2, <1>3 DEF Writers

\* a message starts with room for its length, and nothing nested
LEMMA StartedIs ==
  ASSUME NEW v \in Writers
  PROVE  /\ Started(v) \in Writers /\ Len(Started(v).buf) = Len(v.buf) + 4
         /\ \A i \in 1 .. Len(v.buf) : Started(v).buf[i] = v.buf[i]
         /\ Started(v).open = <<>> /\ Started(v).points = <<>>
         /\ Started(v).extra = [v.extra EXCEPT ![0] = 0]
<1> DEFINE b == LE(0, 4)
           p == Put(v, b)
<1>1. b \in Seq(Bytes) /\ Len(b) = 4
  BY NumberBytes
<1> HIDE DEF b
<1>2. /\ p \in Writers /\ Len(p.buf) = Len(v.buf) + 4 /\ p.extra = v.extra
      /\ \A i \in 1 .. Len(v.buf) : p.buf[i] = v.buf[i]
  <2>1. /\ p \in Writers /\ Len(p.buf) = Len(v.buf) + Len(b)
        /\ \A i \in 1 .. Len(v.buf) : p.buf[i] = v.buf[i]
        /\ p.open = v.open /\ p.points = v.points /\ p.extra = v.extra /\ Len(v.buf) \in Nat
    BY <1>1, PutIs
  <2> HIDE DEF p
  <2> QED BY <1>1, <2>1
<1>3. Started(v) = [p EXCEPT !.points = <<>>, !.extra = [p.extra EXCEPT ![0] = 0],
                             !.open = <<>>]
  BY <1>2 DEF Started, Writers, b
<1> HIDE DEF p
<1>4. [p.extra EXCEPT ![0] = 0] \in [0 .. MaxNested -> Nat]
  BY <1>2 DEF Writers
<1>5. /\ Started(v) \in Writers /\ Started(v).buf = p.buf
      /\ Started(v).open = <<>> /\ Started(v).points = <<>>
      /\ Started(v).extra = [p.extra EXCEPT ![0] = 0]
  <2>1. <<>> \in Seq(Opens) /\ <<>> \in Seq(Points)
    OBVIOUS
  <2> QED BY <1>2, <1>3, <1>4, <2>1 DEF Writers
<1> QED
  BY <1>2, <1>5

\* a container is opened with a byte for its length, and one for its count
LEMMA OpenedIs ==
  ASSUME NEW v \in Writers, MayNest(v), NEW isArray \in BOOLEAN, NEW count \in Counts
  PROVE  LET o == Opened(v, isArray, count) IN
         /\ o \in Writers /\ Len(o.buf) = Len(v.buf) + 2
         /\ \A i \in 1 .. Len(v.buf) : o.buf[i] = v.buf[i]
         /\ o.open = Append(v.open, [header |-> Len(v.buf), isArray |-> isArray])
         /\ o.points = v.points
         /\ o.extra = [v.extra EXCEPT ![Depth(v) + 1] = 0]
<1> DEFINE b == <<0>> \o Packed(count)
           p == Put(v, b)
           x == [header |-> Len(v.buf), isArray |-> isArray]
<1>1. count \in Nat /\ count < One
  BY Sizes, WriterAssumption
<1>2. Packed(count) \in Seq(Bytes) /\ Len(Packed(count)) = 1
  BY <1>1, PackedBytes
<1>3. b \in Seq(Bytes) /\ Len(b) = 2
  <2> DEFINE z == <<0>>
             q == Packed(count)
  <2>1. z \in Seq(Bytes) /\ Len(z) = 1
    BY DEF Bytes
  <2>2. b = z \o q /\ q \in Seq(Bytes) /\ Len(q) = 1
    BY <1>2
  <2> HIDE DEF z, q, b
  <2>3. z \o q \in Seq(Bytes) /\ Len(z \o q) = Len(z) + Len(q)
    BY <2>1, <2>2, JoinedSeq
  <2> QED BY <2>1, <2>2, <2>3
<1> HIDE DEF b
<1>4. /\ p \in Writers /\ Len(p.buf) = Len(v.buf) + 2 /\ p.extra = v.extra /\ p.open = v.open
      /\ \A i \in 1 .. Len(v.buf) : p.buf[i] = v.buf[i]
      /\ p.points = v.points /\ Len(v.buf) \in Nat
  <2>1. /\ p \in Writers /\ Len(p.buf) = Len(v.buf) + Len(b)
        /\ \A i \in 1 .. Len(v.buf) : p.buf[i] = v.buf[i]
        /\ p.open = v.open /\ p.points = v.points /\ p.extra = v.extra /\ Len(v.buf) \in Nat
    BY <1>3, PutIs
  <2> HIDE DEF p
  <2> QED BY <1>3, <2>1
<1>5. Opened(v, isArray, count) =
         [p EXCEPT !.open = Append(p.open, x), !.extra = [p.extra EXCEPT ![Depth(v) + 1] = 0]]
  BY <1>4 DEF Opened, b, Writers
<1> HIDE DEF p
<1>6. [p.extra EXCEPT ![Depth(v) + 1] = 0] \in [0 .. MaxNested -> Nat]
  BY <1>4 DEF Writers
<1>7. Append(p.open, x) \in Seq(Opens)
  <2>1. p.open \in Seq(Opens) /\ x \in Opens
    BY <1>4 DEF Writers, Opens
  <2> HIDE DEF x
  <2> QED BY <2>1
<1> HIDE DEF x
<1>8. Opened(v, isArray, count) \in Writers
  BY <1>4, <1>5, <1>6, <1>7 DEF Writers
<1> QED
  BY <1>4, <1>5, <1>8 DEF Writers, x

\* how far the bytes of container d reach; d = 0 is the message itself
EndOf(v, d)  == IF d = Depth(v) THEN Len(v.buf) ELSE v.open[d + 1].header
BaseOf(v, d) == IF d = 0 THEN 0 ELSE v.open[d].header + 2

\* Each container begins inside the one it is in, with its length and its count,
\* what its headers need is less than what it has of bytes, and these are in the
\* buffer.
Nested(v) ==
    /\ \A k \in DOMAIN v.points : v.points[k].at \in 1 .. Len(v.buf)
    /\ \A i \in 1 .. Depth(v) : v.open[i].header + 2 <= Len(v.buf)
    /\ \A i, j \in 1 .. Depth(v) : i < j => v.open[i].header + 2 <= v.open[j].header
    /\ \A d \in 0 .. Depth(v) : v.extra[d] <= EndOf(v, d) - BaseOf(v, d)

\* a container is closed: its length is written, or noted when it is long
LEMMA ClosedIs ==
  ASSUME NEW v \in Writers, Depth(v) # 0, Depth(v) <= MaxNested, Nested(v)
  PROVE  LET c == Closed(v)
             at == v.open[Depth(v)].header + 1
             length == LengthOf(v)
             long == ~(length < One)
             d == Depth(v) - 1
         IN
         /\ c \in Writers /\ Len(c.buf) = Len(v.buf) /\ at \in 1 .. Len(v.buf)
         /\ length \in Nat /\ d \in Nat /\ Len(v.buf) \in Nat
         /\ c.open = Front(v.open)
         /\ c.points = IF long THEN Append(v.points, [at |-> at, packed |-> Packed(length)])
                       ELSE v.points
         /\ c.extra = IF long THEN [v.extra EXCEPT ![d] = @ + Len(Packed(length)) - 1]
                      ELSE v.extra
         /\ Packed(length) \in Seq(0 .. (B - 1)) /\ (long => Len(Packed(length)) \in {2, 3})
<1> DEFINE D == Depth(v)
           d == D - 1
           at == v.open[D].header + 1
           length == LengthOf(v)
           low == length % B
           x == [at |-> at, packed |-> Packed(length)]
<1>1. /\ v.open \in Seq(Opens) /\ v.buf \in Seq(Bytes) /\ v.points \in Seq(Points)
      /\ v.extra \in [0 .. MaxNested -> Nat]
  BY DEF Writers
<1>2. D \in Nat \ {0} /\ Len(v.buf) \in Nat /\ d \in Nat /\ d \in 0 .. MaxNested /\ D \in 0 .. MaxNested
  BY <1>1, Sizes DEF Depth
<1>3. v.open[D] \in Opens /\ Last(v.open) = v.open[D] /\ Front(v.open) \in Seq(Opens)
  BY <1>1, LastAndFront DEF Depth
<1>4. v.open[D].header \in Nat /\ v.open[D].header + 2 <= Len(v.buf)
  BY <1>2, <1>3 DEF Opens, Nested
<1>5. length \in Nat /\ at \in 1 .. Len(v.buf)
  <2>1. v.extra[D] \in Nat
    BY <1>1, <1>2
  <2>2. length = Len(v.buf) - v.open[D].header - 1 + v.extra[D]
    BY <1>3 DEF LengthOf
  <2> DEFINE h == v.open[D].header
             n == Len(v.buf)
             e == v.extra[D]
  <2>3. h \in Nat /\ n \in Nat /\ e \in Nat /\ h + 2 <= n /\ length = n - h - 1 + e /\ at = h + 1
    BY <1>2, <1>4, <2>1, <2>2
  <2>4. at \in 1 .. n
    <3> HIDE DEF h, n, e, length
    <3> QED BY <2>3
  <2>5. length \in Nat
    <3> HIDE DEF h, n, e, length
    <3> QED BY <2>3
  <2> QED BY <2>4, <2>5
<1>6. /\ Packed(length) \in Seq(0 .. (B - 1))
      /\ ~(length < One) => Len(Packed(length)) \in {2, 3}
  BY <1>5, PackedBytes
<1>7. low \in Bytes
  <2>1. B \in Nat \ {0} /\ B <= 256
    BY Sizes
  <2> HIDE DEF length
  <2> QED BY <1>5, <2>1 DEF Bytes
<1> DEFINE small == [v EXCEPT !.open = Front(v.open), !.buf = [v.buf EXCEPT ![at] = low]]
           big == [small EXCEPT
                     !.extra = [small.extra EXCEPT ![d] = @ + Len(Packed(length)) - 1],
                     !.points = Append(small.points, x)]
<1>8. Closed(v) = IF length < One THEN small ELSE big
  BY <1>3 DEF Closed, Writers, Depth
<1> HIDE DEF d, at, length, low, x, D
<1>9. [v.buf EXCEPT ![at] = low] \in Seq(Bytes) /\ Len([v.buf EXCEPT ![at] = low]) = Len(v.buf)
  BY <1>1, <1>5, <1>7
<1>10. /\ small \in Writers /\ Len(small.buf) = Len(v.buf) /\ small.open = Front(v.open)
       /\ small.points = v.points /\ small.extra = v.extra
  BY <1>1, <1>3, <1>9 DEF Writers
<1> HIDE DEF small
<1>11. CASE length < One
  BY <1>2, <1>5, <1>6, <1>8, <1>10, <1>11 DEF at, length, d, D
<1>12. CASE ~(length < One)
  <2>1. [small.extra EXCEPT ![d] = @ + Len(Packed(length)) - 1] \in [0 .. MaxNested -> Nat]
    <3> DEFINE l == Len(Packed(length)) - 1
    <3>1. l \in Nat
      BY <1>6, <1>12
    <3> HIDE DEF l
    <3>2. small.extra = v.extra /\ v.extra[d] + l \in Nat /\ v.extra[d] \in Nat
      <4>1. v.extra[d] \in Nat
        BY <1>1, <1>2
      <4> QED BY <1>10, <3>1, <4>1
    <3>3. [small.extra EXCEPT ![d] = @ + Len(Packed(length)) - 1]
             = [v.extra EXCEPT ![d] = v.extra[d] + Len(Packed(length)) - 1]
      BY <1>10
    <3>4. v.extra[d] + Len(Packed(length)) - 1 = v.extra[d] + l
      BY <1>6, <1>12, <3>2 DEF l
    <3> QED BY <1>1, <1>2, <3>2, <3>3, <3>4
  <2>2. Append(small.points, x) \in Seq(Points)
    <3>1. x \in Points
      BY <1>5, <1>6 DEF x, Points
    <3> QED BY <1>1, <1>10, <3>1
  <2>3. /\ big \in Writers /\ big.buf = small.buf /\ big.open = small.open
        /\ big.points = Append(v.points, x)
        /\ big.extra = [v.extra EXCEPT ![d] = @ + Len(Packed(length)) - 1]
    BY <1>10, <2>1, <2>2 DEF Writers
  <2>4. Closed(v) = big
    BY <1>8, <1>12
  <2> HIDE DEF big
  <2> QED
    BY <1>2, <1>5, <1>6, <1>10, <1>12, <2>3, <2>4 DEF at, length, d, D, x
<1> QED
  BY <1>11, <1>12

-----------------------------------------------------------------------------
(* The headers are expanded, from the last point to the first.             *)

\* what is moved apart before the first turn
Unmoved(v) ==
    [buf |-> v.buf \o LE(0, v.extra[0]), end |-> Len(v.buf), offset |-> v.extra[0],
     sane |-> TRUE]

\* f is what each of the first m turns leaves
MovesUpTo(f, v, m) ==
    f = [k \in 0 .. m |-> IF k = 0 THEN Unmoved(v)
                          ELSE MoveApart(f[k - 1], v.points[Len(v.points) - k + 1])]

\* there is such a function
LEMMA MovesExist ==
  ASSUME NEW v, NEW n \in Nat
  PROVE  \E f : MovesUpTo(f, v, n)
<1> DEFINE point(k) == v.points[Len(v.points) - k + 1]
           S == {m \in 0 .. n : \E f : MovesUpTo(f, v, m)}
<1>1. 0 \in S
  <2>1. MovesUpTo([k \in 0 .. 0 |-> Unmoved(v)], v, 0)
    BY DEF MovesUpTo
  <2> QED BY <2>1
<1>2. ASSUME NEW m \in 0 .. n, m \in S /\ m # n PROVE m + 1 \in S
  <2>1. PICK f : MovesUpTo(f, v, m)
    BY <1>2
  <2> DEFINE last == MoveApart(f[m], point(m + 1))
             g == [k \in 0 .. m + 1 |-> IF k \in 0 .. m THEN f[k] ELSE last]
  <2>2. ASSUME NEW k \in 0 .. m + 1
        PROVE  g[k] = IF k = 0 THEN Unmoved(v) ELSE MoveApart(g[k - 1], point(k))
    <3>1. CASE k \in 0 .. m
      <4>1. g[k] = f[k]
        BY <3>1
      <4>2. f[k] = IF k = 0 THEN Unmoved(v) ELSE MoveApart(f[k - 1], point(k))
        BY <2>1, <3>1 DEF MovesUpTo
      <4>3. k # 0 => k - 1 \in 0 .. m /\ k - 1 \in 0 .. m + 1
        BY <3>1
      <4>4. k # 0 => g[k - 1] = f[k - 1]
        BY <4>3
      <4> QED
        BY <4>1, <4>2, <4>4
    <3>2. CASE k = m + 1
      <4>1. k # 0 /\ k - 1 = m /\ m \in 0 .. m /\ m \in 0 .. m + 1 /\ ~(k \in 0 .. m)
        BY <3>2
      <4>2. g[k] = last /\ g[m] = f[m]
        BY <4>1
      <4> QED
        BY <3>2, <4>1, <4>2
    <3> QED
      BY <3>1, <3>2
  <2> HIDE DEF g
  <2>3. g = [k \in 0 .. m + 1 |-> IF k = 0 THEN Unmoved(v) ELSE MoveApart(g[k - 1], point(k))]
    <3>1. g = [k \in 0 .. m + 1 |-> g[k]]
      BY DEF g
    <3> QED
      BY <2>2, <3>1
  <2>4. MovesUpTo(g, v, m + 1)
    BY <2>3 DEF MovesUpTo
  <2>5. m + 1 \in 0 .. n
    BY <1>2
  <2> QED
    BY <2>4, <2>5
<1>3. n \in 0 .. n
  OBVIOUS
<1> HIDE DEF S
<1>4. n \in S
  BY <1>1, <1>2, <1>3, InductionUpTo
<1> QED
  BY <1>4 DEF S

\* Expanded takes all the turns
LEMMA ExpandedMoves ==
  ASSUME NEW v, NEW from, Len(v.points) \in Nat
  PROVE  \E f : LET n == Len(v.points) IN
            /\ f[0] = Unmoved(v)
            /\ \A k \in 1 .. n : f[k] = MoveApart(f[k - 1], v.points[n - k + 1])
            /\ Expanded(v, from) =
                  [v |-> [v EXCEPT !.buf = f[n].buf],
                   sane |-> f[n].sane /\ f[n].offset = 0 /\ f[n].end > from]
<1> DEFINE n == Len(v.points)
           f == CHOOSE f : MovesUpTo(f, v, n)
<1>1. MovesUpTo(f, v, n)
  BY MovesExist
<1>2. Expanded(v, from) = [v |-> [v EXCEPT !.buf = f[n].buf],
                           sane |-> f[n].sane /\ f[n].offset = 0 /\ f[n].end > from]
  BY DEF Expanded, MovesUpTo, Unmoved
<1> HIDE DEF f
<1>3. f[0] = Unmoved(v)
  <2>1. 0 \in 0 .. n
    OBVIOUS
  <2> QED BY <1>1, <2>1 DEF MovesUpTo
<1>4. ASSUME NEW k \in 1 .. n PROVE f[k] = MoveApart(f[k - 1], v.points[n - k + 1])
  <2>1. k \in 0 .. n /\ k # 0
    OBVIOUS
  <2> QED BY <1>1, <2>1 DEF MovesUpTo
<1> QED
  BY <1>2, <1>3, <1>4

\* while the bytes are moved, they are as many, and bytes
Moving(s, size) ==
    /\ s.buf \in Seq(Bytes) /\ Len(s.buf) = size
    /\ s.end \in Int /\ s.end <= size /\ s.offset \in Int /\ s.sane \in BOOLEAN

\* before the first turn
LEMMA UnmovedIs ==
  ASSUME NEW v \in Writers
  PROVE  /\ Moving(Unmoved(v), Len(v.buf) + v.extra[0])
         /\ Len(v.buf) \in Nat /\ v.extra[0] \in Nat
         /\ \A p \in 1 .. Len(v.buf) : Unmoved(v).buf[p] = v.buf[p]
<1> DEFINE e == v.extra[0]
           z == LE(0, e)
           b == v.buf
<1>1. b \in Seq(Bytes) /\ e \in Nat
  <2>1. 0 \in 0 .. MaxNested
    BY Sizes
  <2> QED BY <2>1 DEF Writers
<1>2. z \in Seq(Bytes) /\ Len(z) = e
  BY <1>1, NumberBytes
<1>3. Unmoved(v) = [buf |-> b \o z, end |-> Len(b), offset |-> e, sane |-> TRUE]
  BY DEF Unmoved
<1> HIDE DEF e, z, b
<1>4. /\ b \o z \in Seq(Bytes) /\ Len(b \o z) = Len(b) + Len(z) /\ Len(b) \in Nat
      /\ \A p \in 1 .. Len(b) : (b \o z)[p] = b[p]
  BY <1>1, <1>2, JoinedSeq
<1>5. Moving(Unmoved(v), Len(b) + e)
  BY <1>1, <1>2, <1>3, <1>4 DEF Moving
<1> QED
  BY <1>1, <1>3, <1>4, <1>5 DEF e, b

\* what one turn leaves in each place
LEMMA MoveApartIs ==
  ASSUME NEW s, NEW size \in Nat, Moving(s, size), NEW point \in Points,
         point.at \in 1 .. size
  PROVE  LET t == MoveApart(s, point)
             n == Len(point.packed)
             header == point.at - 1 + s.offset - (n - 1)
         IN
         /\ Moving(t, size)
         /\ t.end = point.at - 1 /\ t.offset = s.offset - (n - 1)
         /\ t.sane = (s.sane /\ point.at <= s.end /\ t.offset >= 0)
         /\ \A i \in 1 .. size :
               t.buf[i] = CASE i - s.offset \in (point.at + 1) .. s.end -> s.buf[i - s.offset]
                            [] i - header \in 1 .. n -> point.packed[i - header]
                            [] OTHER -> s.buf[i]
<1> DEFINE t == MoveApart(s, point)
           n == Len(point.packed)
           end == point.at - 1
           offset == s.offset - (n - 1)
           header == end + offset
           byte(i) == CASE i - s.offset \in (point.at + 1) .. s.end -> s.buf[i - s.offset]
                        [] i - header \in DOMAIN point.packed -> point.packed[i - header]
                        [] OTHER -> s.buf[i]
<1>1. /\ s.buf \in Seq(Bytes) /\ Len(s.buf) = size /\ DOMAIN s.buf = 1 .. size
      /\ s.end \in Int /\ s.end <= size /\ s.offset \in Int /\ s.sane \in BOOLEAN
  BY DEF Moving
<1>2. /\ point.at \in Nat /\ point.packed \in Seq(0 .. (B - 1)) /\ n \in Nat
      /\ DOMAIN point.packed = 1 .. n
  BY DEF Points
<1>3. t = [buf |-> [i \in 1 .. size |-> byte(i)], end |-> end, offset |-> offset,
           sane |-> s.sane /\ point.at <= s.end /\ offset >= 0]
  BY <1>1 DEF MoveApart
<1>4. ASSUME NEW i \in 1 .. size PROVE byte(i) \in Bytes
  <2>1. i - s.offset \in (point.at + 1) .. s.end => s.buf[i - s.offset] \in Bytes
    <3>1. i - s.offset \in (point.at + 1) .. s.end => i - s.offset \in 1 .. size
      BY <1>1, <1>2
    <3> QED BY <1>1, <3>1
  <2>2. i - header \in DOMAIN point.packed => point.packed[i - header] \in Bytes
    <3>1. 0 .. (B - 1) \subseteq Bytes
      BY Sizes DEF Bytes
    <3>2. ASSUME NEW x \in DOMAIN point.packed PROVE point.packed[x] \in 0 .. (B - 1)
      <4> DEFINE q == point.packed
                 T == 0 .. (B - 1)
      <4>1. q \in Seq(T)
        BY <1>2
      <4> HIDE DEF q, T
      <4>2. \A y \in DOMAIN q : q[y] \in T
        BY <4>1
      <4> QED BY <4>2 DEF q, T
    <3> HIDE DEF header
    <3> QED BY <3>1, <3>2
  <2>3. s.buf[i] \in Bytes
    BY <1>1
  <2> HIDE DEF header
  <2> QED BY <2>1, <2>2, <2>3
<1>5. offset \in Int /\ end \in Int /\ end <= size
  <2> HIDE DEF n
  <2> QED BY <1>1, <1>2
<1> HIDE DEF byte, t, offset, end
<1>6. [i \in 1 .. size |-> byte(i)] \in Seq(Bytes) /\ Len([i \in 1 .. size |-> byte(i)]) = size
  BY <1>4
<1>7. Moving(t, size)
  BY <1>1, <1>3, <1>5, <1>6 DEF Moving
<1>8. \A i \in 1 .. size : t.buf[i] = byte(i)
  BY <1>3
<1>9. header = point.at - 1 + s.offset - (n - 1)
  <2> HIDE DEF n
  <2> QED BY <1>1, <1>2 DEF end, offset
<1> QED
  BY <1>2, <1>3, <1>7, <1>8, <1>9 DEF byte, t, offset, end

\* what is expanded is bytes, as many as before and the room kept
LEMMA ExpandedIs ==
  ASSUME NEW v \in Writers, NEW from, \A k \in DOMAIN v.points : v.points[k].at \in 1 .. Len(v.buf)
  PROVE  LET e == Expanded(v, from) IN
         /\ e.v \in Writers /\ Len(e.v.buf) = Len(v.buf) + v.extra[0]
         /\ e.v.open = v.open /\ e.v.points = v.points /\ e.v.extra = v.extra
<1> DEFINE n == Len(v.points)
           size == Len(v.buf) + v.extra[0]
           e == Expanded(v, from)
<1>1. v.points \in Seq(Points) /\ n \in Nat /\ DOMAIN v.points = 1 .. n
  BY DEF Writers
<1>2. PICK f : /\ f[0] = Unmoved(v)
               /\ \A k \in 1 .. n : f[k] = MoveApart(f[k - 1], v.points[n - k + 1])
               /\ e = [v |-> [v EXCEPT !.buf = f[n].buf],
                       sane |-> f[n].sane /\ f[n].offset = 0 /\ f[n].end > from]
  BY <1>1, ExpandedMoves
<1>3. size \in Nat /\ Len(v.buf) \in Nat /\ Len(v.buf) <= size /\ Moving(Unmoved(v), size)
  BY UnmovedIs
<1> DEFINE S == {k \in 0 .. n : Moving(f[k], size)}
<1>4. 0 \in S
  BY <1>1, <1>2, <1>3
<1>5. ASSUME NEW k \in 0 .. n, k \in S /\ k # n PROVE k + 1 \in S
  <2> DEFINE m == n - (k + 1) + 1
             point == v.points[m]
  <2>1. k + 1 \in 1 .. n /\ k + 1 \in 0 .. n /\ (k + 1) - 1 = k /\ m \in 1 .. n
    <3>1. k # n
      BY <1>5
    <3> HIDE DEF n
    <3> QED BY <1>1, <3>1
  <2>2. f[k + 1] = MoveApart(f[k], point)
    BY <1>2, <2>1
  <2>3. point \in Points /\ point.at \in 1 .. Len(v.buf)
    BY <1>1, <2>1
  <2>4. point.at \in 1 .. size /\ Moving(f[k], size)
    BY <1>3, <1>5, <2>3
  <2> HIDE DEF point, size, m
  <2>5. Moving(f[k + 1], size)
    BY <1>3, <2>2, <2>3, <2>4, MoveApartIs
  <2> QED BY <2>1, <2>5
<1>6. n \in 0 .. n
  BY <1>1
<1> HIDE DEF S, n, size
<1>7. n \in S
  BY <1>1, <1>4, <1>5, <1>6, InductionUpTo
<1>8. f[n].buf \in Seq(Bytes) /\ Len(f[n].buf) = size
  BY <1>7 DEF S, Moving
<1> HIDE DEF e
<1>9. e.v = [v EXCEPT !.buf = f[n].buf]
  BY <1>2
<1> QED
  BY <1>8, <1>9 DEF e, size, Writers

\* growth only goes up
LEMMA GrowthUp ==
  ASSUME NEW points, Growing(points), NEW i \in 0 .. Len(points), NEW j \in 0 .. Len(points), i <= j
  PROVE  Growth(points, i) <= Growth(points, j)
<1> DEFINE n == Len(points)
           G(k) == Growth(points, k)
           S == {k \in 0 .. n : i <= k => G(i) <= G(k)}
<1>1. n \in Nat /\ DOMAIN points = 1 .. n /\ \A k \in 0 .. n : G(k) \in Nat
  BY GrowthIsNat
<1>2. 0 \in S
  <2>1. i <= 0 => i = 0
    BY <1>1
  <2>2. G(0) \in Nat /\ 0 \in 0 .. n
    BY <1>1
  <2> HIDE DEF G, n
  <2> QED BY <2>1, <2>2
<1>3. ASSUME NEW k \in 0 .. n, k \in S /\ k # n PROVE k + 1 \in S
  <2>1. k + 1 \in 1 .. n /\ k + 1 \in 0 .. n /\ (k + 1) - 1 = k
    <3>1. k # n
      BY <1>3
    <3> HIDE DEF n, S
    <3> QED BY <1>1, <3>1
  <2>2. Len(points[k + 1].packed) \in {2, 3}
    BY <1>1, <2>1 DEF Growing
  <2> DEFINE l == Len(points[k + 1].packed)
  <2>3. G(k + 1) = G(k) + l - 1
    BY <1>1, <2>1, GrowthStep
  <2>4. G(k) \in Nat /\ G(i) \in Nat /\ (i <= k => G(i) <= G(k)) /\ l \in {2, 3}
    BY <1>1, <1>3, <2>2
  <2>5. G(k + 1) \in Nat /\ G(k) <= G(k + 1)
    <3> HIDE DEF G, l
    <3> QED BY <2>3, <2>4
  <2>7. i <= k + 1 => i <= k \/ i = k + 1
    <3> HIDE DEF n
    <3> QED BY <1>1
  <2>6. i <= k + 1 => G(i) <= G(k + 1)
    <3> HIDE DEF G
    <3> QED BY <2>4, <2>5, <2>7
  <2> HIDE DEF G
  <2> QED BY <2>1, <2>6
<1> HIDE DEF S, G
<1>4. 0 .. n \subseteq S
  <2> HIDE DEF n
  <2> QED BY <1>1, <1>2, <1>3, InductionUpTo
<1> QED
  BY <1>4 DEF S, G

-----------------------------------------------------------------------------
(* Where the bytes are when the headers are expanded.                      *)

\* The points are in the order in which they are in the message, and the room
\* kept is what they need.
Ordered(v, from) ==
    /\ Growing(v.points)
    /\ v.extra[0] = Growth(v.points, Len(v.points))
    /\ \A k \in DOMAIN v.points :
          from + 1 < v.points[k].at /\ v.points[k].at <= Len(v.buf)
    /\ \A j, k \in DOMAIN v.points : j < k => v.points[j].at < v.points[k].at

\* Header i, and the bytes between it and the next, are where they should be.
Settled(v, buf, i) ==
    LET shift == Growth(v.points, i)
        packed == v.points[i].packed
    IN /\ \A p \in (PlaceOf(v, i) + 1) .. (PlaceOf(v, i + 1) - 1) : buf[p + shift] = v.buf[p]
       /\ \A j \in 1 .. Len(packed) : buf[PlaceOf(v, i) + shift - Len(packed) + j] = packed[j]

\* the last turns are done, and m points are left
Loop(v, s, m) ==
    /\ Moving(s, Len(v.buf) + v.extra[0])
    /\ s.end = PlaceOf(v, m + 1) - 1 /\ s.offset = Growth(v.points, m) /\ s.sane
    /\ \A p \in 1 .. s.end : s.buf[p] = v.buf[p]
    /\ \A i \in m + 1 .. Len(v.points) : Settled(v, s.buf, i)

\* where the points are
LEMMA Placed ==
  ASSUME NEW v \in Writers, NEW from \in Nat, Ordered(v, from)
  PROVE  LET n == Len(v.points)
             G(k) == Growth(v.points, k)
             At0(k) == PlaceOf(v, k)
         IN
         /\ n \in Nat /\ DOMAIN v.points = 1 .. n /\ Len(v.buf) \in Nat
         /\ At0(0) = 0 /\ At0(n + 1) = Len(v.buf) + 1
         /\ \A k \in 1 .. n : /\ At0(k) = v.points[k].at /\ At0(k) \in 1 .. Len(v.buf)
                              /\ from + 1 < At0(k)
         /\ \A k \in 0 .. n : At0(k) \in Nat /\ G(k) \in Nat
         /\ \A k \in 1 .. n + 1 : At0(k) \in Nat
         /\ \A j \in 0 .. n, k \in 1 .. n + 1 : j < k => At0(j) < At0(k)
         /\ \A j, k \in 0 .. n : j <= k => G(j) <= G(k)
         /\ \A k \in 1 .. n : /\ G(k) = G(k - 1) + Len(v.points[k].packed) - 1
                              /\ Len(v.points[k].packed) \in {2, 3}
         /\ v.extra[0] = G(n) /\ G(0) = 0
<1> DEFINE n == Len(v.points)
           G(k) == Growth(v.points, k)
           L == Len(v.buf)
<1>1. n \in Nat /\ DOMAIN v.points = 1 .. n /\ L \in Nat
  BY GrowthIsNat DEF Ordered, Writers
<1>2. \A k \in 1 .. n : v.points[k].at \in 1 .. L /\ from + 1 < v.points[k].at
  <2>1. ASSUME NEW k \in 1 .. n PROVE v.points[k].at \in 1 .. L /\ from + 1 < v.points[k].at
    <3>1. v.points[k] \in Points
      BY <1>1 DEF Writers
    <3>2. v.points[k].at \in Nat /\ from + 1 < v.points[k].at /\ v.points[k].at <= L
      BY <1>1, <3>1 DEF Points, Ordered
    <3> HIDE DEF L
    <3> QED BY <1>1, <3>2
  <2> QED BY <2>1
<1>3. PlaceOf(v, 0) = 0 /\ \A k \in 1 .. n : PlaceOf(v, k) = v.points[k].at
  BY <1>1 DEF PlaceOf
<1>4. PlaceOf(v, n + 1) = L + 1
  <2>1. n + 1 # 0 /\ n + 1 \notin 1 .. n
    <3> HIDE DEF n
    <3> QED BY <1>1
  <2> QED BY <1>1, <2>1 DEF PlaceOf
<1>5. \A j, k \in 1 .. n : j < k => v.points[j].at < v.points[k].at
  BY <1>1 DEF Ordered
<1>6. \A k \in 0 .. n : PlaceOf(v, k) \in Nat
  <2>1. ASSUME NEW k \in 0 .. n PROVE PlaceOf(v, k) \in Nat
    <3>1. k = 0 \/ k \in 1 .. n
      BY <1>1
    <3> QED BY <1>2, <1>3, <3>1
  <2> QED BY <2>1
<1>7. \A k \in 1 .. n + 1 : PlaceOf(v, k) \in Nat
  <2>1. ASSUME NEW k \in 1 .. n + 1 PROVE PlaceOf(v, k) \in Nat
    <3>1. k = n + 1 \/ k \in 1 .. n
      <4> HIDE DEF n
      <4> QED BY <1>1
    <3> HIDE DEF n, L
    <3> QED BY <1>1, <1>2, <1>3, <1>4, <3>1
  <2> QED BY <2>1
<1>8. \A j \in 0 .. n, k \in 1 .. n + 1 : j < k => PlaceOf(v, j) < PlaceOf(v, k)
  <2>1. ASSUME NEW j \in 0 .. n, NEW k \in 1 .. n + 1, j < k PROVE PlaceOf(v, j) < PlaceOf(v, k)
    <3>1. (j = 0 \/ j \in 1 .. n) /\ (k = n + 1 \/ k \in 1 .. n)
      <4> HIDE DEF n
      <4> QED BY <1>1
    <3>2. j = 0 => PlaceOf(v, j) = 0 /\ PlaceOf(v, k) > 0
      <4> HIDE DEF n, L
      <4> QED BY <1>1, <1>2, <1>3, <1>4, <3>1
    <3>3. j \in 1 .. n => PlaceOf(v, j) \in 1 .. L
      BY <1>2, <1>3
    <3>4. k = n + 1 => PlaceOf(v, k) = L + 1
      BY <1>4
    <3>5. j \in 1 .. n /\ k \in 1 .. n => PlaceOf(v, j) < PlaceOf(v, k)
      BY <1>3, <1>5, <2>1
    <3> HIDE DEF n, L
    <3> QED BY <1>1, <3>1, <3>2, <3>3, <3>4, <3>5
  <2> QED BY <2>1
<1>9. /\ \A k \in 0 .. n : G(k) \in Nat
      /\ \A j, k \in 0 .. n : j <= k => G(j) <= G(k)
  BY GrowthIsNat, GrowthUp DEF Ordered
<1>10. /\ G(0) = 0
       /\ \A k \in 1 .. n : /\ G(k) = G(k - 1) + Len(v.points[k].packed) - 1
                            /\ Len(v.points[k].packed) \in {2, 3}
  BY <1>1, GrowthStep DEF Ordered, Growing
<1> QED
  BY <1>1, <1>2, <1>3, <1>4, <1>6, <1>7, <1>8, <1>9, <1>10 DEF Ordered

\* one turn settles one header more, and the bytes behind it
LEMMA MoveApartSettles ==
  ASSUME NEW v \in Writers, NEW from \in Nat, Ordered(v, from),
         NEW m \in 1 .. Len(v.points), NEW s, Loop(v, s, m)
  PROVE  Loop(v, MoveApart(s, v.points[m]), m - 1)
<1> DEFINE n == Len(v.points)
           G(k) == Growth(v.points, k)
           P(k) == PlaceOf(v, k)
           L == Len(v.buf)
           size == L + v.extra[0]
           point == v.points[m]
           len == Len(point.packed)
           t == MoveApart(s, point)
           g == G(m)
           a == P(m)
           b == P(m + 1)
<1>1. /\ n \in Nat /\ DOMAIN v.points = 1 .. n /\ L \in Nat
      /\ P(n + 1) = L + 1
      /\ \A k \in 1 .. n : P(k) = v.points[k].at /\ P(k) \in 1 .. L
      /\ \A k \in 0 .. n : P(k) \in Nat /\ G(k) \in Nat
      /\ \A k \in 1 .. n + 1 : P(k) \in Nat
      /\ \A j \in 0 .. n, k \in 1 .. n + 1 : j < k => P(j) < P(k)
      /\ \A j, k \in 0 .. n : j <= k => G(j) <= G(k)
      /\ \A k \in 1 .. n : /\ G(k) = G(k - 1) + Len(v.points[k].packed) - 1
                           /\ Len(v.points[k].packed) \in {2, 3}
      /\ v.extra[0] = G(n)
  BY Placed
<1>2. /\ m \in 1 .. n /\ m \in 0 .. n /\ m + 1 \in 1 .. n + 1 /\ m - 1 \in 0 .. n
      /\ n \in 0 .. n /\ (m - 1) + 1 = m /\ m < m + 1 /\ m <= n /\ n + 1 \in 1 .. n + 1
      /\ m + 1 <= n + 1
  <2> HIDE DEF n
  <2> QED BY <1>1
<1>3. point \in Points /\ point.packed \in Seq(0 .. (B - 1)) /\ point.at = a
  <2>1. point \in Points
    <3>1. v.points \in Seq(Points)
      BY DEF Writers
    <3> QED BY <3>1
  <2>2. point.at = a
    BY <1>1, <1>2
  <2> HIDE DEF point, a
  <2> QED BY <2>1, <2>2 DEF Points
<1>4. a \in 1 .. L /\ b \in Nat /\ a < b /\ g \in Nat /\ G(m - 1) \in Nat /\ G(n) \in Nat
  BY <1>1, <1>2
<1>5. len \in {2, 3} /\ G(m - 1) = g - (len - 1) /\ g <= G(n)
  <2>1. g = G(m - 1) + len - 1 /\ len \in {2, 3} /\ g <= G(n)
    BY <1>1, <1>2
  <2> HIDE DEF G, len, g
  <2> QED BY <1>4, <2>1
<1>6. b <= L + 1
  <2>1. m + 1 = n + 1 \/ (m + 1 \in 1 .. n)
    <3> HIDE DEF n
    <3> QED BY <1>1, <1>2
  <2>2. m + 1 = n + 1 => b = L + 1
    BY <1>1
  <2>3. m + 1 \in 1 .. n => b \in 1 .. L
    BY <1>1
  <2> HIDE DEF b, L, n
  <2> QED BY <1>1, <2>1, <2>2, <2>3
<1>7. /\ Moving(s, size) /\ s.end = b - 1 /\ s.offset = g /\ s.sane
      /\ \A p \in 1 .. s.end : s.buf[p] = v.buf[p]
      /\ \A i \in m + 1 .. n : Settled(v, s.buf, i)
  BY DEF Loop
<1>8. size = L + G(n) /\ size \in Nat /\ point.at \in 1 .. size
  <2>1. size = L + G(n)
    BY <1>1
  <2> DEFINE z == G(n)
  <2>2. size = L + z /\ L \in Nat /\ z \in Nat /\ point.at = a /\ a \in 1 .. L
    BY <1>1, <1>3, <1>4, <2>1
  <2> HIDE DEF size, L, point, a, z
  <2>3. size = L + z /\ size \in Nat /\ point.at \in 1 .. size
    BY <2>2
  <2> QED BY <2>3 DEF z
<1> DEFINE header == point.at - 1 + s.offset - (len - 1)
           byte(i) == CASE i - s.offset \in (point.at + 1) .. s.end -> s.buf[i - s.offset]
                        [] i - header \in 1 .. len -> point.packed[i - header]
                        [] OTHER -> s.buf[i]
<1>9. /\ Moving(t, size) /\ t.end = point.at - 1 /\ t.offset = s.offset - (len - 1)
      /\ t.sane = (s.sane /\ point.at <= s.end /\ t.offset >= 0)
      /\ \A i \in 1 .. size : t.buf[i] = byte(i)
  <2>1. size \in Nat /\ Moving(s, size) /\ point \in Points /\ point.at \in 1 .. size
    BY <1>3, <1>7, <1>8
  <2> HIDE DEF size, point
  <2> QED BY <2>1, MoveApartIs
<1>10. header = a - 1 + g - (len - 1) /\ header + len = a + g
  <2>1. header = a - 1 + g - (len - 1)
    BY <1>3, <1>7
  <2> HIDE DEF header, a, g, len
  <2> QED BY <1>4, <1>5, <2>1
<1> DEFINE z == G(n)
           y == G(m - 1)
<1> HIDE DEF G, P, L, size, point, len, t, g, a, b, n, header
<1>11. /\ L \in Nat /\ size \in Nat /\ z \in Nat /\ y \in Nat /\ g \in Nat /\ size = L + z /\ g <= z
       /\ a \in Nat /\ 1 <= a /\ a <= L /\ b \in Nat /\ a < b /\ b <= L + 1 /\ s.end = b - 1
       /\ len \in {2, 3} /\ y = g - (len - 1) /\ header = a + y - 1 /\ header + len = a + g
  <2>1. /\ L \in Nat /\ size \in Nat /\ z \in Nat /\ y \in Nat /\ g \in Nat /\ size = L + z /\ g <= z
        /\ a \in 1 .. L /\ b \in Nat /\ a < b /\ b <= L + 1 /\ s.end = b - 1
        /\ len \in {2, 3} /\ y = g - (len - 1)
    BY <1>1, <1>4, <1>5, <1>6, <1>7, <1>8
  <2>2. header = a - 1 + g - (len - 1) /\ header + len = a + g
    BY <1>10
  <2> HIDE DEF y, z
  <2> QED BY <2>1, <2>2
<1> HIDE DEF y, z
<1>12. t.end = a - 1 /\ t.offset = G(m - 1) /\ t.sane
  <2>1. point.at <= s.end
    BY <1>3, <1>4, <1>7
  <2>2. t.offset >= 0
    BY <1>4, <1>5, <1>7, <1>9
  <2> QED BY <1>3, <1>5, <1>7, <1>9, <2>1, <2>2
\* where the bytes are not touched, where they come from, and the header
<1>13. ASSUME NEW q \in 1 .. size, q < a \/ b + g <= q PROVE t.buf[q] = s.buf[q]
  <2>1. ~(q - g \in (a + 1) .. (b - 1))
    BY <1>11, <1>13
  <2>2. ~(q - header \in 1 .. len)
    BY <1>11, <1>13
  <2> QED BY <1>3, <1>7, <1>9, <2>1, <2>2
<1>14. ASSUME NEW p \in (a + 1) .. (b - 1) PROVE t.buf[p + g] = v.buf[p]
  <2>1. p + g \in 1 .. size /\ (p + g) - g = p /\ p \in 1 .. s.end
    BY <1>11, <1>14
  <2>2. ~((p + g) - header \in 1 .. len)
    BY <1>11, <1>14
  <2>3. byte(p + g) = s.buf[p]
    BY <1>3, <1>7, <1>14, <2>1, <2>2
  <2> QED BY <1>7, <1>9, <2>1, <2>3
<1>15. ASSUME NEW j \in 1 .. len PROVE t.buf[a + g - len + j] = point.packed[j]
  <2> DEFINE q == a + g - len + j
  <2>1. q \in 1 .. size /\ q - header = j /\ ~(q - g \in (a + 1) .. (b - 1))
    <3>1. len \in Nat /\ j \in Nat /\ 1 <= j /\ j <= len
      BY <1>11, <1>15
    <3>2. q \in Int /\ q <= a + g /\ q = a + y - 1 + j
      BY <1>11, <3>1
    <3>3. q \in 1 .. size
      <4> HIDE DEF q
      <4> QED BY <1>11, <3>1, <3>2
    <3>4. q - header = j
      <4> HIDE DEF q
      <4> QED BY <1>11, <3>1, <3>2
    <3>5. ~(q - g \in (a + 1) .. (b - 1))
      <4> HIDE DEF q
      <4> QED BY <1>11, <3>2
    <3> QED BY <3>3, <3>4, <3>5
  <2> HIDE DEF q
  <2>2. byte(q) = point.packed[j]
    BY <1>3, <1>7, <1>15, <2>1
  <2> QED BY <1>9, <2>1, <2>2 DEF q
<1>16. \A p \in 1 .. t.end : t.buf[p] = v.buf[p]
  <2>1. ASSUME NEW p \in 1 .. t.end PROVE t.buf[p] = v.buf[p]
    <3>1. p \in 1 .. size /\ p < a /\ p \in 1 .. s.end
      BY <1>11, <1>12, <2>1
    <3> QED BY <1>7, <1>13, <3>1
  <2> QED BY <2>1
<1>17. Settled(v, t.buf, m)
  BY <1>14, <1>15 DEF Settled, a, b, g, G, P, len, point
<1>18. ASSUME NEW i \in m + 1 .. n PROVE Settled(v, t.buf, i)
  <2> DEFINE c == P(i)
             d == P(i + 1)
             h == G(i)
             packed == v.points[i].packed
             l == Len(packed)
  <2>1. i \in 1 .. n /\ i \in 0 .. n /\ i - 1 \in 0 .. n /\ i + 1 \in 1 .. n + 1 /\ m <= i - 1
        /\ (i = m + 1 \/ (m + 1 < i /\ m + 1 \in 0 .. n))
    BY <1>1, <1>2
  <2>2. /\ c \in 1 .. L /\ d \in Nat /\ h \in Nat /\ l \in {2, 3} /\ h = G(i - 1) + l - 1
        /\ G(i - 1) \in Nat /\ g <= G(i - 1) /\ h <= G(n)
    <3>1. i <= n /\ n \in 0 .. n
      BY <1>1, <2>1
    <3> QED BY <1>1, <1>2, <2>1, <3>1 DEF g
  <2>3. b <= c
    <3>1. i = m + 1 => b = c
      BY DEF b
    <3>2. m + 1 < i /\ m + 1 \in 0 .. n => b < c
      BY <1>1, <2>1 DEF b
    <3> HIDE DEF c
    <3> QED BY <1>11, <2>1, <2>2, <3>1, <3>2
  <2>4. d <= L + 1
    <3>1. i + 1 = n + 1 \/ i + 1 \in 1 .. n
      BY <1>1, <2>1
    <3>2. i + 1 \in 1 .. n => d \in 1 .. L
      BY <1>1
    <3>3. i + 1 = n + 1 => d = L + 1
      BY <1>1
    <3> HIDE DEF d
    <3> QED BY <1>11, <3>1, <3>2, <3>3
  <2>5. /\ \A p \in (c + 1) .. (d - 1) : s.buf[p + h] = v.buf[p]
        /\ \A j \in 1 .. l : s.buf[c + h - l + j] = packed[j]
    BY <1>7, <1>18 DEF Settled, G, P
  <2> DEFINE u == G(i - 1)
  <2> HIDE DEF c, d, h, l, packed
  <2>6. /\ c \in Nat /\ 1 <= c /\ c <= L /\ d \in Nat /\ h \in Nat /\ l \in {2, 3} /\ h = u + l - 1
        /\ u \in Nat /\ g <= u /\ g <= h /\ h <= z
    <3>1. /\ c \in 1 .. L /\ d \in Nat /\ h \in Nat /\ l \in {2, 3} /\ h = u + l - 1
          /\ u \in Nat /\ g <= u /\ h <= z
      BY <2>2 DEF z
    <3> HIDE DEF u
    <3> QED BY <1>11, <3>1
  <2> HIDE DEF u
  <2>7. ASSUME NEW p \in (c + 1) .. (d - 1) PROVE t.buf[p + h] = v.buf[p]
    <3>1. p + h \in 1 .. size /\ b + g <= p + h
      BY <1>11, <2>3, <2>4, <2>6, <2>7
    <3> QED BY <1>13, <2>5, <3>1
  <2>8. ASSUME NEW j \in 1 .. l PROVE t.buf[c + h - l + j] = packed[j]
    <3> DEFINE q == c + h - l + j
    <3>1. q \in 1 .. size /\ b + g <= q
      <4>1. j \in Nat /\ 1 <= j /\ j <= l /\ l \in Nat
        BY <2>6, <2>8
      <4>2. q = c + u - 1 + j /\ q <= c + h
        BY <2>6, <4>1
      <4> HIDE DEF q
      <4> QED BY <1>11, <2>3, <2>6, <4>1, <4>2
    <3>2. s.buf[q] = packed[j]
      BY <2>5, <2>8
    <3> HIDE DEF q
    <3> QED BY <1>13, <3>1, <3>2 DEF q
  <2> QED BY <2>7, <2>8 DEF Settled, c, d, h, l, packed, G, P
<1>19. \A i \in (m - 1) + 1 .. n : Settled(v, t.buf, i)
  <2>1. \A i \in (m - 1) + 1 .. n : i = m \/ i \in m + 1 .. n
    BY <1>1, <1>2
  <2> QED BY <1>17, <1>18, <2>1
<1>20. t.end = P((m - 1) + 1) - 1
  BY <1>2, <1>12 DEF a
<1> QED
  BY <1>9, <1>12, <1>16, <1>19, <1>20 DEF Loop, G, P, L, size, t, point, n

\* In order, every header is expanded, and nothing is left over.
LEMMA ExpandedSettles ==
  ASSUME NEW v \in Writers, NEW from \in Nat, Ordered(v, from)
  PROVE  LET e == Expanded(v, from) IN
         /\ v.extra[0] # 0 => e.sane
         /\ \A p \in 1 .. PlaceOf(v, 1) - 1 : e.v.buf[p] = v.buf[p]
         /\ \A i \in 1 .. Len(v.points) : Settled(v, e.v.buf, i)
<1> DEFINE n == Len(v.points)
           e == Expanded(v, from)
           G(k) == Growth(v.points, k)
           P(k) == PlaceOf(v, k)
<1>1. /\ n \in Nat /\ DOMAIN v.points = 1 .. n /\ Len(v.buf) \in Nat
      /\ P(n + 1) = Len(v.buf) + 1
      /\ \A k \in 1 .. n : P(k) \in 1 .. Len(v.buf) /\ from + 1 < P(k)
      /\ v.extra[0] = G(n) /\ G(0) = 0
  BY Placed
<1>2. PICK f : /\ f[0] = Unmoved(v)
               /\ \A k \in 1 .. n : f[k] = MoveApart(f[k - 1], v.points[n - k + 1])
               /\ e = [v |-> [v EXCEPT !.buf = f[n].buf],
                       sane |-> f[n].sane /\ f[n].offset = 0 /\ f[n].end > from]
  BY <1>1, ExpandedMoves
<1> HIDE DEF e
<1> DEFINE S == {k \in 0 .. n : Loop(v, f[k], n - k)}
<1>3. 0 \in S
  <2>1. Moving(Unmoved(v), Len(v.buf) + v.extra[0])
        /\ \A p \in 1 .. Len(v.buf) : Unmoved(v).buf[p] = v.buf[p]
    BY UnmovedIs
  <2>2. Unmoved(v).end = Len(v.buf) /\ Unmoved(v).offset = v.extra[0] /\ Unmoved(v).sane
    BY DEF Unmoved
  <2>3. Unmoved(v).end = P(n + 1) - 1 /\ Unmoved(v).offset = G(n)
    <3> DEFINE a == Len(v.buf)
    <3>1. a \in Nat /\ P(n + 1) = a + 1 /\ Unmoved(v).end = a
      BY <1>1, <2>2
    <3> HIDE DEF a, P
    <3> QED BY <1>1, <2>2, <3>1
  <2>4. \A i \in n + 1 .. n : Settled(v, Unmoved(v).buf, i)
    <3> HIDE DEF n
    <3> QED BY <1>1
  <2>5. Loop(v, Unmoved(v), n)
    BY <2>1, <2>2, <2>3, <2>4 DEF Loop
  <2>6. n - 0 = n /\ 0 \in 0 .. n
    BY <1>1
  <2> HIDE DEF n
  <2> QED BY <1>2, <2>5, <2>6
<1>4. ASSUME NEW k \in 0 .. n, k \in S /\ k # n PROVE k + 1 \in S
  <2> DEFINE m == n - k
  <2>1. /\ k + 1 \in 1 .. n /\ k + 1 \in 0 .. n /\ (k + 1) - 1 = k /\ m \in 1 .. n
        /\ n - (k + 1) + 1 = m /\ n - (k + 1) = m - 1
    <3>1. k # n
      BY <1>4
    <3> HIDE DEF n
    <3> QED BY <1>1, <3>1
  <2>2. f[k + 1] = MoveApart(f[k], v.points[m])
    BY <1>2, <2>1
  <2>3. Loop(v, f[k], m)
    BY <1>4
  <2> HIDE DEF m
  <2>4. Loop(v, MoveApart(f[k], v.points[m]), m - 1)
    BY <2>1, <2>3, MoveApartSettles
  <2> QED BY <2>1, <2>2, <2>4
<1>5. n \in 0 .. n /\ n - n = 0 /\ 0 + 1 = 1
  <2> HIDE DEF n
  <2> QED BY <1>1
<1> HIDE DEF S
<1>6. n \in S
  <2> HIDE DEF n
  <2> QED BY <1>1, <1>3, <1>4, <1>5, InductionUpTo
<1> DEFINE s == f[n]
<1>7. Loop(v, s, 0)
  BY <1>5, <1>6 DEF S
<1> HIDE DEF s
<1>8. /\ s.end = P(1) - 1 /\ s.offset = 0 /\ s.sane
      /\ \A p \in 1 .. s.end : s.buf[p] = v.buf[p]
      /\ \A i \in 1 .. n : Settled(v, s.buf, i)
  BY <1>1, <1>5, <1>7 DEF Loop
<1>9. v.extra[0] # 0 => s.end > from
  <2> SUFFICES ASSUME v.extra[0] # 0 PROVE s.end > from
    OBVIOUS
  <2>1. n # 0
    BY <1>1
  <2>2. 1 \in 1 .. n
    <3> HIDE DEF n
    <3> QED BY <1>1, <2>1
  <2>3. P(1) \in Nat /\ from + 1 < P(1)
    BY <1>1, <2>2
  <2> HIDE DEF P
  <2> QED BY <1>8, <2>3
<1>10. e.v.buf = s.buf /\ e.sane = (s.sane /\ s.offset = 0 /\ s.end > from)
  <2>1. [v EXCEPT !.buf = f[n].buf].buf = f[n].buf
    BY DEF Writers
  <2> QED BY <1>2, <2>1 DEF s
<1> HIDE DEF P
<1>11. \A p \in 1 .. P(1) - 1 : e.v.buf[p] = v.buf[p]
  BY <1>8, <1>10
<1> QED
  BY <1>8, <1>9, <1>10, <1>11 DEF e, P

-----------------------------------------------------------------------------
(* A message ends.                                                         *)

Done(v, from) == IF v.extra[0] = 0 THEN v ELSE Expanded(v, from).v

\* A message that ends is in the buffer, with its length in front of it; or the
\* writer is left as it was.
LEMMA EndedIs ==
  ASSUME NEW v \in Writers, NEW from \in Nat, 4 <= from, from <= Len(v.buf), Fits(v),
         \A k \in DOMAIN v.points : v.points[k].at \in 1 .. Len(v.buf)
  PROVE  LET e == Ended(v, from) IN
         \/ e.v = v /\ e.pc = "threw"
         \/ e.v = v /\ e.pc = "broken" /\ v.extra[0] # 0 /\ ~Expanded(v, from).sane
         \/ /\ e.pc = "idle" /\ e.v \in Writers /\ Fits(e.v) /\ Depth(v) = 0
            /\ Len(e.v.buf) = Len(v.buf) + v.extra[0]
            /\ e.v.open = v.open /\ e.v.points = v.points /\ e.v.extra = v.extra
            /\ \A p \in 1 .. Len(e.v.buf) :
                  p \notin (from - 3) .. from => e.v.buf[p] = Done(v, from).buf[p]
<1> DEFINE e == Ended(v, from)
           x == Expanded(v, from)
           done == Done(v, from)
           size == BE(Len(done.buf) - from, 4)
           byte(i) == IF i \in (from - 3) .. from THEN size[i - from + 4] ELSE done.buf[i]
           buf == [i \in DOMAIN done.buf |-> byte(i)]
           last == [done EXCEPT !.buf = buf]
           long == v.extra[0] # 0
           fails == Depth(v) # 0 \/ (long /\ TooBig(v))
           bad == Depth(v) = 0 /\ long /\ ~TooBig(v) /\ ~x.sane
<1>1. /\ x.v \in Writers /\ Len(x.v.buf) = Len(v.buf) + v.extra[0]
      /\ x.v.open = v.open /\ x.v.points = v.points /\ x.v.extra = v.extra
  BY ExpandedIs
<1>2. v.extra[0] \in Nat /\ Len(v.buf) \in Nat
  BY UnmovedIs
<1>3. /\ done \in Writers /\ Len(done.buf) = Len(v.buf) + v.extra[0]
      /\ done.open = v.open /\ done.points = v.points /\ done.extra = v.extra
  <2> HIDE DEF x
  <2>1. CASE v.extra[0] = 0
    <3>1. done = v
      BY <2>1 DEF Done
    <3> HIDE DEF done
    <3> QED BY <1>2, <2>1, <3>1
  <2>2. CASE v.extra[0] # 0
    <3>1. done = x.v
      BY <2>2 DEF Done, x
    <3> HIDE DEF done
    <3> QED BY <1>1, <3>1
  <2> QED BY <2>1, <2>2
<1>4. e = CASE fails -> [v |-> v, pc |-> "threw"]
            [] bad -> [v |-> v, pc |-> "broken"]
            [] OTHER -> [pc |-> "idle", v |-> last]
  <2>1. [done EXCEPT !.buf = [i \in DOMAIN @ |-> byte(i)]] = last
    BY <1>3 DEF Writers
  <2> QED BY <2>1 DEF Ended, Done
<1> HIDE DEF e, x, done, last, fails, bad
<1>5. buf \in Seq(Bytes) /\ Len(buf) = Len(done.buf)
      /\ \A p \in 1 .. Len(buf) : p \notin (from - 3) .. from => buf[p] = done.buf[p]
  <2>1. done.buf \in Seq(Bytes) /\ DOMAIN done.buf = 1 .. Len(done.buf) /\ Len(done.buf) \in Nat
    BY <1>3 DEF Writers
  <2>2. size \in Seq(Bytes) /\ Len(size) = 4
    <3> DEFINE l == Len(done.buf) - from
    <3>1. l \in Nat
      <4> DEFINE a == Len(v.buf)
                 b == Len(done.buf)
                 c == v.extra[0]
      <4>1. a \in Nat /\ c \in Nat /\ b = a + c /\ from <= a
        BY <1>2, <1>3
      <4> HIDE DEF a, b, c
      <4>2. b - from \in Nat
        BY <4>1
      <4> QED BY <4>2 DEF b
    <3> HIDE DEF l
    <3>2. BE(l, 4) \in Seq(Bytes) /\ Len(BE(l, 4)) = 4
      BY <3>1, NumberBytes
    <3> QED BY <3>2 DEF l
  <2> HIDE DEF size
  <2>3. ASSUME NEW i \in 1 .. Len(done.buf) PROVE byte(i) \in Bytes
    <3>1. i \in (from - 3) .. from => i - from + 4 \in 1 .. 4
      OBVIOUS
    <3>2. \A j \in 1 .. 4 : size[j] \in Bytes
      <4>1. DOMAIN size = 1 .. 4
        BY <2>2
      <4>2. size \in Seq(Bytes)
        BY <2>2
      <4>3. \A j \in DOMAIN size : size[j] \in Bytes
        BY <4>2
      <4> QED BY <4>1, <4>3
    <3>3. done.buf[i] \in Bytes
      BY <2>1
    <3> QED BY <3>1, <3>2, <3>3
  <2> HIDE DEF byte
  <2>4. buf \in Seq(Bytes) /\ Len(buf) = Len(done.buf)
    <3> DEFINE d == Len(done.buf)
    <3>1. buf = [i \in 1 .. d |-> byte(i)] /\ d \in Nat /\ \A i \in 1 .. d : byte(i) \in Bytes
      BY <2>1, <2>3
    <3> HIDE DEF buf, d
    <3>2. buf \in Seq(Bytes) /\ Len(buf) = d
      BY <3>1
    <3> QED BY <3>2 DEF d
  <2>5. \A p \in 1 .. Len(buf) : buf[p] = byte(p)
    <3>1. \A p \in DOMAIN done.buf : buf[p] = byte(p)
      OBVIOUS
    <3> HIDE DEF buf
    <3> QED BY <2>1, <2>4, <3>1
  <2> HIDE DEF buf
  <2> QED BY <2>4, <2>5 DEF byte
<1> HIDE DEF buf
<1>6. /\ last \in Writers /\ last.buf = buf
      /\ last.open = v.open /\ last.points = v.points /\ last.extra = v.extra
  BY <1>3, <1>5 DEF last, Writers
<1>7. CASE fails
  <2>1. e = [v |-> v, pc |-> "threw"]
    BY <1>4, <1>7 DEF bad, fails
  <2>2. e.v = v /\ e.pc = "threw"
    BY <2>1
  <2> QED BY <2>2 DEF e
<1>8. CASE ~fails /\ bad
  BY <1>4, <1>8 DEF e, bad, x
<1>9. CASE ~fails /\ ~bad
  <2>1. e.pc = "idle" /\ e.v = last /\ Depth(v) = 0
    BY <1>4, <1>9 DEF fails
  <2>2. Len(last.buf) = Len(v.buf) + v.extra[0]
    BY <1>3, <1>5, <1>6
  <2>3. Len(v.buf) + v.extra[0] <= Capacity
    <3> DEFINE a == Len(v.buf)
               c == v.extra[0]
    <3>1. a \in Nat /\ c \in Nat /\ a <= Capacity /\ (c # 0 => ~(a + c > Capacity)) /\ Capacity \in Nat
      BY <1>2, <1>9, Sizes DEF fails, Fits, TooBig
    <3> HIDE DEF a, c
    <3>2. a + c <= Capacity
      BY <3>1
    <3> QED BY <3>2 DEF a, c
  <2>4. Fits(last)
    BY <2>2, <2>3 DEF Fits
  <2> QED BY <1>5, <1>6, <2>1, <2>2, <2>4 DEF e, done
<1> QED
  BY <1>7, <1>8, <1>9

-----------------------------------------------------------------------------
(* The invariant.                                                          *)

\* whatever was thrown, what the writer holds is of the size of its buffer
Capped(v) ==
    /\ \A i \in DOMAIN v.open : v.open[i].header <= Capacity
    /\ Depth(v) <= MaxNested
    /\ \A k \in DOMAIN v.points : v.points[k].at \in 1 .. Capacity
    /\ \A d \in 0 .. MaxNested : v.extra[d] <= Capacity

WriterInv ==
    /\ w \in Writers /\ Capped(w)
    /\ pc \in {"idle", "body", "threw", "broken"} /\ start \in 0 .. (Capacity + 4)
    /\ pc \in {"idle", "body"} => Fits(w)
    /\ pc \in {"body", "threw"} => 4 <= start /\ start <= Len(w.buf)
    /\ pc = "body" => Nested(w)

\* A message that is written has its points in order, all of them in front of
\* the containers that are open, and only the message itself keeps room.
Orderly(v, from) ==
    /\ Ordered(v, from) /\ from < Len(v.buf)
    /\ \A d \in 1 .. Depth(v) : v.extra[d] = 0
    /\ Depth(v) # 0 =>
          /\ from < v.open[1].header
          /\ \A k \in DOMAIN v.points : v.points[k].at <= v.open[1].header

OrderInv ==
    ~NestLarge =>
        /\ pc # "broken"
        /\ pc = "body" => Orderly(w, start)

\* what is put behind the buffer disturbs nothing
LEMMA PutNested ==
  ASSUME NEW v \in Writers, Capped(v), Nested(v), NEW b \in Seq(Bytes), NEW from \in Nat
  PROVE  /\ Put(v, b) \in Writers /\ Capped(Put(v, b)) /\ Nested(Put(v, b))
         /\ Len(v.buf) <= Len(Put(v, b).buf) /\ Len(Put(v, b).buf) \in Nat
         /\ Orderly(v, from) => Orderly(Put(v, b), from)
<1> DEFINE p == Put(v, b)
           L == Len(v.buf)
           M == Len(p.buf)
           D == Depth(v)
<1>1. /\ p \in Writers /\ M = L + Len(b) /\ L \in Nat /\ Len(b) \in Nat
      /\ p.open = v.open /\ p.points = v.points /\ p.extra = v.extra
  BY PutIs
<1>2. L <= M /\ M \in Nat
  <2> HIDE DEF L, M
  <2> QED BY <1>1
<1>3. Depth(p) = D /\ D \in Nat
  BY <1>1 DEF Depth, Writers
<1>4. Capped(p)
  BY <1>1 DEF Capped, Depth
<1> HIDE DEF p
<1>5. Nested(p)
  <2>1. ASSUME NEW k \in DOMAIN p.points PROVE p.points[k].at \in 1 .. M
    <3>1. p.points[k].at \in 1 .. L
      BY <1>1, <2>1 DEF Nested
    <3> HIDE DEF L, M
    <3> QED BY <1>1, <1>2, <3>1
  <2>2. ASSUME NEW i \in 1 .. D PROVE p.open[i].header + 2 <= M
    <3>1. v.open[i] \in Opens
      BY <1>3, <2>2 DEF Writers, Depth
    <3>2. v.open[i].header + 2 <= L /\ v.open[i].header \in Nat
      BY <2>2, <3>1 DEF Nested, Opens
    <3> HIDE DEF L, M
    <3> QED BY <1>1, <1>2, <3>2
  <2>3. ASSUME NEW d \in 0 .. D PROVE p.extra[d] <= EndOf(p, d) - BaseOf(p, d)
    <3>1. v.extra[d] <= EndOf(v, d) - BaseOf(v, d)
      BY <2>3 DEF Nested
    <3>2. BaseOf(p, d) = BaseOf(v, d)
      BY <1>1 DEF BaseOf
    <3>3. d # D => EndOf(p, d) = EndOf(v, d)
      BY <1>1, <1>3 DEF EndOf
    <3>4. d = D => EndOf(p, d) = M /\ EndOf(v, d) = L
      BY <1>3 DEF EndOf
    <3>5. v.extra[d] \in Nat /\ BaseOf(v, d) \in Nat
      <4>1. d \in 0 .. MaxNested
        BY <1>3, Sizes DEF Capped
      <4>2. d # 0 => v.open[d] \in Opens
        BY <1>3, <2>3 DEF Writers, Depth
      <4>3. v.extra[d] \in Nat
        BY <4>1 DEF Writers
      <4>4. BaseOf(v, d) \in Nat
        <5>1. CASE d = 0
          BY <5>1 DEF BaseOf
        <5>2. CASE d # 0
          <6>1. v.open[d].header \in Nat
            BY <4>2, <5>2 DEF Opens
          <6> QED BY <5>2, <6>1 DEF BaseOf
        <5> QED BY <5>1, <5>2
      <4> QED BY <4>3, <4>4
    <3> DEFINE x == EndOf(v, d)
               y == BaseOf(v, d)
               z == v.extra[d]
    <3>6. d = D => z <= L - y /\ z \in Nat /\ y \in Nat
      BY <3>1, <3>4, <3>5
    <3>7. d = D => z <= M - y
      <4> HIDE DEF L, M, y, z
      <4> QED BY <1>1, <1>2, <3>6
    <3> QED BY <1>1, <3>1, <3>2, <3>3, <3>4, <3>7
  <2>4. \A i, j \in 1 .. D : i < j => p.open[i].header + 2 <= p.open[j].header
    BY <1>1 DEF Nested
  <2> QED BY <1>3, <2>1, <2>2, <2>3, <2>4 DEF Nested
<1>6. ASSUME Orderly(v, from) PROVE Orderly(p, from)
  <2>1. Ordered(v, from) /\ from < L
    BY <1>6 DEF Orderly
  <2>2. from < M
    <3> HIDE DEF L, M
    <3> QED BY <1>1, <1>2, <2>1
  <2>3. ASSUME NEW k \in DOMAIN v.points PROVE v.points[k].at <= M
    <3>1. v.points[k].at \in 1 .. L
      BY <2>3 DEF Nested
    <3> HIDE DEF L, M
    <3> QED BY <1>1, <1>2, <3>1
  <2>4. Ordered(p, from)
    BY <1>1, <2>1, <2>3 DEF Ordered
  <2> QED BY <1>1, <1>3, <1>6, <2>2, <2>4 DEF Orderly
<1> QED BY <1>1, <1>2, <1>4, <1>5, <1>6 DEF p

\* a container is opened inside the one that is open
LEMMA OpenedNested ==
  ASSUME NEW v \in Writers, Capped(v), Nested(v), Fits(v), MayNest(v), NEW from \in Nat,
         NEW isArray \in BOOLEAN, NEW count \in Counts
  PROVE  LET o == Opened(v, isArray, count) IN
         /\ o \in Writers /\ Capped(o) /\ Nested(o)
         /\ Len(v.buf) <= Len(o.buf) /\ Len(o.buf) \in Nat
         /\ Orderly(v, from) => Orderly(o, from)
<1> DEFINE o == Opened(v, isArray, count)
           L == Len(v.buf)
           M == Len(o.buf)
           D == Depth(v)
           x == [header |-> L, isArray |-> isArray]
<1>1. /\ o \in Writers /\ M = L + 2 /\ o.open = Append(v.open, x) /\ o.points = v.points
      /\ o.extra = [v.extra EXCEPT ![D + 1] = 0]
  BY OpenedIs
<1>2. /\ v.open \in Seq(Opens) /\ v.points \in Seq(Points) /\ v.buf \in Seq(Bytes)
      /\ v.extra \in [0 .. MaxNested -> Nat]
  BY DEF Writers
<1>3. L \in Nat /\ D \in Nat /\ D < MaxNested /\ MaxNested \in Nat /\ Capacity \in Nat /\ L <= Capacity
  BY <1>2, Sizes DEF MayNest, Fits, Depth
<1> HIDE DEF o
<1>4. L <= M /\ M \in Nat
  <2> HIDE DEF L, M
  <2> QED BY <1>1, <1>3
<1>5. /\ Depth(o) = D + 1 /\ o.open[D + 1] = x /\ DOMAIN o.open = 1 .. D + 1
      /\ \A i \in 1 .. D : o.open[i] = v.open[i] /\ v.open[i] \in Opens
  <2>1. x \in Opens
    BY <1>3 DEF Opens
  <2> HIDE DEF x
  <2>2. /\ Append(v.open, x) \in Seq(Opens) /\ Len(Append(v.open, x)) = Len(v.open) + 1
        /\ \A i \in 1 .. Len(v.open) : Append(v.open, x)[i] = v.open[i]
        /\ Append(v.open, x)[Len(v.open) + 1] = x
    BY <1>2, <2>1, AppendProperties
  <2>3. \A i \in 1 .. D : v.open[i] \in Opens
    BY <1>2 DEF Depth
  <2> QED BY <1>1, <2>2, <2>3 DEF Depth
<1>6. /\ D + 1 \in 0 .. MaxNested /\ o.extra[D + 1] = 0
      /\ \A d \in 0 .. MaxNested : d # D + 1 => o.extra[d] = v.extra[d]
      /\ \A d \in 0 .. MaxNested : v.extra[d] \in Nat
  <2>1. D + 1 \in 0 .. MaxNested
    <3> HIDE DEF D
    <3> QED BY <1>3
  <2> HIDE DEF D
  <2> QED BY <1>1, <1>2, <2>1
<1> HIDE DEF L, M, D
<1>7. \A i \in 1 .. D + 1 : i = D + 1 \/ i \in 1 .. D
  BY <1>3
<1>8. x.header = L
  OBVIOUS
<1> HIDE DEF x
<1>9. Capped(o)
  <2>1. \A i \in 1 .. D + 1 : o.open[i].header <= Capacity
    <3>1. \A i \in 1 .. D : v.open[i].header <= Capacity
      BY <1>2 DEF Capped, D, Depth
    <3> QED BY <1>3, <1>5, <1>7, <1>8, <3>1
  <2>2. D + 1 <= MaxNested
    BY <1>3
  <2>3. \A d \in 0 .. MaxNested : o.extra[d] <= Capacity
    BY <1>3, <1>6 DEF Capped
  <2> QED BY <1>1, <1>5, <2>1, <2>2, <2>3 DEF Capped
<1>10. Nested(o)
  <2>1. ASSUME NEW k \in DOMAIN o.points PROVE o.points[k].at \in 1 .. M
    <3>1. o.points[k].at \in 1 .. L
      BY <1>1, <2>1 DEF Nested, L
    <3> QED BY <1>3, <1>4, <3>1
  <2>2. ASSUME NEW i \in 1 .. D PROVE v.open[i].header + 2 <= L /\ v.open[i].header \in Nat
    BY <1>5, <2>2 DEF Nested, L, D, Opens
  <2>3. \A i \in 1 .. D + 1 : o.open[i].header + 2 <= M
    <3>1. L + 2 <= M
      BY <1>1, <1>3, <1>4
    <3>2. ASSUME NEW i \in 1 .. D PROVE v.open[i].header + 2 <= M
      BY <1>3, <1>4, <2>2, <3>1
    <3> QED BY <1>5, <1>7, <1>8, <3>1, <3>2
  <2>4. ASSUME NEW i \in 1 .. D + 1, NEW j \in 1 .. D + 1, i < j
        PROVE  o.open[i].header + 2 <= o.open[j].header
    <3>1. i \in 1 .. D /\ o.open[i] = v.open[i]
      BY <1>3, <1>5, <2>4
    <3>2. j \in 1 .. D => o.open[i].header + 2 <= o.open[j].header
      BY <1>5, <2>4, <3>1 DEF Nested, D
    <3>3. j = D + 1 => o.open[i].header + 2 <= o.open[j].header
      BY <1>5, <1>8, <2>2, <3>1
    <3> QED BY <1>7, <3>2, <3>3
  <2>5. ASSUME NEW d \in 0 .. D + 1 PROVE o.extra[d] <= EndOf(o, d) - BaseOf(o, d)
    <3>1. CASE d = D + 1
      <4>1. EndOf(o, d) = M /\ BaseOf(o, d) = L + 2
        BY <1>3, <1>5, <1>8, <3>1 DEF EndOf, BaseOf, M
      <4> QED BY <1>1, <1>3, <1>4, <1>6, <3>1, <4>1
    <3>2. CASE d \in 0 .. D
      <4>1. d # D + 1 /\ d \in 0 .. MaxNested /\ (d # 0 => d \in 1 .. D)
        BY <1>3, <3>2
      <4>2. o.extra[d] = v.extra[d] /\ v.extra[d] <= EndOf(v, d) - BaseOf(v, d)
        BY <1>6, <3>2, <4>1 DEF Nested, D
      <4>3. BaseOf(o, d) = BaseOf(v, d)
        BY <1>5, <4>1 DEF BaseOf
      <4>4. EndOf(o, d) = EndOf(v, d)
        <5>1. CASE d = D
          BY <1>5, <1>8, <4>1, <5>1 DEF EndOf, D, L
        <5>2. CASE d # D
          <6>1. d + 1 \in 1 .. D
            BY <1>3, <3>2, <5>2
          <6> QED BY <1>5, <4>1, <5>2, <6>1 DEF EndOf, D
        <5> QED BY <5>1, <5>2
      <4> QED BY <4>2, <4>3, <4>4
    <3>3. d = D + 1 \/ d \in 0 .. D
      BY <1>3
    <3> QED BY <3>1, <3>2, <3>3
  <2> QED BY <1>5, <2>1, <2>3, <2>4, <2>5 DEF Nested, M
<1>11. ASSUME Orderly(v, from) PROVE Orderly(o, from)
  <2>1. Ordered(v, from) /\ from < L
    BY <1>11 DEF Orderly, L
  <2>2. from < M
    BY <1>3, <1>4, <2>1
  <2>3. o.extra[0] = v.extra[0]
    BY <1>3, <1>6
  <2>4. ASSUME NEW k \in DOMAIN v.points
        PROVE  v.points[k].at <= M /\ v.points[k].at <= L /\ v.points[k].at \in Nat
    <3>1. v.points[k].at \in 1 .. L
      BY <2>4 DEF Nested, L
    <3> QED BY <1>3, <1>4, <3>1
  <2>5. Ordered(o, from)
    BY <1>1, <2>1, <2>3, <2>4 DEF Ordered, M
  <2>6. \A d \in 1 .. D + 1 : o.extra[d] = 0
    <3>1. ASSUME NEW d \in 1 .. D PROVE o.extra[d] = 0
      <4>1. d # D + 1 /\ d \in 0 .. MaxNested /\ v.extra[d] = 0
        BY <1>3, <1>11, <3>1 DEF Orderly, D
      <4> QED BY <1>6, <4>1
    <3> QED BY <1>6, <1>7, <3>1
  <2>7. from < o.open[1].header /\ \A k \in DOMAIN o.points : o.points[k].at <= o.open[1].header
    <3>1. CASE D = 0
      <4>1. o.open[1].header = L
        BY <1>5, <1>8, <3>1
      <4> QED BY <1>1, <2>1, <2>4, <4>1
    <3>2. CASE D # 0
      <4>1. 1 \in 1 .. D
        BY <1>3, <3>2
      <4>2. o.open[1] = v.open[1]
        BY <1>5, <4>1
      <4> QED BY <1>1, <1>11, <3>2, <4>2 DEF Orderly, D
    <3> QED BY <3>1, <3>2
  <2> QED BY <1>5, <2>2, <2>5, <2>6, <2>7 DEF Orderly, M
<1> QED BY <1>1, <1>4, <1>9, <1>10, <1>11 DEF o, L, M

\* a container is closed: the one it was in keeps room for its header, if needed
LEMMA ClosedNested ==
  ASSUME NEW v \in Writers, Capped(v), Nested(v), Fits(v), Depth(v) # 0, NEW from \in Nat
  PROVE  LET c == Closed(v) IN
         /\ c \in Writers /\ Capped(c) /\ Nested(c) /\ Len(c.buf) = Len(v.buf)
         /\ Orderly(v, from) /\ (Depth(v) >= 2 => LengthOf(v) < One) => Orderly(c, from)
<1> DEFINE c == Closed(v)
           L == Len(v.buf)
           D == Depth(v)
           d == D - 1
           top == v.open[D].header
           length == LengthOf(v)
           long == ~(length < One)
           more == Len(Packed(length)) - 1
           x == [at |-> top + 1, packed |-> Packed(length)]
<1>1. Depth(v) <= MaxNested
  BY DEF Capped
<1>2. /\ c \in Writers /\ Len(c.buf) = L /\ top + 1 \in 1 .. L
      /\ length \in Nat /\ d \in Nat /\ L \in Nat
      /\ c.open = Front(v.open)
      /\ c.points = IF long THEN Append(v.points, x) ELSE v.points
      /\ c.extra = IF long THEN [v.extra EXCEPT ![d] = @ + Len(Packed(length)) - 1]
                   ELSE v.extra
      /\ Packed(length) \in Seq(0 .. (B - 1)) /\ (long => Len(Packed(length)) \in {2, 3})
  BY <1>1, ClosedIs
<1>3. /\ v.open \in Seq(Opens) /\ v.points \in Seq(Points) /\ v.buf \in Seq(Bytes)
      /\ v.extra \in [0 .. MaxNested -> Nat]
  BY DEF Writers
<1>4. D \in Nat /\ D <= MaxNested /\ MaxNested \in Nat /\ Capacity \in Nat /\ L <= Capacity
  BY <1>3, Sizes DEF Fits, Depth, Capped
<1> HIDE DEF c
<1>5. /\ Depth(c) = d /\ DOMAIN c.open = 1 .. d
      /\ \A i \in 1 .. d : c.open[i] = v.open[i]
      /\ \A i \in 1 .. D : v.open[i] \in Opens
  <2>1. /\ Front(v.open) \in Seq(Opens) /\ Len(Front(v.open)) = Len(v.open) - 1
        /\ \A i \in 1 .. Len(v.open) - 1 : Front(v.open)[i] = v.open[i]
    BY <1>3, LastAndFront DEF Depth
  <2>2. \A i \in 1 .. D : v.open[i] \in Opens
    BY <1>3 DEF Depth
  <2>3. c.open \in Seq(Opens) /\ Len(c.open) = d
    BY <1>2, <2>1 DEF Depth
  <2>4. DOMAIN c.open = 1 .. d
    BY <2>3
  <2> QED BY <1>2, <2>1, <2>2, <2>3, <2>4 DEF Depth
<1>6. d \in 0 .. MaxNested /\ D = d + 1 /\ D \in 1 .. D /\ \A i \in 1 .. d : i \in 1 .. D
  <2> HIDE DEF D
  <2> QED BY <1>2, <1>4
<1>7. more \in {1, 2} \/ ~long
  <2> DEFINE p == Len(Packed(length))
  <2>1. p \in {2, 3} \/ ~long
    BY <1>2
  <2> HIDE DEF p, long
  <2>2. p - 1 \in {1, 2} \/ ~long
    BY <2>1
  <2> QED BY <2>2 DEF p
<1>8. /\ \A e \in 0 .. MaxNested : v.extra[e] \in Nat
      /\ \A e \in 0 .. MaxNested : e # d \/ ~long => c.extra[e] = v.extra[e]
      /\ long => c.extra[d] = v.extra[d] + more
  <2>1. \A e \in 0 .. MaxNested : v.extra[e] \in Nat
    BY <1>3
  <2>2. \A e \in 0 .. MaxNested : e # d \/ ~long => c.extra[e] = v.extra[e]
    <3> HIDE DEF d, length, long
    <3> QED BY <1>2, <1>3
  <2>3. ASSUME long PROVE c.extra[d] = v.extra[d] + more
    <3> DEFINE p == Len(Packed(length))
    <3>1. c.extra = [v.extra EXCEPT ![d] = @ + p - 1] /\ p \in {2, 3}
      BY <1>2, <2>3
    <3>2. c.extra[d] = v.extra[d] + p - 1
      <4> HIDE DEF d, p
      <4> QED BY <1>3, <1>6, <3>1
    <3>3. v.extra[d] \in Nat
      BY <1>3, <1>6
    <3> DEFINE z == v.extra[d]
    <3>4. z + p - 1 = z + (p - 1)
      <4>1. z \in Nat /\ p \in Nat
        BY <3>1, <3>3
      <4> HIDE DEF z, p
      <4> QED BY <4>1
    <3> QED BY <3>2, <3>4
  <2> QED BY <2>1, <2>2, <2>3
<1>9. top \in Nat /\ top + 2 <= L
  <2>1. v.open[D] \in Opens
    BY <1>5, <1>6
  <2>2. top + 2 <= L
    BY <1>6 DEF Nested
  <2> QED BY <2>1, <2>2 DEF Opens
<1>10. DOMAIN v.points = 1 .. Len(v.points) /\ Len(v.points) \in Nat
       /\ \A k \in DOMAIN v.points : v.points[k].at \in 1 .. L
  BY <1>3 DEF Nested
<1>11. /\ ~long => c.points = v.points
       /\ long => /\ DOMAIN c.points = 1 .. Len(v.points) + 1
                  /\ \A k \in DOMAIN v.points : c.points[k] = v.points[k]
                  /\ c.points[Len(v.points) + 1] = x
                  /\ c.points = Append(v.points, x)
  <2>1. x \in Points
    BY <1>2, <1>9 DEF Points
  <2> HIDE DEF x
  <2>2. /\ Append(v.points, x) \in Seq(Points)
        /\ Len(Append(v.points, x)) = Len(v.points) + 1
        /\ \A k \in 1 .. Len(v.points) : Append(v.points, x)[k] = v.points[k]
        /\ Append(v.points, x)[Len(v.points) + 1] = x
    BY <1>3, <2>1, AppendProperties
  <2>3. DOMAIN Append(v.points, x) = 1 .. Len(v.points) + 1
    BY <2>2
  <2> HIDE DEF long
  <2> QED BY <1>2, <1>10, <2>2, <2>3
<1>12. x.at = top + 1
  OBVIOUS
<1> HIDE DEF L, D, d, top, length, long, more, x
<1>13. \A k \in DOMAIN c.points : c.points[k].at \in 1 .. L
  <2>1. CASE ~long
    BY <1>10, <1>11, <2>1
  <2>2. CASE long
    <3>1. \A k \in 1 .. Len(v.points) + 1 : k = Len(v.points) + 1 \/ k \in DOMAIN v.points
      BY <1>10
    <3> QED BY <1>2, <1>10, <1>11, <1>12, <2>2, <3>1
  <2> QED BY <2>1, <2>2
<1>14. Nested(c)
  <2>1. \A i \in 1 .. d : c.open[i].header + 2 <= L
    BY <1>5, <1>6 DEF Nested, L, D
  <2>2. \A i, j \in 1 .. d : i < j => c.open[i].header + 2 <= c.open[j].header
    BY <1>5, <1>6 DEF Nested, D
  <2>3. ASSUME NEW e \in 0 .. d PROVE c.extra[e] <= EndOf(c, e) - BaseOf(c, e)
    <3>1. e \in 0 .. D /\ e \in 0 .. MaxNested /\ (e # 0 => e \in 1 .. d) /\ e # D
      BY <1>2, <1>4, <1>6
    <3>2. BaseOf(c, e) = BaseOf(v, e) /\ v.extra[e] \in Nat
      BY <1>5, <1>8, <3>1 DEF BaseOf
    <3>3. v.extra[e] <= EndOf(v, e) - BaseOf(v, e)
      BY <3>1 DEF Nested, D
    <3>4. BaseOf(v, e) \in Nat
      <4>1. e # 0 => v.open[e].header \in Nat
        BY <1>5, <1>6, <3>1 DEF Opens
      <4> QED BY <4>1 DEF BaseOf
    <3>5. CASE e = d
      <4>1. EndOf(c, e) = L
        BY <1>2, <1>5, <3>5 DEF EndOf, L
      <4>2. EndOf(v, e) = top
        BY <1>6, <3>1, <3>5 DEF EndOf, D, top
      <4> DEFINE y == BaseOf(v, e)
                 z == v.extra[e]
      <4>3. y \in Nat /\ z \in Nat /\ z <= top - y
        BY <3>2, <3>3, <3>4, <4>2
      <4>4. c.extra[e] = z \/ (long /\ c.extra[e] = z + more)
        BY <1>6, <1>8, <3>5
      <4> HIDE DEF y, z
      <4>5. c.extra[e] <= L - y
        <5>1. c.extra[e] = z => c.extra[e] <= L - y
          BY <1>2, <1>9, <4>3
        <5>2. long => z + more <= L - y
          BY <1>2, <1>7, <1>9, <4>3
        <5> QED BY <4>4, <5>1, <5>2
      <4> QED BY <3>2, <4>1, <4>5 DEF y
    <3>6. CASE e # d
      <4>1. e + 1 \in 1 .. d
        BY <1>2, <3>6
      <4>2. EndOf(c, e) = EndOf(v, e)
        BY <1>5, <3>1, <3>6, <4>1 DEF EndOf, D
      <4> QED BY <1>8, <3>1, <3>2, <3>3, <3>6, <4>2
    <3> QED BY <3>5, <3>6
  <2> QED BY <1>2, <1>5, <1>13, <2>1, <2>2, <2>3 DEF Nested, L
<1>15. Capped(c)
  <2>1. \A i \in 1 .. d : c.open[i].header <= Capacity
    <3>1. \A i \in 1 .. D : v.open[i].header <= Capacity
      BY <1>3 DEF Capped, D, Depth
    <3> QED BY <1>5, <1>6, <3>1
  <2>2. \A k \in DOMAIN c.points : c.points[k].at \in 1 .. Capacity
    BY <1>2, <1>4, <1>13
  <2>3. c.extra[d] <= Capacity
    <3>1. Depth(c) = d /\ d \in 0 .. d
      BY <1>2, <1>5
    <3>2. c.extra[d] <= EndOf(c, d) - BaseOf(c, d) /\ EndOf(c, d) = L
      BY <1>2, <1>14, <3>1 DEF Nested, EndOf, L
    <3>3. BaseOf(c, d) \in Nat
      <4>1. d # 0 => c.open[d].header \in Nat
        BY <1>2, <1>5, <1>6 DEF Opens
      <4> QED BY <4>1 DEF BaseOf
    <3>4. c.extra[d] \in Nat
      BY <1>2, <1>6 DEF Writers
    <3> DEFINE y == BaseOf(c, d)
               z == c.extra[d]
    <3>5. y \in Nat /\ z \in Nat /\ z <= L - y
      BY <3>2, <3>3, <3>4
    <3> HIDE DEF y, z
    <3>6. z <= Capacity
      BY <1>2, <1>4, <3>5
    <3> QED BY <3>6 DEF z
  <2>4. \A e \in 0 .. MaxNested : c.extra[e] <= Capacity
    BY <1>8, <2>3 DEF Capped
  <2>5. d <= MaxNested
    BY <1>4, <1>6
  <2> QED BY <1>5, <2>1, <2>2, <2>4, <2>5 DEF Capped
<1>16. ASSUME Orderly(v, from), D >= 2 => ~long PROVE Orderly(c, from)
  <2>1. /\ Ordered(v, from) /\ from < L /\ from < v.open[1].header
        /\ \A e \in 1 .. D : v.extra[e] = 0
        /\ \A k \in DOMAIN v.points : v.points[k].at <= v.open[1].header
    BY <1>16, <1>2, <1>6 DEF Orderly, L, D
  <2>2. \A e \in 1 .. d : c.extra[e] = 0
    <3>1. ASSUME NEW e \in 1 .. d PROVE c.extra[e] = 0
      <4>1. e \in 0 .. MaxNested /\ e \in 1 .. D /\ D >= 2
        BY <1>2, <1>4, <1>6
      <4> QED BY <1>8, <1>16, <2>1, <4>1
    <3> QED BY <3>1
  <2>3. d # 0 => c.open[1] = v.open[1] /\ ~long
    <3>1. d # 0 => 1 \in 1 .. d /\ D >= 2
      BY <1>2, <1>6
    <3> QED BY <1>5, <1>16, <3>1
  <2>4. Ordered(c, from)
    <3>1. CASE ~long
      <4>1. c.points = v.points /\ c.extra[0] = v.extra[0]
        <5>1. 0 \in 0 .. MaxNested
          BY <1>4
        <5> QED BY <1>8, <1>11, <3>1, <5>1
      <4> QED BY <1>2, <2>1, <4>1 DEF Ordered, L
    <3>2. CASE long
      <4> DEFINE n == Len(v.points)
      <4>1. D = 1 /\ d = 0
        BY <1>2, <1>4, <1>6, <1>16, <3>2
      <4>2. top = v.open[1].header
        BY <4>1 DEF top, D
      <4>3. Growing(v.points) /\ v.extra[0] = Growth(v.points, n)
        BY <2>1 DEF Ordered
      <4>4. x \in [at : Nat, packed : Seq(0 .. (B - 1))] /\ Len(x.packed) \in {2, 3}
            /\ Len(x.packed) - 1 = more
        BY <1>2, <1>9, <3>2 DEF x, more, length, long
      <4>5. n \in Nat /\ n + 1 \in Nat
        BY <1>10
      <4>6. c.points \in Seq([at : Nat, packed : Seq(0 .. (B - 1))]) /\ Len(c.points) = n + 1
        <5> DEFINE T == [at : Nat, packed : Seq(0 .. (B - 1))]
        <5>1. v.points \in Seq(T)
          BY <4>3 DEF Growing
        <5>2. x \in T
          BY <4>4
        <5> HIDE DEF T
        <5>3. Append(v.points, x) \in Seq(T) /\ Len(Append(v.points, x)) = Len(v.points) + 1
          BY <5>1, <5>2, AppendProperties
        <5>4. c.points = Append(v.points, x)
          BY <1>11, <3>2
        <5> QED BY <5>3, <5>4 DEF T
      <4>7. \A k \in 1 .. n + 1 : k = n + 1 \/ k \in DOMAIN v.points
        BY <1>10
      <4>8. Growing(c.points)
        BY <1>11, <3>2, <4>3, <4>4, <4>6, <4>7 DEF Growing
      <4>9. c.extra[0] = Growth(c.points, n + 1)
        <5>1. Growth(c.points, n + 1) = Growth(v.points, n) + Len(x.packed) - 1
          BY <1>11, <3>2, <4>3, <4>4, GrowthOn
        <5>2. c.extra[0] = v.extra[0] + more
          BY <1>8, <3>2, <4>1
        <5>3. v.extra[0] \in Nat
          BY <1>6, <1>8, <4>1
        <5> DEFINE z == v.extra[0]
                   l == Len(x.packed)
        <5>4. z \in Nat /\ l \in {2, 3} /\ more = l - 1
          BY <4>4, <5>3
        <5>5. Growth(c.points, n + 1) = z + l - 1 /\ c.extra[0] = z + more
          BY <4>3, <5>1, <5>2
        <5> HIDE DEF z, l
        <5> QED BY <5>4, <5>5
      <4>10. from + 1 < top + 1
        <5>1. from < top
          BY <2>1, <4>2
        <5> QED BY <1>9, <5>1
      <4>11. ASSUME NEW k \in DOMAIN v.points
             PROVE  from + 1 < v.points[k].at /\ v.points[k].at < top + 1
        <5>1. from + 1 < v.points[k].at /\ v.points[k].at <= top /\ v.points[k].at \in 1 .. L
          BY <1>10, <2>1, <4>2 DEF Ordered
        <5> QED BY <1>2, <1>9, <5>1
      <4>12. \A k \in DOMAIN c.points : from + 1 < c.points[k].at
        BY <1>11, <1>12, <3>2, <4>7, <4>10, <4>11
      <4>13. ASSUME NEW j \in DOMAIN c.points, NEW k \in DOMAIN c.points, j < k
             PROVE  c.points[j].at < c.points[k].at
        <5>1. DOMAIN c.points = 1 .. n + 1
          BY <1>11, <3>2
        <5>2. j # n + 1
          <6> HIDE DEF n
          <6> QED BY <4>5, <4>13, <5>1
        <5>3. j \in DOMAIN v.points /\ (k = n + 1 \/ k \in DOMAIN v.points)
          BY <4>7, <5>1, <5>2
        <5>4. k \in DOMAIN v.points => v.points[j].at < v.points[k].at
          BY <2>1, <4>13, <5>3 DEF Ordered
        <5>5. k = n + 1 => c.points[k].at = top + 1
          BY <1>11, <1>12, <3>2
        <5> QED BY <1>11, <3>2, <4>11, <5>3, <5>4, <5>5
      <4>14. \A k \in DOMAIN c.points : c.points[k].at <= Len(c.buf)
        BY <1>2, <1>13
      <4> QED BY <4>6, <4>8, <4>9, <4>12, <4>13, <4>14 DEF Ordered
    <3> QED BY <3>1, <3>2
  <2>5. d # 0 => \A k \in DOMAIN c.points : c.points[k].at <= c.open[1].header
    BY <1>11, <2>1, <2>3
  <2> QED BY <1>2, <1>5, <2>1, <2>2, <2>3, <2>4, <2>5 DEF Orderly
<1> QED BY <1>2, <1>14, <1>15, <1>16 DEF c, L, D, length, long


\* a message starts with nothing nested in it
LEMMA StartIs ==
  ASSUME NEW v \in Writers, Capped(v), Fits(v)
  PROVE  LET s == Started(v)
             h == Put(s, LE(0, HeaderBytes))
         IN
         /\ h \in Writers /\ Capped(h) /\ Nested(h) /\ Orderly(h, Len(s.buf))
         /\ Len(s.buf) \in 4 .. (Capacity + 4) /\ Len(s.buf) <= Len(h.buf)
         /\ Len(v.buf) \in Nat /\ Len(h.buf) \in Nat /\ Len(v.buf) <= Len(h.buf)
         /\ \A i \in 1 .. Len(v.buf) : h.buf[i] = v.buf[i]
<1> DEFINE s == Started(v)
           b == LE(0, HeaderBytes)
           h == Put(s, b)
           L == Len(v.buf)
           M == Len(s.buf)
           N == Len(h.buf)
<1>1. /\ s \in Writers /\ M = L + 4 /\ s.open = <<>> /\ s.points = <<>>
      /\ s.extra = [v.extra EXCEPT ![0] = 0]
      /\ \A i \in 1 .. L : s.buf[i] = v.buf[i]
  BY StartedIs
<1>2. b \in Seq(Bytes) /\ Len(b) = HeaderBytes
  BY Sizes, NumberBytes
<1>3. v.extra \in [0 .. MaxNested -> Nat] /\ v.buf \in Seq(Bytes)
  BY DEF Writers
<1>4. L \in Nat /\ L <= Capacity /\ Capacity \in Nat /\ HeaderBytes \in Nat \ {0}
  BY <1>3, Sizes DEF Fits
<1>5. MaxNested \in Nat \ {0}
  BY Sizes
<1> HIDE DEF s, b
<1>6. /\ Depth(s) = 0 /\ DOMAIN s.open = {} /\ DOMAIN s.points = {} /\ Len(s.points) = 0
      /\ s.extra[0] = 0 /\ \A d \in 0 .. MaxNested : d # 0 => s.extra[d] = v.extra[d]
  BY <1>1, <1>3, <1>5 DEF Depth
<1>7. Capped(s)
  BY <1>4, <1>5, <1>6 DEF Capped
<1>8. M \in Nat /\ M \in 4 .. (Capacity + 4) /\ L <= M
  <2> HIDE DEF L, M
  <2> QED BY <1>1, <1>4
<1>9. Nested(s)
  <2>1. EndOf(s, 0) = M /\ BaseOf(s, 0) = 0
    BY <1>6 DEF EndOf, BaseOf
  <2> HIDE DEF M
  <2>2. s.extra[0] <= EndOf(s, 0) - BaseOf(s, 0)
    BY <1>6, <1>8, <2>1
  <2>3. \A d \in 0 .. 0 : d = 0
    OBVIOUS
  <2>4. \A d \in 1 .. 0 : FALSE
    OBVIOUS
  <2> QED BY <1>6, <2>2, <2>3, <2>4 DEF Nested
<1>10. h \in Writers /\ Capped(h) /\ Nested(h) /\ M <= N /\ N \in Nat
  BY <1>1, <1>2, <1>7, <1>9, PutNested
<1>11. /\ N = M + HeaderBytes /\ h.points = <<>> /\ h.open = <<>> /\ h.extra = s.extra
       /\ \A i \in 1 .. M : h.buf[i] = s.buf[i]
  BY <1>1, <1>2, PutIs
<1> HIDE DEF h
<1>12. M < N
  <2> HIDE DEF M, N
  <2> QED BY <1>4, <1>8, <1>11
<1>13. Growing(h.points) /\ DOMAIN h.points = {} /\ Len(h.points) = 0 /\ Depth(h) = 0
  BY <1>11 DEF Growing, Depth
<1>14. Growth(h.points, 0) = 0
  BY <1>13, GrowthStep
<1>15. Ordered(h, M)
  BY <1>6, <1>11, <1>13, <1>14 DEF Ordered
<1>16. Orderly(h, M)
  <2>1. \A d \in 1 .. 0 : FALSE
    OBVIOUS
  <2> QED BY <1>12, <1>13, <1>15, <2>1 DEF Orderly
<1>17. \A i \in 1 .. L : h.buf[i] = v.buf[i]
  <2>1. \A i \in 1 .. L : i \in 1 .. M
    <3> HIDE DEF L, M
    <3> QED BY <1>4, <1>8
  <2> QED BY <1>1, <1>11, <2>1
<1>18. L <= N
  <2> HIDE DEF L, M, N
  <2> QED BY <1>4, <1>8, <1>10
<1> QED BY <1>4, <1>8, <1>10, <1>16, <1>17, <1>18 DEF h, s, b

\* a message that is given up leaves the messages before it
LEMMA CancelledIs ==
  ASSUME NEW v \in Writers, Capped(v), NEW from \in 0 .. (Capacity + 4),
         4 <= from, from <= Len(v.buf)
  PROVE  Cancelled(v, from) \in Writers /\ Capped(Cancelled(v, from)) /\ Fits(Cancelled(v, from))
<1> DEFINE c == Cancelled(v, from)
           L == Len(v.buf)
           m == from - 4
           t == SubSeq(v.buf, 1, m)
<1>1. v.buf \in Seq(Bytes) /\ L \in Nat /\ Capacity \in Nat
  BY Sizes DEF Writers
<1>2. m \in Nat /\ m <= L /\ m <= Capacity
  <2>1. from <= L
    OBVIOUS
  <2> HIDE DEF L
  <2> QED BY <1>1, <2>1
<1>3. t \in Seq(Bytes) /\ Len(t) = m
  <2> HIDE DEF m
  <2>1. \A i \in 1 .. m : i \in 1 .. L
    <3> HIDE DEF L
    <3> QED BY <1>1, <1>2
  <2>2. \A i \in 1 .. m : v.buf[i] \in Bytes
    BY <1>1, <2>1
  <2>3. 1 \in Int /\ m \in Int /\ m - 1 + 1 = m /\ (IF 1 <= m THEN m - 1 + 1 ELSE 0) = m
    BY <1>2
  <2> QED BY <2>2, <2>3, SubSeqProperties
<1> HIDE DEF t, m, L
<1>4. /\ c = [v EXCEPT !.buf = t]
  BY DEF Cancelled, t, m
<1>5. c \in Writers /\ c.buf = t /\ c.open = v.open /\ c.points = v.points /\ c.extra = v.extra
  BY <1>3, <1>4 DEF Writers
<1> HIDE DEF c
<1>6. Capped(c)
  BY <1>5 DEF Capped, Depth
<1>7. Fits(c)
  BY <1>2, <1>3, <1>5 DEF Fits
<1> QED BY <1>5, <1>6, <1>7 DEF c

\* what endMessage leaves can start another message, or is what there was; when
\* the points are in order, it never fails an assertion
LEMMA EndedKeeps ==
  ASSUME NEW v \in Writers, Capped(v), Nested(v), Fits(v), NEW from \in Nat, 4 <= from,
         from <= Len(v.buf)
  PROVE  LET e == Ended(v, from) IN
         /\ e.v \in Writers /\ Capped(e.v) /\ e.pc \in {"idle", "threw", "broken"}
         /\ e.pc = "idle" => Fits(e.v)
         /\ e.pc # "idle" => e.v = v
         /\ Ordered(v, from) => e.pc # "broken"
<1> DEFINE e == Ended(v, from)
<1>1. \A k \in DOMAIN v.points : v.points[k].at \in 1 .. Len(v.buf)
  BY DEF Nested
<1>2. \/ e.v = v /\ e.pc = "threw"
      \/ e.v = v /\ e.pc = "broken" /\ v.extra[0] # 0 /\ ~Expanded(v, from).sane
      \/ /\ e.pc = "idle" /\ e.v \in Writers /\ Fits(e.v)
         /\ e.v.open = v.open /\ e.v.points = v.points /\ e.v.extra = v.extra
  BY <1>1, EndedIs
<1>3. Ordered(v, from) /\ v.extra[0] # 0 => Expanded(v, from).sane
  BY ExpandedSettles
<1> HIDE DEF e
<1>4. CASE e.v = v /\ e.pc = "threw"
  BY <1>4 DEF e
<1>5. CASE e.v = v /\ e.pc = "broken" /\ v.extra[0] # 0 /\ ~Expanded(v, from).sane
  BY <1>3, <1>5 DEF e
<1>6. CASE /\ e.pc = "idle" /\ e.v \in Writers /\ Fits(e.v)
           /\ e.v.open = v.open /\ e.v.points = v.points /\ e.v.extra = v.extra
  <2>1. Capped(e.v)
    BY <1>6 DEF Capped, Depth
  <2> QED BY <1>6, <2>1 DEF e
<1> QED BY <1>2, <1>4, <1>5, <1>6

-----------------------------------------------------------------------------
(* The invariant holds, and is kept by every call.                         *)

\* What is asked of a message that is being written.
InBody(v) ==
    /\ v \in Writers /\ Capped(v) /\ Nested(v) /\ start \in Nat
    /\ Len(w.buf) <= Len(v.buf) /\ Len(v.buf) \in Nat
    /\ ~NestLarge => Orderly(v, start)

\* the buffer is empty
LEMMA InvInit ==
  ASSUME Init
  PROVE  WriterInv /\ OrderInv
<1>1. /\ w.buf = <<>> /\ w.open = <<>> /\ w.points = <<>> /\ w.extra = [d \in 0 .. MaxNested |-> 0]
      /\ w = [buf |-> <<>>, open |-> <<>>, points |-> <<>>, extra |-> [d \in 0 .. MaxNested |-> 0]]
      /\ pc = "idle" /\ start = 0
  BY DEF Init
<1>2. w \in Writers
  BY <1>1 DEF Writers
<1>3. Capped(w) /\ Fits(w)
  BY <1>1, Sizes DEF Capped, Fits, Depth
<1> QED BY <1>1, <1>2, <1>3, Sizes DEF WriterInv, OrderInv

\* a message is started
LEMMA InvStart ==
  ASSUME NEW v \in Writers, Capped(v), Fits(v), Start(v)
  PROVE  WriterInv' /\ OrderInv'
<1> DEFINE s == Started(v)
           h == Put(s, LE(0, HeaderBytes))
<1>1. /\ h \in Writers /\ Capped(h) /\ Nested(h) /\ Orderly(h, Len(s.buf))
      /\ Len(s.buf) \in 4 .. (Capacity + 4) /\ Len(s.buf) <= Len(h.buf)
  BY StartIs
<1>2. w' = h /\ start' = Len(s.buf) /\ pc' = IF Fits(h) THEN "body" ELSE "threw"
  BY DEF Start
<1> HIDE DEF h, s
<1>3. /\ start' \in 0 .. (Capacity + 4) /\ 4 <= start'
      /\ (w \in Writers)' /\ Capped(w)' /\ Nested(w)' /\ Orderly(w, start)' /\ start' <= Len(w.buf)'
  <2>1. start' \in 4 .. (Capacity + 4)
    BY <1>1, <1>2
  <2>2. start' \in 0 .. (Capacity + 4) /\ 4 <= start'
    BY <2>1, Sizes
  <2> QED BY <1>1, <1>2, <2>2 DEF Capped, Nested, Orderly, Ordered, Depth, EndOf, BaseOf
<1>4. pc' \in {"body", "threw"} /\ (pc' = "body" => Fits(w)')
  BY <1>2 DEF Fits
<1> QED BY <1>3, <1>4 DEF WriterInv, OrderInv

\* a call writes into the message
LEMMA InvAppended ==
  ASSUME WriterInv, pc = "body", NEW v, InBody(v), NEW token, Appended(v, token)
  PROVE  WriterInv' /\ OrderInv'
<1>1. w' = v /\ start' = start /\ pc' = IF Fits(v) THEN "body" ELSE "threw"
  BY DEF Appended
<1>2. pc' \in {"body", "threw"} /\ (pc' = "body" => Fits(w)')
  BY <1>1 DEF Fits
<1>3. /\ (w \in Writers)' /\ Capped(w)' /\ Nested(w)' /\ (~NestLarge => Orderly(w, start)')
  BY <1>1 DEF InBody, Capped, Nested, Orderly, Ordered, Depth, EndOf, BaseOf
<1>4. start \in 0 .. (Capacity + 4) /\ 4 <= start /\ start <= Len(w.buf) /\ Len(w.buf) \in Nat
  BY DEF WriterInv, Writers
<1>5. start <= Len(w.buf)'
  <2> DEFINE l == Len(w.buf)
             m == Len(v.buf)
  <2>1. l \in Nat /\ m \in Nat /\ l <= m /\ start <= l /\ start \in Nat
    BY <1>4 DEF InBody
  <2>2. start <= m
    <3> HIDE DEF l, m
    <3> QED BY <2>1
  <2> QED BY <1>1, <2>2
<1> QED BY <1>1, <1>2, <1>3, <1>4, <1>5 DEF WriterInv, OrderInv

\* a call throws, and may have taken the last container away
LEMMA InvThrows ==
  ASSUME WriterInv, pc = "body", NEW v \in Writers, Capped(v), v.buf = w.buf, Throws(v)
  PROVE  WriterInv' /\ OrderInv'
<1>1. w' = v /\ start' = start /\ pc' = "threw"
  BY DEF Throws
<1>2. (w \in Writers)' /\ Capped(w)' /\ Len(w.buf)' = Len(w.buf)
  BY <1>1 DEF Capped, Depth
<1> QED BY <1>1, <1>2 DEF WriterInv, OrderInv

\* what the invariant says of a message that is being written
LEMMA BodyIs ==
  ASSUME WriterInv, OrderInv, pc = "body"
  PROVE  /\ w \in Writers /\ Capped(w) /\ Nested(w) /\ Fits(w)
         /\ start \in Nat /\ 4 <= start /\ start <= Len(w.buf) /\ start \in 0 .. (Capacity + 4)
         /\ ~NestLarge => Orderly(w, start) /\ Ordered(w, start)
BY DEF WriterInv, OrderInv, Orderly

\* the message is ended, or the call throws and leaves the writer as it was
LEMMA InvEnded ==
  ASSUME WriterInv, OrderInv, pc = "body",
         w' = Ended(w, start).v, pc' = Ended(w, start).pc, start' = start
  PROVE  WriterInv' /\ OrderInv'
<1> DEFINE e == Ended(w, start)
<1>1. /\ w \in Writers /\ Capped(w) /\ Nested(w) /\ Fits(w)
      /\ start \in Nat /\ 4 <= start /\ start <= Len(w.buf) /\ start \in 0 .. (Capacity + 4)
      /\ ~NestLarge => Orderly(w, start) /\ Ordered(w, start)
  BY BodyIs
<1>2. /\ e.v \in Writers /\ Capped(e.v) /\ e.pc \in {"idle", "threw", "broken"}
      /\ e.pc = "idle" => Fits(e.v)
      /\ e.pc # "idle" => e.v = w
      /\ ~NestLarge => e.pc # "broken"
  BY <1>1, EndedKeeps
<1>3. w' = e.v /\ pc' = e.pc /\ start' = start
  OBVIOUS
<1> HIDE DEF e
<1>4. (w \in Writers)' /\ Capped(w)' /\ (pc' = "idle" => Fits(w)')
  BY <1>2, <1>3 DEF Capped, Fits, Depth
<1>5. pc' # "idle" => start' <= Len(w.buf)'
  BY <1>1, <1>2, <1>3
<1> QED BY <1>1, <1>2, <1>3, <1>4, <1>5 DEF WriterInv, OrderInv

\* next, beginMessage
LEMMA InvNextMessage ==
  ASSUME WriterInv, OrderInv, NEW shouldCommit \in BOOLEAN, NextMessage(shouldCommit)
  PROVE  WriterInv' /\ OrderInv'
<1>1. CASE pc = "idle" /\ Start(w)
  BY <1>1, InvStart DEF WriterInv
<1>2. CASE pc = "body" /\ Ended(w, start).pc = "idle" /\ Start(Ended(w, start).v)
  <2> DEFINE v == Ended(w, start).v
  <2>1. v \in Writers /\ Capped(v) /\ Fits(v)
    BY <1>2, BodyIs, EndedKeeps
  <2>2. Start(v)
    BY <1>2
  <2> HIDE DEF v
  <2> QED BY <2>1, <2>2, InvStart
<1>3. CASE /\ pc = "body" /\ w' = Ended(w, start).v /\ pc' = Ended(w, start).pc
           /\ UNCHANGED start
  BY <1>3, InvEnded
<1>4. CASE pc \in {"body", "threw"} /\ Start(Cancelled(w, start))
  <2> DEFINE v == Cancelled(w, start)
  <2>1. v \in Writers /\ Capped(v) /\ Fits(v)
    BY <1>4, CancelledIs DEF WriterInv
  <2>2. Start(v)
    BY <1>4
  <2> HIDE DEF v
  <2> QED BY <2>1, <2>2, InvStart
<1> QED BY <1>1, <1>2, <1>3, <1>4 DEF NextMessage

\* commitMessage
LEMMA InvCommitMessage ==
  ASSUME WriterInv, OrderInv, CommitMessage
  PROVE  WriterInv' /\ OrderInv'
BY InvEnded DEF CommitMessage

\* whatever bytes are put behind the buffer
LEMMA InvPut ==
  ASSUME WriterInv, OrderInv, pc = "body", NEW b \in Seq(Bytes), NEW token,
         Appended(Put(w, b), token)
  PROVE  WriterInv' /\ OrderInv'
<1> DEFINE v == Put(w, b)
<1>1. InBody(v)
  BY BodyIs, PutNested DEF InBody
<1>2. Appended(v, token)
  OBVIOUS
<1> HIDE DEF v
<1> QED BY <1>1, <1>2, InvAppended

\* putBytes
LEMMA InvWriteBlock ==
  ASSUME WriterInv, OrderInv, NEW n \in Blocks, WriteBlock(n)
  PROVE  WriterInv' /\ OrderInv'
<1>1. n \in Nat
  BY WriterAssumption
<1>2. Plain(n) \in Seq(Bytes)
  <2>1. \A i \in 1 .. n : i % 256 \in Bytes
    BY <1>1 DEF Bytes
  <2> QED BY <1>1, <2>1 DEF Plain
<1> QED BY <1>2, InvPut DEF WriteBlock, CanWrite

\* the fields
LEMMA InvWriteFields ==
  ASSUME WriterInv, OrderInv, NEW fs \in FieldLists, WriteFields(fs)
  PROVE  WriterInv' /\ OrderInv'
<1>1. Encoded(fs) \in Seq(Bytes)
  BY WriterAssumption DEF Bytes
<1> QED BY <1>1, InvPut DEF WriteFields, CanWrite

\* writeArrayStart, writeObjectStart
LEMMA InvOpenContainer ==
  ASSUME WriterInv, OrderInv, NEW isArray \in BOOLEAN, NEW count \in Counts,
         OpenContainer(isArray, count)
  PROVE  WriterInv' /\ OrderInv'
<1>1. pc = "body"
  BY DEF OpenContainer, CanWrite
<1>2. CASE ~MayNest(w)
  BY <1>1, <1>2, BodyIs, InvThrows DEF OpenContainer
<1>3. CASE MayNest(w)
  <2> DEFINE v == Opened(w, isArray, count)
             token == [call |-> "open", isArray |-> isArray, count |-> count]
  <2>1. InBody(v)
    BY <1>1, <1>3, BodyIs, OpenedNested DEF InBody
  <2>2. Appended(v, token)
    BY <1>3 DEF OpenContainer
  <2> HIDE DEF v, token
  <2> QED BY <1>1, <2>1, <2>2, InvAppended
<1> QED BY <1>2, <1>3

\* writeArrayEnd, writeObjectEnd
LEMMA InvCloseContainer ==
  ASSUME WriterInv, OrderInv, NEW isArray \in BOOLEAN, CloseContainer(isArray)
  PROVE  WriterInv' /\ OrderInv'
<1>1. pc = "body" /\ (Depth(w) >= 2 => NestLarge \/ LengthOf(w) < One)
  BY DEF CloseContainer, CanWrite
<1>2. /\ w \in Writers /\ Capped(w) /\ Nested(w) /\ Fits(w)
      /\ start \in Nat /\ (~NestLarge => Orderly(w, start))
  BY <1>1, BodyIs
<1>3. CASE Depth(w) = 0
  BY <1>1, <1>2, <1>3, InvThrows DEF CloseContainer
<1>4. CASE Depth(w) # 0 /\ Last(w.open).isArray # isArray
  <2> DEFINE v == [w EXCEPT !.open = Front(@)]
             D == Depth(w)
  <2>1. /\ Front(w.open) \in Seq(Opens) /\ Len(Front(w.open)) = D - 1 /\ D \in Nat \ {0}
        /\ \A i \in 1 .. D - 1 : Front(w.open)[i] = w.open[i]
    BY <1>2, <1>4, LastAndFront DEF Writers, Depth
  <2>2. /\ v \in Writers /\ v.buf = w.buf /\ v.points = w.points /\ v.extra = w.extra
        /\ v.open = Front(w.open)
    BY <1>2, <2>1 DEF Writers
  <2>3. Throws(v)
    BY <1>4 DEF CloseContainer
  <2> HIDE DEF v
  <2>4. Depth(v) = D - 1 /\ DOMAIN v.open = 1 .. D - 1 /\ DOMAIN w.open = 1 .. D
    BY <1>2, <2>1, <2>2 DEF Depth, Writers
  <2>5. D <= MaxNested /\ \A i \in 1 .. D : w.open[i].header <= Capacity
    BY <1>2, <2>4 DEF Capped
  <2> HIDE DEF D
  <2>6. D - 1 <= MaxNested /\ \A i \in 1 .. D - 1 : i \in 1 .. D
    BY <2>1, <2>5, Sizes
  <2>7. Capped(v)
    BY <1>2, <2>1, <2>2, <2>4, <2>5, <2>6 DEF Capped
  <2> QED BY <1>1, <2>2, <2>3, <2>7, InvThrows
<1>5. CASE Depth(w) # 0 /\ Last(w.open).isArray = isArray
  <2> DEFINE v == Closed(w)
             token == [call |-> "close"]
  <2>1. /\ v \in Writers /\ Capped(v) /\ Nested(v) /\ Len(v.buf) = Len(w.buf)
        /\ Orderly(w, start) /\ (Depth(w) >= 2 => LengthOf(w) < One) => Orderly(v, start)
    BY <1>2, <1>5, ClosedNested
  <2>2. Appended(v, token)
    BY <1>5 DEF CloseContainer
  <2> HIDE DEF v, token
  <2>3. Len(v.buf) \in Nat
    BY <2>1 DEF Writers
  <2>4. Len(w.buf) <= Len(v.buf)
    <3> DEFINE l == Len(v.buf)
    <3>1. l \in Nat
      BY <2>3
    <3> HIDE DEF l
    <3>2. l <= l
      BY <3>1
    <3> QED BY <2>1, <3>2 DEF l
  <2>5. InBody(v)
    BY <1>1, <1>2, <2>1, <2>3, <2>4 DEF InBody
  <2> QED BY <1>1, <2>2, <2>5, InvAppended
<1> QED BY <1>3, <1>4, <1>5

\* every step
LEMMA InvNext ==
  ASSUME WriterInv, OrderInv, [Next]_vars
  PROVE  WriterInv' /\ OrderInv'
<1>1. CASE UNCHANGED vars
  BY <1>1 DEF vars, WriterInv, OrderInv, Capped, Fits, Nested, Orderly, Ordered, Depth, EndOf, BaseOf
<1>2. CASE \E shouldCommit \in BOOLEAN : NextMessage(shouldCommit)
  BY <1>2, InvNextMessage
<1>3. CASE CommitMessage
  BY <1>3, InvCommitMessage
<1>4. CASE \E n \in Blocks : WriteBlock(n)
  BY <1>4, InvWriteBlock
<1>5. CASE \E fs \in FieldLists : WriteFields(fs)
  BY <1>5, InvWriteFields
<1>6. CASE \E isArray \in BOOLEAN, count \in Counts : OpenContainer(isArray, count)
  BY <1>6, InvOpenContainer
<1>7. CASE \E isArray \in BOOLEAN : CloseContainer(isArray)
  BY <1>7, InvCloseContainer
<1> QED BY <1>1, <1>2, <1>3, <1>4, <1>5, <1>6, <1>7 DEF Next

-----------------------------------------------------------------------------
(* A message that is committed is in the buffer, its headers expanded.     *)

\* The headers of v that grow, and the bytes between them, as HeadersGrowInPlace
\* says where they are.
InPlace(v, from, buf) ==
    \A k \in 0 .. Len(v.points) :
       LET shift == Growth(v.points, k)
           packed == v.points[k].packed
           grown == PlaceOf(v, k) + shift - Len(packed) + 1
       IN /\ \A p \in (PlaceOf(v, k) + 1) .. (PlaceOf(v, k + 1) - 1) :
                p \in (from - 3) .. from \/ buf[p + shift] = v.buf[p]
          /\ k = 0 \/ At(buf, grown, Len(packed)) = packed

\* a part of a sequence is t when it has the elements of t
LEMMA PartIs ==
  ASSUME NEW S, NEW t \in Seq(S), NEW s \in Seq(S), NEW a \in Nat \ {0},
         a + Len(t) - 1 <= Len(s), \A j \in 1 .. Len(t) : s[a + j - 1] = t[j]
  PROVE  At(s, a, Len(t)) = t
<1> DEFINE n == Len(t)
           b == a + n - 1
           u == SubSeq(s, a, b)
           l == Len(s)
<1>1. n \in Nat /\ l \in Nat /\ a \in Int /\ b <= l
  OBVIOUS
<1>2. b \in Int /\ b - a + 1 = n /\ (IF a <= b THEN b - a + 1 ELSE 0) = n
      /\ \A i \in a .. b : i \in 1 .. l
  <2> HIDE DEF n, l
  <2> QED BY <1>1
<1>3. \A i \in a .. b : s[i] \in S
  BY <1>2
<1>4. \A j \in 1 .. n : s[a + j - 1] = t[j]
  OBVIOUS
<1> HIDE DEF b, n
<1>5. /\ u \in Seq(S) /\ Len(u) = n /\ \A j \in 1 .. n : u[j] = s[a + j - 1]
  BY <1>1, <1>2, <1>3, SubSeqProperties
<1> HIDE DEF u
<1>6. \A j \in 1 .. n : u[j] = t[j]
  BY <1>4, <1>5
<1>7. u = t
  BY <1>5, <1>6, SeqEqual DEF n
<1> QED BY <1>7 DEF At, u, b, n

\* the messages in front, and the bytes that move
LEMMA EndedInPlace ==
  ASSUME NEW v \in Writers, Capped(v), Nested(v), Fits(v), NEW from \in Nat, 4 <= from,
         from <= Len(v.buf), Ordered(v, from), Ended(v, from).pc = "idle",
         NEW buf \in Seq(Bytes), Len(Ended(v, from).v.buf) <= Len(buf),
         \A p \in 1 .. Len(Ended(v, from).v.buf) : buf[p] = Ended(v, from).v.buf[p]
  PROVE  InPlace(v, from, buf)
<1> DEFINE e == Ended(v, from)
           d == Done(v, from)
           n == Len(v.points)
           L == Len(v.buf)
           M == Len(e.v.buf)
           G(k) == Growth(v.points, k)
           At0(k) == PlaceOf(v, k)
<1>1. \A k \in DOMAIN v.points : v.points[k].at \in 1 .. L
  BY DEF Nested
<1>2. /\ M = L + v.extra[0]
      /\ \A p \in 1 .. M : p \notin (from - 3) .. from => e.v.buf[p] = d.buf[p]
  BY <1>1, EndedIs
<1>3. M <= Len(buf) /\ \A p \in 1 .. M : buf[p] = e.v.buf[p]
  OBVIOUS
<1>4. /\ n \in Nat /\ DOMAIN v.points = 1 .. n /\ L \in Nat
      /\ At0(0) = 0 /\ At0(n + 1) = L + 1
      /\ \A k \in 1 .. n : At0(k) = v.points[k].at /\ At0(k) \in 1 .. L /\ from + 1 < At0(k)
      /\ \A k \in 0 .. n : At0(k) \in Nat /\ G(k) \in Nat
      /\ \A k \in 1 .. n + 1 : At0(k) \in Nat
      /\ \A j \in 0 .. n, k \in 1 .. n + 1 : j < k => At0(j) < At0(k)
      /\ \A j, k \in 0 .. n : j <= k => G(j) <= G(k)
      /\ \A k \in 1 .. n : /\ G(k) = G(k - 1) + Len(v.points[k].packed) - 1
                           /\ Len(v.points[k].packed) \in {2, 3}
      /\ v.extra[0] = G(n) /\ G(0) = 0
  BY Placed
<1>5. n <= G(n)
  BY <1>4, GrowthIsNat DEF Ordered
<1>6. /\ v.extra[0] # 0 => /\ \A p \in 1 .. At0(1) - 1 : d.buf[p] = v.buf[p]
                           /\ \A i \in 1 .. n : Settled(v, d.buf, i)
      /\ v.extra[0] = 0 => d = v
  BY ExpandedSettles DEF Done
<1>7. v.points \in Seq(Points) /\ v.buf \in Seq(Bytes)
  BY DEF Writers
<1> HIDE DEF e, d, n, L, M, G, At0
<1>8. n = 0 \/ v.extra[0] # 0
  BY <1>4, <1>5
<1>9. \A p \in 1 .. M : p \notin (from - 3) .. from => buf[p] = d.buf[p]
  BY <1>2, <1>3
<1>10. M = L + G(n) /\ M \in Nat /\ G(n) \in Nat
  <2>1. n \in 0 .. n
    BY <1>4
  <2> QED BY <1>2, <1>4, <2>1
<1>11. ASSUME NEW k \in 0 .. n, NEW p \in (At0(k) + 1) .. (At0(k + 1) - 1), p \notin (from - 3) .. from
       PROVE  buf[p + G(k)] = v.buf[p]
  <2>1. k + 1 \in 1 .. n + 1 /\ n + 1 \in 1 .. n + 1 /\ n \in 0 .. n
    BY <1>4
  <2>2. At0(k) \in Nat /\ At0(k + 1) \in Nat /\ G(k) \in Nat /\ G(k) <= G(n) /\ p \in Nat /\ p # 0
    BY <1>4, <2>1
  <2>3. At0(k + 1) <= L + 1
    <3>1. CASE k = n
      BY <1>4, <3>1
    <3>2. CASE k # n
      <4>1. k + 1 \in 1 .. n
        BY <1>4, <3>2
      <4>2. At0(k + 1) \in 1 .. L /\ L \in Nat
        BY <1>4, <4>1
      <4> DEFINE b == At0(k + 1)
      <4> HIDE DEF b
      <4>3. b <= L + 1
        BY <4>2 DEF b
      <4> QED BY <4>3 DEF b
    <3> QED BY <3>1, <3>2
  <2> DEFINE g == G(k)
             a == At0(k)
             b == At0(k + 1)
             h == G(n)
  <2>4. /\ a \in Nat /\ b \in Nat /\ g \in Nat /\ h \in Nat /\ g <= h /\ b <= L + 1
        /\ p \in a + 1 .. b - 1 /\ p \in Nat /\ p # 0
    BY <1>10, <2>2, <2>3
  <2> HIDE DEF g, a, b, h
  <2>5. p + g \in 1 .. M
    <3>1. M = L + h
      BY <1>10 DEF h
    <3> QED BY <1>4, <2>4, <3>1
  <2>6. CASE k = 0
    <3>1. g = 0 /\ p \in 1 .. At0(1) - 1
      BY <1>4, <2>4, <2>6 DEF g, a, b
    <3>2. p + g = p
      BY <2>4, <3>1
    <3>3. buf[p] = d.buf[p]
      BY <1>9, <1>11, <2>5, <3>2
    <3>4. d.buf[p] = v.buf[p]
      BY <1>6, <3>1
    <3> QED BY <3>2, <3>3, <3>4 DEF g
  <2>7. CASE k # 0
    <3>1. k \in 1 .. n /\ v.extra[0] # 0
      <4>1. n \in Nat
        BY <1>4
      <4> QED BY <1>8, <2>7, <4>1
    <3>2. from + 1 < a
      BY <1>4, <3>1 DEF a
    <3>3. p + g \notin (from - 3) .. from
      BY <2>4, <3>2
    <3>4. d.buf[p + g] = v.buf[p]
      BY <1>6, <2>4, <3>1 DEF Settled, g, a, b, G, At0
    <3> QED BY <1>9, <2>5, <3>3, <3>4 DEF g
  <2> QED BY <2>6, <2>7
<1>12. ASSUME NEW k \in 0 .. n, k # 0
       PROVE  At(buf, At0(k) + G(k) - Len(v.points[k].packed) + 1, Len(v.points[k].packed))
                = v.points[k].packed
  <2> DEFINE packed == v.points[k].packed
             m == Len(packed)
             a == At0(k)
             g == G(k)
             h == G(n)
             grown == a + g - m + 1
             z == Len(buf)
  <2>1. k \in 1 .. n /\ k - 1 \in 0 .. n /\ n \in 0 .. n /\ k <= n
    <3>1. n \in Nat
      BY <1>4
    <3> HIDE DEF n, m, packed, a, g, h, grown, z
    <3> QED BY <3>1, <1>12
  <2>2. packed \in Seq(0 .. (B - 1)) /\ m \in {2, 3}
    <3>1. k \in DOMAIN v.points /\ Len(v.points[k].packed) \in {2, 3}
      BY <1>4, <2>1
    <3>2. v.points[k] \in Points
      BY <1>7, <3>1
    <3> QED BY <3>1, <3>2 DEF Points
  <2>3. packed \in Seq(Bytes)
    <3>1. 0 .. (B - 1) \subseteq Bytes
      BY Sizes DEF Bytes
    <3> HIDE DEF packed
    <3>2. packed \in Seq(0 .. (B - 1))
      BY <2>2
    <3> DEFINE S == 0 .. (B - 1)
    <3> HIDE DEF S
    <3>3. packed \in Seq(S) /\ S \subseteq Bytes
      BY <3>1, <3>2 DEF S
    <3> QED BY <3>3
  <2> DEFINE c == G(k - 1)
  <2>4. /\ a \in 1 .. L /\ from + 1 < a /\ g \in Nat /\ h \in Nat /\ g <= h /\ z \in Nat
        /\ M <= z /\ c \in Nat /\ g = c + m - 1
    <3>1. a \in 1 .. L /\ from + 1 < a /\ g = c + m - 1
      BY <1>4, <2>1
    <3>2. k \in 0 .. n
      OBVIOUS
    <3>3. g \in Nat /\ h \in Nat /\ g <= h /\ c \in Nat
      BY <1>4, <2>1, <3>2
    <3>4. z \in Nat /\ M <= z
      BY <1>3
    <3> QED BY <3>1, <3>3, <3>4
  <2>5. M = L + h
    BY <1>10
  <2>6. \A j \in 1 .. m : d.buf[a + g - m + j] = packed[j]
    <3>1. v.extra[0] # 0
      BY <1>8, <2>1
    <3>2. Settled(v, d.buf, k)
      BY <1>6, <2>1, <3>1
    <3> QED BY <3>2 DEF Settled, G, At0
  <2> HIDE DEF packed, m, a, g, h, z, c
  <2>7. L \in Nat /\ M \in Nat /\ a \in Nat /\ a # 0 /\ a <= L /\ m \in Nat
    BY <1>4, <1>10, <2>2, <2>4
  <2>8. a + g <= M
    BY <2>4, <2>5, <2>7
  <2>9. grown \in Nat \ {0} /\ grown + m - 1 <= z
    BY <2>4, <2>7, <2>8
  <2>10. ASSUME NEW j \in 1 .. m PROVE buf[grown + j - 1] = packed[j]
    <3>1. grown + j - 1 = a + g - m + j /\ grown + j - 1 \in 1 .. M
          /\ grown + j - 1 \notin (from - 3) .. from
      BY <2>4, <2>7, <2>8
    <3> HIDE DEF grown
    <3> QED BY <1>9, <2>6, <3>1
  <2> HIDE DEF grown
  <2>11. At(buf, grown, m) = packed
    BY <2>3, <2>9, <2>10, PartIs DEF m, z
  <2> QED BY <2>11 DEF grown, m, packed, a, g
<1> QED BY <1>11, <1>12 DEF InPlace, G, At0, n

-----------------------------------------------------------------------------
(* The theorems.                                                           *)

\* What a writer holds is of the size of its buffer; while a message is written,
\* its containers are nested inside each other and inside the buffer, with the
\* room their headers need (openContainer, closeContainer, endMessage); and the
\* points of a message are in order when only its outermost containers grow.
THEOREM WriterInvariant == Spec => [](WriterInv /\ OrderInv)
<1>1. Init => WriterInv /\ OrderInv
  BY InvInit
<1>2. (WriterInv /\ OrderInv) /\ [Next]_vars => (WriterInv /\ OrderInv)'
  BY InvNext
<1> QED BY <1>1, <1>2, PTL DEF Spec

\* A number below the size of the buffer, where the types say so.
LEMMA TypesFollow ==
  ASSUME WriterInv
  PROVE  TypeOK
<1>1. w \in Writers /\ Capped(w)
  BY DEF WriterInv
<1>2. w.buf \in Seq(0 .. 255)
  BY <1>1 DEF Writers, Bytes
<1>3. w.open \in Seq([header : 0 .. Capacity, isArray : BOOLEAN])
  <2> DEFINE T == [header : 0 .. Capacity, isArray : BOOLEAN]
  <2>1. w.open \in Seq(Opens) /\ Capacity \in Nat
    BY <1>1, Sizes DEF Writers
  <2>2. ASSUME NEW i \in 1 .. Len(w.open) PROVE w.open[i] \in T
    <3>1. w.open[i] \in Opens /\ i \in DOMAIN w.open
      BY <2>1, <2>2
    <3>2. w.open[i].header <= Capacity
      BY <1>1, <3>1 DEF Capped
    <3> QED BY <2>1, <3>1, <3>2 DEF Opens
  <2> HIDE DEF T
  <2>3. w.open \in Seq(T)
    BY <2>1, <2>2
  <2> QED BY <2>3 DEF T
<1>4. w.points \in Seq([at : 1 .. Capacity, packed : Seq(0 .. (B - 1))])
  <2> DEFINE T == [at : 1 .. Capacity, packed : Seq(0 .. (B - 1))]
  <2>1. w.points \in Seq(Points)
    BY <1>1 DEF Writers
  <2>2. ASSUME NEW k \in 1 .. Len(w.points) PROVE w.points[k] \in T
    <3>1. w.points[k] \in Points /\ w.points[k].at \in 1 .. Capacity
      BY <1>1, <2>1, <2>2 DEF Capped
    <3> QED BY <3>1 DEF Points
  <2> HIDE DEF T
  <2>3. w.points \in Seq(T)
    BY <2>1, <2>2
  <2> QED BY <2>3 DEF T
<1>5. w.extra \in [0 .. MaxNested -> 0 .. Capacity]
  <2>1. w.extra \in [0 .. MaxNested -> Nat] /\ Capacity \in Nat
    BY <1>1, Sizes DEF Writers
  <2>2. ASSUME NEW d \in 0 .. MaxNested PROVE w.extra[d] \in 0 .. Capacity
    <3> DEFINE x == w.extra[d]
    <3>1. x \in Nat /\ x <= Capacity
      BY <1>1, <2>1 DEF Capped
    <3> HIDE DEF x
    <3>2. x \in 0 .. Capacity
      BY <2>1, <3>1
    <3> QED BY <3>2 DEF x
  <2> QED BY <2>1, <2>2
<1>6. Depth(w) <= MaxNested
  BY <1>1 DEF Capped
<1> QED BY <1>2, <1>3, <1>4, <1>5, <1>6 DEF TypeOK, WriterInv

\* The types of the writer (data_writer.h), and what a call that returned leaves
\* is inside the buffer, however deep the containers are nested.
THEOREM TypeCorrect == Spec => []TypeOK
BY WriterInvariant, TypesFollow, PTL

\* At the end of a message, the room kept for its headers is what they need
\* (data_writer_impl.h, the assertion on extraSize and the expansion points).
THEOREM RoomIsExact ==
  ASSUME ~NestLarge
  PROVE  Spec => []ExtraIsWhatPointsNeed
<1>1. WriterInv /\ OrderInv => ExtraIsWhatPointsNeed
  BY DEF OrderInv, Orderly, Ordered, ExtraIsWhatPointsNeed
<1> QED BY <1>1, WriterInvariant, PTL

\* expandHeaders never fails an assertion (data_writer.cpp:1135, 1138).
THEOREM HeadersAlwaysExpand ==
  ASSUME ~NestLarge
  PROVE  Spec => []NoLogicError
<1>1. WriterInv /\ OrderInv => NoLogicError
  BY DEF OrderInv, NoLogicError
<1> QED BY <1>1, WriterInvariant, PTL

\* a message that endMessage ended is in the buffer that follows
LEMMA StepInPlace ==
  ASSUME WriterInv, OrderInv, ~NestLarge, [Next]_vars, written' # written
  PROVE  InPlace(w, start, w'.buf)
<1> DEFINE e == Ended(w, start)
<1>1. pc = "body" /\ e.pc = "idle" /\ (w' = e.v \/ Start(e.v))
  <2>1. CASE \E shouldCommit \in BOOLEAN : NextMessage(shouldCommit)
    <3> HIDE DEF e
    <3>1. pc = "body" /\ e.pc = "idle" /\ Start(e.v)
      BY <2>1 DEF NextMessage, e
    <3> QED BY <3>1
  <2>2. CASE CommitMessage
    BY <2>2 DEF CommitMessage
  <2> QED BY <2>1, <2>2 DEF Next, vars, WriteBlock, WriteFields, OpenContainer,
        CloseContainer, Appended, Throws
<1>2. /\ w \in Writers /\ Capped(w) /\ Nested(w) /\ Fits(w)
      /\ start \in Nat /\ 4 <= start /\ start <= Len(w.buf) /\ Ordered(w, start)
  BY <1>1, BodyIs
<1>3. e.v \in Writers /\ Capped(e.v) /\ Fits(e.v)
  BY <1>1, <1>2, EndedKeeps
<1>4. /\ w'.buf \in Seq(Bytes) /\ Len(e.v.buf) <= Len(w'.buf)
      /\ \A p \in 1 .. Len(e.v.buf) : w'.buf[p] = e.v.buf[p]
  <2> DEFINE v == e.v
  <2>1. v \in Writers /\ Capped(v) /\ Fits(v) /\ (w' = v \/ Start(v))
    BY <1>1, <1>3
  <2> HIDE DEF v
  <2>2. CASE w' = v
    <3>1. v.buf \in Seq(Bytes)
      BY <2>1 DEF Writers
    <3> DEFINE l == Len(v.buf)
    <3>2. l \in Nat
      BY <3>1
    <3> HIDE DEF l
    <3>3. l <= l
      BY <3>2
    <3> QED BY <2>2, <3>1, <3>3 DEF l, v
  <2>3. CASE Start(v)
    <3> DEFINE h == Put(Started(v), LE(0, HeaderBytes))
    <3>1. h \in Writers /\ Len(v.buf) <= Len(h.buf) /\ \A i \in 1 .. Len(v.buf) : h.buf[i] = v.buf[i]
      BY <2>1, StartIs
    <3>2. w' = h
      BY <2>3 DEF Start
    <3> HIDE DEF h
    <3>3. h.buf \in Seq(Bytes)
      BY <3>1 DEF Writers
    <3> QED BY <3>1, <3>2, <3>3 DEF v
  <2> QED BY <2>1, <2>2, <2>3
<1> QED BY <1>1, <1>2, <1>4, EndedInPlace

\* Every header that grew, and every byte between two of them, is where a reader
\* of the message looks for it, whatever the size of the buffer, the number of
\* its messages and of the headers (MessageWriter's expandHeaders).
THEOREM BytesStayInPlace ==
  ASSUME ~NestLarge
  PROVE  Spec => HeadersGrowInPlace
<1>1. WriterInv /\ OrderInv /\ [Next]_vars =>
        [written' # written => InPlace(w, start, w'.buf)]_vars
  BY StepInPlace
<1>2. Spec => [][written' # written => InPlace(w, start, w'.buf)]_vars
  BY <1>1, WriterInvariant, PTL DEF Spec
<1>3. Spec => []ExtraIsWhatPointsNeed
  BY RoomIsExact
<1> QED BY <1>2, <1>3 DEF HeadersGrowInPlace, InPlace
=============================================================================
