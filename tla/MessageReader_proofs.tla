------------------------ MODULE MessageReader_proofs ------------------------
(***************************************************************************)
(* What TLC checks of MessageReader for three responses and one size of the *)
(* buffer, proved for any response, any sizes and any pieces in which the  *)
(* socket delivers it.                                                     *)
(***************************************************************************)
EXTENDS MessageReader, SequenceTheorems, WellFoundedInduction, FiniteSetTheorems, TLAPS

-----------------------------------------------------------------------------
(* Induction, from the order of the natural numbers being well founded.    *)

\* a set of numbers that is not empty has a least one
LEMMA LeastNatural ==
  ASSUME NEW T, T \subseteq Nat, T # {}
  PROVE  \E x \in T : \A y \in T : ~ (y < x)
<1>1. PICK x \in T : \A y \in T : ~ (<<y, x>> \in OpToRel(<, Nat))
  BY NatLessThanWellFounded, WFMin
<1>2. \A y \in T : y < x => <<y, x>> \in OpToRel(<, Nat)
  BY DEF OpToRel
<1> QED
  BY <1>1, <1>2

\* a set that has 0 and is closed under + 1 has every number
LEMMA InductionOnNat ==
  ASSUME NEW S, 0 \in S, \A n \in Nat : n \in S => n + 1 \in S
  PROVE  Nat \subseteq S
<1> SUFFICES ASSUME ~ (Nat \subseteq S) PROVE FALSE
  OBVIOUS
<1>1. PICK x \in Nat \ S : \A y \in Nat \ S : ~ (y < x)
  BY LeastNatural
<1>2. x # 0 /\ x - 1 \in Nat /\ x - 1 < x
  BY <1>1
<1>3. x - 1 \in S
  BY <1>1, <1>2
<1> QED
  BY <1>1, <1>2, <1>3

\* a set of numbers with an upper bound that is not empty has a greatest one
LEMMA GreatestNatural ==
  ASSUME NEW T, T \subseteq Nat, T # {}, NEW m \in Nat, \A x \in T : x <= m
  PROVE  \E x \in T : \A y \in T : y <= x
<1> DEFINE U == {n \in Nat : \A y \in T : y <= n}
<1>1. PICK n \in U : \A k \in U : ~(k < n)
  BY LeastNatural
<1>2. CASE n \in T
  BY <1>1, <1>2
<1>3. CASE n \notin T
  <2>1. \A y \in T : y <= n - 1
    BY <1>1, <1>3
  <2>2. PICK z \in T : z <= n - 1
    BY <2>1
  <2>3. n - 1 \in U /\ n - 1 < n
    BY <2>1, <2>2, n \in Nat
  <2> QED
    BY <2>3, <1>1
<1> QED
  BY <1>2, <1>3

-----------------------------------------------------------------------------
(* Functions computed from 0 on, one value from the one before.            *)

\* f takes the steps of st, one after the other, from x on
Iterates(f, X, x, n, st) ==
    /\ f \in [0 .. n -> X] /\ f[0] = x
    /\ \A k \in 1 .. n : f[k] = st[k][f[k - 1]]

\* there is such a function
LEMMA IterationExists ==
  ASSUME NEW X, NEW x \in X, NEW n \in Nat, NEW st \in [1 .. n -> [X -> X]]
  PROVE  \E f : Iterates(f, X, x, n, st)
<1> DEFINE Steps(f, m) == f[0] = x /\ \A k \in 1 .. m : f[k] = st[k][f[k - 1]]
           S == {m \in Nat : m <= n => \E f \in [0 .. m -> X] : Steps(f, m)}
<1>1. 0 \in S
  <2>1. [k \in 0 .. 0 |-> x] \in [0 .. 0 -> X] /\ Steps([k \in 0 .. 0 |-> x], 0)
    OBVIOUS
  <2> QED
    BY <2>1
<1>2. ASSUME NEW m \in Nat, m \in S PROVE m + 1 \in S
  <2> SUFFICES ASSUME m + 1 <= n PROVE \E f \in [0 .. m + 1 -> X] : Steps(f, m + 1)
    OBVIOUS
  <2>1. PICK f \in [0 .. m -> X] : Steps(f, m)
    BY <1>2
  <2> DEFINE g == [k \in 0 .. m + 1 |-> IF k \in 0 .. m THEN f[k] ELSE st[m + 1][f[m]]]
  <2>2. st[m + 1][f[m]] \in X
    <3>1. m + 1 \in 1 .. n /\ f[m] \in X
      OBVIOUS
    <3> QED
      BY <3>1
  <2>3. g \in [0 .. m + 1 -> X]
    BY <2>2
  <2>4. g[0] = x
    BY <2>1
  <2>5. ASSUME NEW k \in 1 .. m + 1 PROVE g[k] = st[k][g[k - 1]]
    <3>1. k - 1 \in 0 .. m /\ g[k - 1] = f[k - 1]
      OBVIOUS
    <3>2. CASE k \in 1 .. m
      <4>1. g[k] = f[k]
        BY <3>2
      <4>2. f[k] = st[k][f[k - 1]]
        BY <2>1, <3>2
      <4> QED
        BY <3>1, <4>1, <4>2
    <3>3. CASE k = m + 1
      <4>1. ~(k \in 0 .. m) /\ k - 1 = m
        BY <3>3
      <4>2. g[k] = st[m + 1][f[m]]
        BY <4>1
      <4> QED
        BY <3>1, <3>3, <4>1, <4>2
    <3> QED
      BY <3>2, <3>3
  <2> HIDE DEF g
  <2> QED
    BY <2>3, <2>4, <2>5
<1> HIDE DEF S
<1>3. n \in S
  BY <1>1, <1>2, InductionOnNat
<1> QED
  BY <1>3 DEF S, Iterates

\* the values of such a function stay in X when each step does
LEMMA ValuesStay ==
  ASSUME NEW X, NEW n \in Nat, NEW f, f[0] \in X,
         \A k \in 1 .. n : f[k - 1] \in X => f[k] \in X
  PROVE  \A k \in 0 .. n : f[k] \in X
<1> DEFINE S == {m \in Nat : m <= n => f[m] \in X}
<1>1. 0 \in S
  OBVIOUS
<1>2. ASSUME NEW m \in Nat, m \in S PROVE m + 1 \in S
  <2> SUFFICES ASSUME m + 1 <= n PROVE f[m + 1] \in X
    OBVIOUS
  <2>1. m + 1 \in 1 .. n /\ (m + 1) - 1 = m /\ f[m] \in X
    BY <1>2
  <2> QED
    BY <2>1
<1> HIDE DEF S
<1>3. \A m \in Nat : m \in S
  BY <1>1, <1>2, InductionOnNat
<1> QED
  BY <1>3 DEF S

-----------------------------------------------------------------------------
(* The buffer.                                                             *)

\* what the parameters are
LEMMA Parameters ==
  /\ BufferSize \in Nat /\ BufferSize > 0 /\ Word \in Nat /\ Word > 0
  /\ SkipAhead \in Nat /\ SkipAhead >= HeaderMax
  /\ MaxNested \in Nat /\ MaxNested > 0
  /\ Lengths \subseteq Nat /\ Fields \subseteq Nat
BY ReaderAssumption DEF HeaderMax

\* the smaller of two numbers
LEMMA MinimumOf ==
  ASSUME NEW a \in Int, NEW b \in Int
  PROVE  /\ Minimum(a, b) \in Int /\ Minimum(a, b) <= a /\ Minimum(a, b) <= b
         /\ Minimum(a, b) = a \/ Minimum(a, b) = b
BY DEF Minimum

\* the bytes of a buffer stay bytes when more of the wire is laid behind them
LEMMA LayKeeps ==
  ASSUME wire \in Seq(Int), NEW m \in [Memory -> Int],
         NEW e \in Nat, NEW first \in Nat, NEW k \in Nat, first + k <= Len(wire)
  PROVE  Lay(m, e, first, k) \in [Memory -> Int]
<1> SUFFICES ASSUME NEW a \in Memory, a >= e /\ a < e + k
             PROVE  wire[first + a - e + 1] \in Int
  BY DEF Lay
<1>1. a \in Int
  BY Parameters DEF Memory
<1>2. first + a - e + 1 \in 1 .. Len(wire)
  BY <1>1
<1> QED
  BY <1>2

\* and when some are moved
LEMMA MovedKeeps ==
  ASSUME NEW m \in [Memory -> Int], NEW to \in Int, NEW from \in Int, NEW n \in Int,
         n > 0 => from >= 0 - Word /\ from + n <= BufferSize + Word
  PROVE  Moved(m, to, from, n) \in [Memory -> Int]
<1> SUFFICES ASSUME NEW a \in Memory, a >= to /\ a < to + n
             PROVE  m[from + a - to] \in Int
  BY DEF Moved
<1>1. a \in Int
  BY Parameters DEF Memory
<1>2. from + a - to \in Memory
  BY <1>1, Parameters DEF Memory
<1> QED
  BY <1>2

\* and when those that were read are forgotten
LEMMA LiveKeeps ==
  ASSUME NEW m \in [Memory -> Int], NEW lo, NEW hi
  PROVE  Live(m, lo, hi) \in [Memory -> Int]
BY DEF Live

\* a buffer with its end, the place from which to read and the bytes taken
Buffered(r, n) ==
    /\ r.mem \in [Memory -> Int] /\ r.end \in 0 .. BufferSize
    /\ r.taken \in 0 .. Len(wire) /\ r.from \in Nat /\ r.from + n <= r.end

\* more of the wire behind address e
LEMMA ResultBuffered ==
  ASSUME wire \in Seq(Int), taken \in 0 .. Len(wire),
         NEW m \in [Memory -> Int], NEW e \in Nat, NEW f \in Nat, NEW n \in Int,
         NEW k \in Nat, k <= BufferSize - e, k <= Len(wire) - taken, f + n <= e + k
  PROVE  Buffered(Result(m, e, f, k), n)
<1>1. Lay(m, e, taken, k) \in [Memory -> Int]
  BY LayKeeps
<1>2. e + k \in 0 .. BufferSize /\ taken + k \in 0 .. Len(wire)
  BY Parameters
<1> QED
  BY <1>1, <1>2 DEF Result, Buffered

\* getFromStream puts n bytes into the buffer, and nothing out of it
LEMMA GetFromStreamBuffers ==
  ASSUME wire \in Seq(Int), taken \in 0 .. Len(wire), mem \in [Memory -> Int],
         streamDataEnd \in 0 .. BufferSize,
         NEW f \in 0 .. streamDataEnd, NEW n \in Nat, NEW r \in GetFromStream(f, n)
  PROVE  Buffered(r, n)
<1> DEFINE have == streamDataEnd - f
           need == n - have
           Fill(m, e, to) == {Result(m, e, to, k) : k \in need .. Minimum(Room(e), Left)}
<1>0. have \in Nat /\ need \in Int /\ Left \in Nat /\ streamDataEnd \in Nat /\ BufferSize \in Nat
  BY Parameters DEF Left
<1>1. CASE n <= have
  <2>1. r = [mem |-> mem, end |-> streamDataEnd, from |-> f, taken |-> taken]
    BY <1>1 DEF GetFromStream
  <2> QED
    BY <2>1, <1>1 DEF Buffered
<1>2. ASSUME ~(n <= have), NEW m \in [Memory -> Int], NEW e \in 0 .. BufferSize,
             NEW to \in Nat, to + have = e, r \in Fill(m, e, to)
      PROVE  Buffered(r, n)
  <2>1. PICK k \in need .. Minimum(Room(e), Left) : r = Result(m, e, to, k)
    BY <1>2
  <2>2. Room(e) = BufferSize - e
    BY DEF Room
  <2>3. k \in Nat /\ need <= k
    BY <1>0, <1>2, <2>1
  <2>4. need > 0 /\ to + n = e + need
    BY <1>0, <1>2
  <2>5. k <= Room(e) /\ k <= Left
    BY <1>0, <2>1, <2>2 DEF Minimum
  <2>6. k <= BufferSize - e /\ k <= Len(wire) - taken
    BY <2>2, <2>5 DEF Left
  <2>7. to + n <= e + k
    BY <2>3, <2>4, <1>0, <1>2
  <2> HIDE DEF have, need
  <2>8. e \in Nat /\ to \in Nat /\ n \in Int /\ m \in [Memory -> Int]
    BY <1>0, <1>2
  <2>9. Buffered(Result(m, e, to, k), n)
    BY ONLY wire \in Seq(Int), taken \in 0 .. Len(wire), <2>3, <2>6, <2>7, <2>8,
       ResultBuffered
  <2> QED
    BY <2>1, <2>9
<1>3. CASE ~(n <= have) /\ have = 0
  <2>1. r \in Fill(mem, 0, 0)
    BY <1>3 DEF GetFromStream
  <2> QED
    BY <1>0, <1>2, <1>3, <2>1
<1>4. CASE ~(n <= have) /\ have # 0 /\ need > Room(streamDataEnd)
  <2>1. r \in Fill(Moved(mem, 0, f, have), have, 0)
    BY <1>4 DEF GetFromStream
  <2>2. Moved(mem, 0, f, have) \in [Memory -> Int]
    BY <1>0, MovedKeeps, Parameters
  <2>3. have \in 0 .. BufferSize /\ 0 \in Nat /\ 0 + have = have
    BY <1>0
  <2> HIDE DEF have, need, Fill
  <2> QED
    BY <1>2, <1>4, <2>1, <2>2, <2>3
<1>5. CASE ~(n <= have) /\ have # 0 /\ ~(need > Room(streamDataEnd))
  <2>1. r \in Fill(mem, streamDataEnd, f)
    BY <1>5 DEF GetFromStream
  <2>2. f + have = streamDataEnd
    BY <1>0
  <2> QED
    BY <1>0, <1>2, <1>5, <2>1, <2>2
<1> QED
  BY <1>1, <1>3, <1>4, <1>5

\* division leaves less than what is divided by
LEMMA Division ==
  ASSUME NEW a \in Nat, NEW b \in Nat, b > 0
  PROVE  a \div b \in Nat /\ a - (a \div b) * b \in 0 .. b - 1
OBVIOUS

\* skipStream leaves n bytes behind, and keeps the buffer
LEMMA SkipStreamBuffers ==
  ASSUME wire \in Seq(Int), taken \in 0 .. Len(wire), mem \in [Memory -> Int],
         streamDataEnd \in 0 .. BufferSize,
         NEW f \in 0 .. streamDataEnd, NEW n \in Nat, NEW r \in SkipStream(f, n)
  PROVE  Buffered(r, 0)
<1> DEFINE have == streamDataEnd - f
           whole == (n - have - 1) \div BufferSize
           skipped == whole * BufferSize
           last == n - have - skipped
           first == taken + skipped
<1>0. have \in Nat /\ streamDataEnd \in Nat /\ BufferSize \in Nat /\ BufferSize > 0
  BY Parameters
<1>1. CASE n <= have
  <2>1. r = [mem |-> mem, end |-> streamDataEnd, from |-> f + n, taken |-> taken]
    BY <1>1 DEF SkipStream
  <2>2. f + n \in Nat /\ f + n + 0 <= streamDataEnd
    BY <1>0, <1>1
  <2> QED
    BY <2>1, <2>2 DEF Buffered
<1>2. CASE ~(n <= have)
  <2>1. n - have - 1 \in Nat
    BY <1>0, <1>2
  <2>2. whole \in Nat /\ (n - have - 1) - skipped \in 0 .. BufferSize - 1
    BY <2>1, <1>0, Division
  <2>3. skipped \in Nat
    BY <2>2, <1>0
  <2>4. PICK k \in last .. Minimum(BufferSize, Len(wire) - first) :
           r = [mem |-> Lay(mem, 0, first, k), end |-> k, from |-> last, taken |-> first + k]
    BY <1>2 DEF SkipStream
  <2> HIDE DEF whole, skipped, have
  <2>5. last \in Nat /\ last > 0 /\ first \in Nat
    BY <2>2, <2>3, <1>0
  <2> HIDE DEF last, first
  <2>6. k \in Nat /\ last <= k /\ k <= BufferSize /\ k <= Len(wire) - first
    BY <2>4, <2>5, <1>0 DEF Minimum
  <2>7. first + k <= Len(wire) /\ first + k \in 0 .. Len(wire)
    BY <2>5, <2>6
  <2>8. Lay(mem, 0, first, k) \in [Memory -> Int]
    BY <2>5, <2>6, <2>7, LayKeeps
  <2> QED
    BY <2>4, <2>5, <2>6, <2>7, <2>8, <1>0 DEF Buffered
<1> QED
  BY <1>1, <1>2

\* number[k] is what the first k of the digits b spell
Spells(number, b, n) ==
    number = [k \in 0 .. n |-> IF k = 0 THEN 0
                               ELSE number[k - 1] * 10 + (Digit(0) - b[k])]

\* n digits spell a number
LEMMA Spelling ==
  ASSUME NEW n \in Nat, NEW b, \A k \in 1 .. n : b[k] \in Int /\ b[k] <= Digit(0)
  PROVE  /\ \E number : Spells(number, b, n)
         /\ \A number : Spells(number, b, n) => \A k \in 0 .. n : number[k] \in Nat
<1>1. \A k \in 1 .. n : Digit(0) - b[k] \in Nat
  BY DEF Digit
<1>2. \A k \in 1 .. n, v \in Nat : v * 10 + (Digit(0) - b[k]) \in Nat
  BY <1>1
<1> DEFINE st == [k \in 1 .. n |-> [v \in Nat |-> v * 10 + (Digit(0) - b[k])]]
<1>3. st \in [1 .. n -> [Nat -> Nat]] /\ \A k \in 1 .. n, v \in Nat :
        st[k][v] = v * 10 + (Digit(0) - b[k])
  BY <1>2
<1> HIDE DEF st
<1>4. PICK f : Iterates(f, Nat, 0, n, st)
  BY <1>3, 0 \in Nat, IterationExists, Zenon
<1>5. ASSUME NEW k \in 0 .. n
      PROVE  f[k] = IF k = 0 THEN 0 ELSE f[k - 1] * 10 + (Digit(0) - b[k])
  <2>1. CASE k = 0
    BY <2>1, <1>4 DEF Iterates
  <2>2. CASE k # 0
    <3>1. k \in 1 .. n /\ f[k - 1] \in Nat
      BY <1>4, <2>2 DEF Iterates
    <3>2. f[k] = st[k][f[k - 1]]
      BY <1>4, <3>1 DEF Iterates
    <3> QED
      BY <1>3, <2>2, <3>1, <3>2
  <2> QED
    BY <2>1, <2>2
<1>6. Spells(f, b, n)
  <2>1. f = [k \in 0 .. n |-> f[k]]
    BY <1>4 DEF Iterates
  <2>2. [k \in 0 .. n |-> f[k]] = [k \in 0 .. n |-> IF k = 0 THEN 0
                                    ELSE f[k - 1] * 10 + (Digit(0) - b[k])]
    BY <1>5
  <2> QED
    BY <2>1, <2>2 DEF Spells
<1>7. ASSUME NEW number, Spells(number, b, n)
      PROVE  \A k \in 0 .. n : number[k] \in Nat
  <2>1. number[0] = 0
    BY <1>7 DEF Spells
  <2>2. ASSUME NEW k \in 1 .. n, number[k - 1] \in Nat PROVE number[k] \in Nat
    <3>1. k \in 0 .. n /\ k # 0
      OBVIOUS
    <3>2. number[k] = number[k - 1] * 10 + (Digit(0) - b[k])
      BY <1>7, <3>1 DEF Spells
    <3> QED
      BY <1>2, <2>2, <3>2
  <2>3. number[0] \in Nat /\ \A k \in 1 .. n : number[k - 1] \in Nat => number[k] \in Nat
    BY <2>1, <2>2
  <2> QED
    BY <2>3, ValuesStay, Zenon
<1> QED
  BY <1>6, <1>7

\* b is n digits behind the line end at start, number what they spell, and h
\* the header they are in, which ends with a line end in the data
ReadHeader(m, start, end, h, n, b, number) ==
    /\ n \in Nat /\ start + n + 4 <= end
    /\ \A k \in 1 .. n : b[k] = m[start + 1 + k] /\ b[k] \in Int /\ IsDigit(b[k])
    /\ Spells(number, b, n) /\ m[start + 2 + n] = CR
    /\ h.size = number[n] /\ h.end = start + n + 4

\* a header that parses was read that way
LEMMA HeaderIsRead ==
  ASSUME NEW m \in [Memory -> Int], NEW start \in Nat, NEW end \in 0 .. BufferSize,
         NEW h, h = ParseChunkHeader(m, start, end), h.is \notin {"malformed", "more"}
  PROVE  \E n, b, number : ReadHeader(m, start, end, h, n, b, number)
<1> DEFINE digits == {k \in 0 .. (end - start - 2) : \A i \in 1 .. k : IsDigit(m[start + 1 + i])}
           n == CHOOSE k \in digits : \A j \in digits : j <= k
           stop == start + 2 + n
           number == CHOOSE number : number = [k \in 0 .. n |-> IF k = 0 THEN 0
                         ELSE number[k - 1] * 10 + (Digit(0) - m[start + 1 + k])]
           lines(a) == m[a] = CR /\ m[a + 1] = LF
<1>0. end \in Nat /\ BufferSize \in Nat /\ Word \in Nat
  BY Parameters
<1>1. h = IF end - start < HeaderMin \/ ~lines(start) THEN [is |-> "malformed"]
          ELSE IF Unfinished(m, stop, end) THEN [is |-> "more"]
          ELSE IF ~lines(stop) THEN [is |-> "malformed"]
          ELSE [is |-> "header", size |-> number[n], end |-> stop + 2]
  BY DEF ParseChunkHeader
<1>2. n \in digits
  <2>1. end - start >= 5
    BY <1>0, <1>1 DEF HeaderMin
  <2>2. /\ 0 \in digits /\ digits \subseteq Nat /\ end - start - 2 \in Nat
        /\ \A x \in digits : x <= end - start - 2
    BY <1>0, <2>1
  <2> HIDE DEF digits
  <2>3. \E k \in digits : \A j \in digits : j <= k
    BY <2>2, GreatestNatural
  <2> QED
    BY <2>3
<1>3. n \in Nat /\ n <= end - start - 2 /\ \A i \in 1 .. n : IsDigit(m[start + 1 + i])
  BY <1>0, <1>2
<1> HIDE DEF n
<1>4. ~Unfinished(m, stop, end) /\ lines(stop) /\ h.size = number[n] /\ h.end = stop + 2
  BY <1>1
<1>5. stop \in Nat /\ stop + 2 <= end
  <2>1. stop # end /\ stop + 1 # end
    BY <1>4 DEF Unfinished
  <2> QED
    BY <1>0, <1>3, <2>1
<1> DEFINE b == [k \in 1 .. n |-> m[start + 1 + k]]
<1>6. ASSUME NEW k \in 1 .. n PROVE b[k] = m[start + 1 + k] /\ b[k] \in Int /\ IsDigit(b[k]) /\ b[k] <= Digit(0)
  <2>1. start + 1 + k \in Memory
    BY <1>0, <1>3 DEF Memory
  <2> QED
    BY <1>3, <2>1 DEF IsDigit
<1> HIDE DEF b
<1>7. ASSUME NEW f
      PROVE  Spells(f, b, n) <=>
               f = [k \in 0 .. n |-> IF k = 0 THEN 0
                                     ELSE f[k - 1] * 10 + (Digit(0) - m[start + 1 + k])]
  <2>1. [k \in 0 .. n |-> IF k = 0 THEN 0 ELSE f[k - 1] * 10 + (Digit(0) - b[k])]
          = [k \in 0 .. n |-> IF k = 0 THEN 0
                              ELSE f[k - 1] * 10 + (Digit(0) - m[start + 1 + k])]
    BY <1>3, <1>6
  <2> QED
    BY <2>1 DEF Spells
<1>8. PICK f : Spells(f, b, n)
  BY <1>3, <1>6, Spelling
<1>9. number = [k \in 0 .. n |-> IF k = 0 THEN 0
                       ELSE number[k - 1] * 10 + (Digit(0) - m[start + 1 + k])]
  <2>1. f = [k \in 0 .. n |-> IF k = 0 THEN 0
                              ELSE f[k - 1] * 10 + (Digit(0) - m[start + 1 + k])]
    BY <1>7, <1>8
  <2> QED
    BY <2>1
<1> HIDE DEF number
<1>10. Spells(number, b, n)
  BY <1>7, <1>9
<1>11. ReadHeader(m, start, end, h, n, b, number)
  <2>1. h.end = start + n + 4 /\ start + n + 4 <= end /\ start + 2 + n = stop
    BY <1>0, <1>3, <1>4, <1>5
  <2> QED
    BY <1>3, <1>4, <1>6, <1>10, <2>1 DEF ReadHeader
<1> QED
  BY <1>11

\* it has a size and ends before the data does
LEMMA ParsedHeader ==
  ASSUME NEW m \in [Memory -> Int], NEW start \in Nat, NEW end \in 0 .. BufferSize,
         NEW h, h = ParseChunkHeader(m, start, end), h.is \notin {"malformed", "more"}
  PROVE  h.size \in Nat /\ h.end \in Nat /\ start <= h.end /\ h.end <= end
<1>1. PICK n, b, number : ReadHeader(m, start, end, h, n, b, number)
  BY HeaderIsRead
<1>2. /\ n \in Nat /\ start + n + 4 <= end /\ Spells(number, b, n)
      /\ h.size = number[n] /\ h.end = start + n + 4
      /\ \A k \in 1 .. n : b[k] \in Int /\ b[k] <= Digit(0)
  BY <1>1 DEF ReadHeader, IsDigit
<1>3. \A k \in 0 .. n : number[k] \in Nat
  BY <1>2, Spelling, Zenon
<1> QED
  BY <1>2, <1>3

\* what is left when a header is taken out of the buffer is still in it
LEMMA DropHeaderKeeps ==
  ASSUME NEW m \in [Memory -> Int], NEW from \in Nat, NEW rest \in Nat,
         NEW start, start = from + rest,
         NEW stop \in Nat, start <= stop, NEW end \in 0 .. BufferSize, stop <= end,
         NEW d, d = DropHeader(m, from, rest, start, stop, end)
  PROVE  d.mem \in [Memory -> Int] /\ d.end \in 0 .. BufferSize /\ d.from \in 0 .. d.end
<1>0. /\ BufferSize \in Nat /\ Word \in Nat /\ Word > 0 /\ end \in Nat /\ start \in Nat
      /\ end <= BufferSize /\ from <= start
  BY Parameters
<1>1. CASE end > stop + Word
  <2> DEFINE mm == CASE rest = 0 -> m
                     [] rest \in 1 .. Word -> Moved(m, stop - Word, start - Word, Word)
                     [] OTHER -> Moved(m, stop - rest, from, rest)
  <2>1. d = [mem |-> mm, from |-> from + (stop - start), end |-> end]
    BY <1>1 DEF DropHeader
  <2>2. Moved(m, stop - Word, start - Word, Word) \in [Memory -> Int]
    BY <1>0, <1>1, MovedKeeps
  <2>3. Moved(m, stop - rest, from, rest) \in [Memory -> Int]
    BY <1>0, <1>1, MovedKeeps
  <2>4. mm \in [Memory -> Int]
    BY <2>2, <2>3
  <2> QED
    BY <1>0, <2>1, <2>4
<1>2. CASE ~(end > stop + Word)
  <2>1. d = [mem |-> Moved(m, start, stop, Word), from |-> from, end |-> end - (stop - start)]
    BY <1>2 DEF DropHeader
  <2>2. Moved(m, start, stop, Word) \in [Memory -> Int]
    BY <1>0, MovedKeeps
  <2> QED
    BY <1>0, <2>1, <2>2
<1> QED
  BY <1>1, <1>2

-----------------------------------------------------------------------------
(* The containers left open, and the wire.                                 *)

\* the offsets of open containers sum up to a number
LEMMA UnreadIsAhead ==
  ASSUME eOfs \in [0 .. MaxNested -> Nat], depth \in 0 .. MaxNested,
         dataPtr \in Int, contentEnd \in Int
  PROVE  /\ Unread \in Int /\ Unread >= contentEnd - dataPtr
         /\ depth = 0 => Unread = contentEnd - dataPtr
<1> DEFINE Unwinds(f) == f = [d \in 0 .. depth |-> IF d = 0 THEN 0 ELSE f[d - 1] + eOfs[d]]
           unwound == CHOOSE f : Unwinds(f)
<1>0. depth \in Nat
  BY Parameters
<1> DEFINE st == [k \in 1 .. depth |-> [v \in Nat |-> v + eOfs[k]]]
<1>a. \A k \in 1 .. depth : eOfs[k] \in Nat
  BY Parameters
<1>b. st \in [1 .. depth -> [Nat -> Nat]] /\ \A k \in 1 .. depth, v \in Nat : st[k][v] = v + eOfs[k]
  BY <1>a
<1> HIDE DEF st
<1>1. \E f : Unwinds(f)
  <2>1. PICK f : Iterates(f, Nat, 0, depth, st)
    BY <1>0, <1>b, 0 \in Nat, IterationExists, Zenon
  <2>2. ASSUME NEW d \in 0 .. depth
        PROVE  f[d] = IF d = 0 THEN 0 ELSE f[d - 1] + eOfs[d]
    <3>1. d # 0 => d \in 1 .. depth /\ f[d - 1] \in Nat
      BY <1>0, <2>1 DEF Iterates
    <3>2. d # 0 => f[d] = st[d][f[d - 1]]
      BY <2>1, <3>1 DEF Iterates
    <3> QED
      BY <1>b, <2>1, <3>1, <3>2 DEF Iterates
  <2>3. Unwinds(f)
    <3>1. f = [d \in 0 .. depth |-> f[d]]
      BY <2>1 DEF Iterates
    <3>2. [d \in 0 .. depth |-> f[d]]
            = [d \in 0 .. depth |-> IF d = 0 THEN 0 ELSE f[d - 1] + eOfs[d]]
      BY <2>2
    <3> QED
      BY <3>1, <3>2
  <2> QED
    BY <2>3
<1>2. Unwinds(unwound)
  BY <1>1
<1>3. Unread = contentEnd + unwound[depth] - dataPtr
  BY DEF Unread
<1> HIDE DEF unwound
<1>4. unwound[0] = 0
  BY <1>0, <1>2
<1>5. ASSUME NEW k \in 1 .. depth, unwound[k - 1] \in Nat PROVE unwound[k] \in Nat
  <2>1. k \in 0 .. depth /\ k # 0
    BY <1>0
  <2>2. unwound[k] = unwound[k - 1] + eOfs[k]
    BY <1>2, <2>1
  <2> QED
    BY <1>a, <1>5, <2>2
<1>6. unwound[depth] \in Nat
  <2>1. \A k \in 0 .. depth : unwound[k] \in Nat
    <3>1. /\ unwound[0] \in Nat
          /\ \A k \in 1 .. depth : unwound[k - 1] \in Nat => unwound[k] \in Nat
      BY <1>4, <1>5
    <3> QED
      BY <1>0, <3>1, ValuesStay, Zenon
  <2> QED
    BY <1>0, <2>1
<1> QED
  BY <1>3, <1>4, <1>6

-----------------------------------------------------------------------------
(* The responses.                                                          *)

Chunks == Seq([size : Nat, zeros : Nat])

\* a chunk has a size and a number of zeros
LEMMA ChunkOf ==
  ASSUME NEW cs \in Chunks
  PROVE  /\ Len(cs) \in Nat /\ DOMAIN cs = 1 .. Len(cs)
         /\ \A i \in 1 .. Len(cs) : cs[i].size \in Nat /\ cs[i].zeros \in Nat
<1>1. cs \in Seq([size : Nat, zeros : Nat])
  BY DEF Chunks
<1>2. \A i \in 1 .. Len(cs) : cs[i] \in [size : Nat, zeros : Nat]
  BY <1>1, ElementOfSeq
<1>3. \A i \in 1 .. Len(cs) : cs[i].size \in Nat /\ cs[i].zeros \in Nat
  BY <1>2
<1>4. Len(cs) \in Nat /\ DOMAIN cs = 1 .. Len(cs)
  BY <1>1
<1> QED
  BY <1>3, <1>4

\* two sequences of bytes, one behind the other
LEMMA Joined ==
  ASSUME NEW s \in Seq(Int), NEW t \in Seq(Int)
  PROVE  /\ s \o t \in Seq(Int) /\ Len(s \o t) = Len(s) + Len(t)
         /\ Len(s) \in Nat /\ Len(t) \in Nat
         /\ \A i \in 1 .. Len(s) : (s \o t)[i] = s[i]
         /\ \A i \in 1 .. Len(t) : (s \o t)[Len(s) + i] = t[i]
<1>1. /\ s \o t \in Seq(Int) /\ Len(s \o t) = Len(s) + Len(t)
      /\ \A i \in 1 .. Len(s) + Len(t) :
            (s \o t)[i] = IF i <= Len(s) THEN s[i] ELSE t[i - Len(s)]
  BY ConcatProperties
<1>2. Len(s) \in Nat /\ Len(t) \in Nat
  OBVIOUS
<1>3. ASSUME NEW i \in 1 .. Len(s) PROVE (s \o t)[i] = s[i]
  BY <1>1, <1>2
<1>4. ASSUME NEW i \in 1 .. Len(t) PROVE (s \o t)[Len(s) + i] = t[i]
  <2>1. Len(s) + i \in 1 .. Len(s) + Len(t) /\ ~(Len(s) + i <= Len(s)) /\ (Len(s) + i) - Len(s) = i
    BY <1>2
  <2> QED
    BY <1>1, <2>1
<1> QED
  BY <1>1, <1>2, <1>3, <1>4

\* bytes that are numbered
LEMMA NumberedBytes ==
  ASSUME NEW s \in Nat, NEW q \in Nat
  PROVE  /\ [k \in 1 .. s |-> q + k] \in Seq(Int)
         /\ Len([k \in 1 .. s |-> q + k]) = s
OBVIOUS

\* the payload of the first chunks adds up
LEMMA PayloadAddsUp ==
  ASSUME NEW cs \in Chunks
  PROVE  /\ PayloadOf(cs)[0] = 0
         /\ \A i \in 1 .. Len(cs) : PayloadOf(cs)[i] = PayloadOf(cs)[i - 1] + cs[i].size
         /\ \A i \in 0 .. Len(cs) : PayloadOf(cs)[i] \in Nat
<1> DEFINE n == Len(cs)
           Adds(f) == f = [i \in 0 .. n |-> IF i = 0 THEN 0 ELSE f[i - 1] + cs[i].size]
           st == [k \in 1 .. n |-> [v \in Nat |-> v + cs[k].size]]
<1>1. n \in Nat /\ \A k \in 1 .. n : cs[k].size \in Nat
  BY ChunkOf
<1>2. st \in [1 .. n -> [Nat -> Nat]] /\ \A k \in 1 .. n, v \in Nat : st[k][v] = v + cs[k].size
  BY <1>1
<1> HIDE DEF n, st
<1>3. PICK f : Iterates(f, Nat, 0, n, st)
  BY <1>1, <1>2, 0 \in Nat, IterationExists, Zenon
<1>4. ASSUME NEW i \in 0 .. n PROVE f[i] = IF i = 0 THEN 0 ELSE f[i - 1] + cs[i].size
  <2>1. i # 0 => i \in 1 .. n /\ f[i - 1] \in Nat
    BY <1>1, <1>3 DEF Iterates
  <2>2. i # 0 => f[i] = st[i][f[i - 1]]
    BY <1>3, <2>1 DEF Iterates
  <2> QED
    BY <1>2, <1>3, <2>1, <2>2 DEF Iterates
<1>5. Adds(f)
  <2>1. f = [i \in 0 .. n |-> f[i]]
    BY <1>3 DEF Iterates
  <2>2. [i \in 0 .. n |-> f[i]] = [i \in 0 .. n |-> IF i = 0 THEN 0 ELSE f[i - 1] + cs[i].size]
    BY <1>4
  <2> QED
    BY <2>1, <2>2
<1>6. PayloadOf(cs) = CHOOSE g : Adds(g)
  BY DEF PayloadOf, n
<1>7. Adds(PayloadOf(cs))
  BY <1>5, <1>6
<1> DEFINE p == PayloadOf(cs)
<1> HIDE DEF p
<1>8. Adds(p)
  BY <1>7 DEF p
<1>9. p[0] = 0
  BY <1>1, <1>8
<1>10. ASSUME NEW i \in 1 .. n PROVE p[i] = p[i - 1] + cs[i].size
  BY <1>1, <1>8
<1>11. p[0] \in Nat /\ \A k \in 1 .. n : p[k - 1] \in Nat => p[k] \in Nat
  BY <1>1, <1>9, <1>10
<1>12. \A i \in 0 .. n : p[i] \in Nat
  BY <1>1, <1>11, ValuesStay, Zenon
<1> QED
  BY <1>9, <1>10, <1>12 DEF p, n

\* what a header is made of
LEMMA HeaderBytes ==
  ASSUME NEW n \in Nat, NEW z \in Nat
  PROVE  /\ Header(n, z) \in Seq(Int) /\ Len(Header(n, z)) = z + 5
         /\ Header(n, z)[1] = CR /\ Header(n, z)[2] = LF
         /\ \A i \in 1 .. z : Header(n, z)[i + 2] = Digit(0)
         /\ Header(n, z)[z + 3] = Digit(n)
         /\ Header(n, z)[z + 4] = CR /\ Header(n, z)[z + 5] = LF
<1> DEFINE a == <<CR, LF>>
           b == [i \in 1 .. z |-> Digit(0)]
           c == <<Digit(n), CR, LF>>
           ab == a \o b
           h == ab \o c
<1>1. a \in Seq(Int) /\ Len(a) = 2 /\ a[1] = CR /\ a[2] = LF
  BY DEF CR, LF
<1>2. b \in Seq(Int) /\ Len(b) = z /\ \A i \in 1 .. z : b[i] = Digit(0)
  BY DEF Digit
<1>3. c \in Seq(Int) /\ Len(c) = 3 /\ c[1] = Digit(n) /\ c[2] = CR /\ c[3] = LF
  BY DEF CR, LF, Digit
<1> HIDE DEF a, b, c
<1>4. /\ ab \in Seq(Int) /\ Len(ab) = z + 2
      /\ ab[1] = CR /\ ab[2] = LF /\ \A i \in 1 .. z : ab[i + 2] = Digit(0)
  <2>1. /\ ab \in Seq(Int) /\ Len(ab) = Len(a) + Len(b)
        /\ \A i \in 1 .. Len(a) : ab[i] = a[i]
        /\ \A i \in 1 .. Len(b) : ab[Len(a) + i] = b[i]
    BY <1>1, <1>2, Joined
  <2> HIDE DEF ab
  <2>2. ab[1] = CR /\ ab[2] = LF
    BY <1>1, <2>1
  <2>3. ASSUME NEW i \in 1 .. z PROVE ab[i + 2] = Digit(0)
    <3>1. ab[Len(a) + i] = b[i] /\ Len(a) + i = i + 2
      BY <1>1, <1>2, <2>1
    <3> QED
      BY <1>2, <3>1
  <2> QED
    BY <1>1, <1>2, <2>1, <2>2, <2>3
<1> HIDE DEF ab
<1>5. /\ h \in Seq(Int) /\ Len(h) = Len(ab) + Len(c)
      /\ \A i \in 1 .. Len(ab) : h[i] = ab[i]
      /\ \A i \in 1 .. Len(c) : h[Len(ab) + i] = c[i]
  BY <1>3, <1>4, Joined
<1>6. \A i \in 1 .. z + 2 : h[i] = ab[i]
  BY <1>4, <1>5
<1> HIDE DEF h
<1>7. h[z + 3] = c[1] /\ h[z + 4] = c[2] /\ h[z + 5] = c[3]
  <2>1. \A i \in 1 .. 3 : h[(z + 2) + i] = c[i]
    BY <1>3, <1>4, <1>5
  <2> QED
    BY <2>1
<1>a. Len(h) = z + 5
  BY <1>3, <1>4, <1>5
<1>8. h[1] = CR /\ h[2] = LF
  BY <1>4, <1>6
<1>9. \A i \in 1 .. z : h[i + 2] = Digit(0)
  BY <1>4, <1>6
<1>10. Header(n, z) = h
  BY DEF Header, h, ab, a, b, c
<1> QED
  BY <1>3, <1>5, <1>7, <1>8, <1>9, <1>10, <1>a

\* a chunk with its header
Piece(cs, i) == Header(cs[i].size, cs[i].zeros)
                \o [k \in 1 .. cs[i].size |-> PayloadOf(cs)[i - 1] + k]

\* its bytes
LEMMA PieceBytes ==
  ASSUME NEW cs \in Chunks, NEW i \in 1 .. Len(cs)
  PROVE  /\ Piece(cs, i) \in Seq(Int)
         /\ Len(Piece(cs, i)) = cs[i].zeros + 5 + cs[i].size
         /\ \A j \in 1 .. cs[i].zeros + 5 :
               Piece(cs, i)[j] = Header(cs[i].size, cs[i].zeros)[j]
         /\ \A k \in 1 .. cs[i].size :
               Piece(cs, i)[cs[i].zeros + 5 + k] = PayloadOf(cs)[i - 1] + k
<1> DEFINE n == cs[i].size
           z == cs[i].zeros
           h == Header(n, z)
           q == PayloadOf(cs)[i - 1]
           b == [k \in 1 .. n |-> q + k]
<1>1. n \in Nat /\ z \in Nat
  BY ChunkOf
<1>2. q \in Nat
  <2>1. i - 1 \in 0 .. Len(cs)
    BY ChunkOf
  <2> QED
    BY <2>1, PayloadAddsUp
<1> HIDE DEF n, z, q
<1>3. h \in Seq(Int) /\ Len(h) = z + 5
  BY <1>1, HeaderBytes
<1>4. b \in Seq(Int) /\ Len(b) = n /\ \A k \in 1 .. n : b[k] = q + k
  BY <1>1, <1>2
<1>5. Piece(cs, i) = h \o b
  BY DEF Piece, n, z, q
<1> HIDE DEF h, b
<1>6. /\ h \o b \in Seq(Int) /\ Len(h \o b) = Len(h) + Len(b)
      /\ \A j \in 1 .. Len(h) : (h \o b)[j] = h[j]
      /\ \A k \in 1 .. Len(b) : (h \o b)[Len(h) + k] = b[k]
  BY <1>3, <1>4, Joined
<1> QED
  BY <1>1, <1>3, <1>4, <1>5, <1>6 DEF n, z, q, h

\* the first chunks are laid one behind the other
LEMMA BytesOfChunks ==
  ASSUME NEW cs \in Chunks
  PROVE  /\ BytesOf(cs)[0] = <<>>
         /\ \A i \in 1 .. Len(cs) : BytesOf(cs)[i] = BytesOf(cs)[i - 1] \o Piece(cs, i)
         /\ \A i \in 0 .. Len(cs) : BytesOf(cs)[i] \in Seq(Int)
<1> DEFINE n == Len(cs)
           head(i) == Header(cs[i].size, cs[i].zeros)
           body(i) == [k \in 1 .. cs[i].size |-> PayloadOf(cs)[i - 1] + k]
           Lays(f) == f = [i \in 0 .. n |-> IF i = 0 THEN <<>>
                                           ELSE f[i - 1] \o head(i) \o body(i)]
           st == [k \in 1 .. n |-> [v \in Seq(Int) |-> v \o Piece(cs, k)]]
<1>1. n \in Nat /\ \A i \in 1 .. n : cs[i].size \in Nat /\ cs[i].zeros \in Nat
  BY ChunkOf
<1>2. \A k \in 1 .. n : Piece(cs, k) \in Seq(Int)
  BY PieceBytes
<1>3. \A i \in 1 .. n : head(i) \in Seq(Int)
  BY <1>1, HeaderBytes
<1>4. \A i \in 1 .. n : body(i) \in Seq(Int)
  <2> SUFFICES ASSUME NEW i \in 1 .. n PROVE body(i) \in Seq(Int)
    OBVIOUS
  <2>1. i - 1 \in 0 .. Len(cs)
    BY <1>1
  <2> DEFINE q == PayloadOf(cs)[i - 1]
             m == cs[i].size
  <2>2. q \in Nat /\ m \in Nat
    BY <1>1, <2>1, PayloadAddsUp
  <2>3. body(i) = [k \in 1 .. m |-> q + k]
    OBVIOUS
  <2> HIDE DEF q, m
  <2>4. [k \in 1 .. m |-> q + k] \in Seq(Int)
    BY <2>2, NumberedBytes, Zenon
  <2> QED
    BY <2>3, <2>4
<1>5. \A i \in 1 .. n : Piece(cs, i) = head(i) \o body(i)
  BY DEF Piece
<1> HIDE DEF n, head, body
<1>6. ASSUME NEW i \in 1 .. n, NEW v \in Seq(Int)
      PROVE  /\ v \o Piece(cs, i) \in Seq(Int)
             /\ v \o head(i) \o body(i) = v \o Piece(cs, i)
  <2>1. head(i) \in Seq(Int) /\ body(i) \in Seq(Int) /\ Piece(cs, i) = head(i) \o body(i)
    BY <1>3, <1>4, <1>5
  <2>2. (v \o head(i)) \o body(i) = v \o (head(i) \o body(i))
    BY <2>1, ConcatAssociative
  <2> QED
    BY <1>2, <2>1, <2>2, Joined
<1>7. st \in [1 .. n -> [Seq(Int) -> Seq(Int)]]
  BY <1>6
<1>8. \A k \in 1 .. n, v \in Seq(Int) : st[k][v] = v \o Piece(cs, k)
  OBVIOUS
<1> HIDE DEF st
<1>9. <<>> \in Seq(Int)
  OBVIOUS
<1>10. PICK f : Iterates(f, Seq(Int), <<>>, n, st)
  BY <1>1, <1>7, <1>9, IterationExists, Zenon
<1>11. ASSUME NEW i \in 0 .. n
       PROVE  f[i] = IF i = 0 THEN <<>> ELSE f[i - 1] \o head(i) \o body(i)
  <2>1. CASE i = 0
    BY <2>1, <1>10 DEF Iterates
  <2>2. CASE i # 0
    <3>1. i \in 1 .. n /\ i - 1 \in 0 .. n
      BY <1>1, <2>2
    <3>2. f[i - 1] \in Seq(Int) /\ f[i] = st[i][f[i - 1]]
      BY <1>10, <3>1 DEF Iterates
    <3>3. f[i] = f[i - 1] \o Piece(cs, i)
      BY <1>8, <3>1, <3>2
    <3> QED
      BY <1>6, <2>2, <3>1, <3>2, <3>3
  <2> QED
    BY <2>1, <2>2
<1>12. Lays(f)
  <2>1. f = [i \in 0 .. n |-> f[i]]
    BY <1>10 DEF Iterates
  <2>2. [i \in 0 .. n |-> f[i]]
          = [i \in 0 .. n |-> IF i = 0 THEN <<>> ELSE f[i - 1] \o head(i) \o body(i)]
    BY <1>11
  <2> QED
    BY <2>1, <2>2
<1>13. BytesOf(cs) = CHOOSE g : Lays(g)
  BY DEF BytesOf, n, head, body
<1>14. Lays(BytesOf(cs))
  BY <1>12, <1>13
<1> DEFINE b == BytesOf(cs)
<1> HIDE DEF b
<1>15. b = [i \in 0 .. n |-> IF i = 0 THEN <<>> ELSE b[i - 1] \o head(i) \o body(i)]
  BY <1>14 DEF b
<1>16. b[0] = <<>>
  <2>1. 0 \in 0 .. n
    BY <1>1
  <2> QED
    BY <1>15, <2>1
<1>17. ASSUME NEW i \in 1 .. n PROVE b[i] = b[i - 1] \o head(i) \o body(i)
  <2>1. i \in 0 .. n /\ i # 0
    BY <1>1
  <2> QED
    BY <1>15, <2>1
<1>18. ASSUME NEW k \in 1 .. n, b[k - 1] \in Seq(Int) PROVE b[k] \in Seq(Int)
  BY <1>6, <1>17, <1>18
<1>19. \A i \in 0 .. n : b[i] \in Seq(Int)
  <2>1. b[0] \in Seq(Int) /\ \A k \in 1 .. n : b[k - 1] \in Seq(Int) => b[k] \in Seq(Int)
    BY <1>9, <1>16, <1>18
  <2> QED
    BY <1>1, <2>1, ValuesStay, Zenon
<1>20. ASSUME NEW i \in 1 .. n PROVE b[i] = b[i - 1] \o Piece(cs, i)
  <2>1. i - 1 \in 0 .. n
    BY <1>1
  <2>2. b[i - 1] \in Seq(Int)
    BY <1>19, <2>1
  <2> QED
    BY <1>6, <1>17, <2>2
<1> QED
  BY <1>16, <1>19, <1>20 DEF b, n

\* where the header of chunk i + 1 starts
StartOf(cs, i) == Len(BytesOf(cs)[i])

\* which is behind the chunk before it
LEMMA StartsFollow ==
  ASSUME NEW cs \in Chunks
  PROVE  /\ StartOf(cs, 0) = 0
         /\ \A i \in 0 .. Len(cs) : StartOf(cs, i) \in Nat
         /\ \A i \in 1 .. Len(cs) :
               StartOf(cs, i) = StartOf(cs, i - 1) + cs[i].zeros + 5 + cs[i].size
<1>1. ASSUME NEW i \in 0 .. Len(cs) PROVE BytesOf(cs)[i] \in Seq(Int)
  BY BytesOfChunks
<1>2. ASSUME NEW i \in 1 .. Len(cs)
      PROVE  StartOf(cs, i) = StartOf(cs, i - 1) + cs[i].zeros + 5 + cs[i].size
  <2>1. i - 1 \in 0 .. Len(cs)
    BY ChunkOf
  <2>2. Piece(cs, i) \in Seq(Int) /\ Len(Piece(cs, i)) = cs[i].zeros + 5 + cs[i].size
    BY PieceBytes
  <2>3. BytesOf(cs)[i] = BytesOf(cs)[i - 1] \o Piece(cs, i)
    BY BytesOfChunks
  <2>4. BytesOf(cs)[i - 1] \in Seq(Int)
    BY <1>1, <2>1
  <2>5. Len(BytesOf(cs)[i - 1] \o Piece(cs, i)) = Len(BytesOf(cs)[i - 1]) + Len(Piece(cs, i))
    BY <2>2, <2>4, Joined, Zenon
  <2> DEFINE x == StartOf(cs, i)
             y == StartOf(cs, i - 1)
             z == cs[i].zeros
             n == cs[i].size
  <2>6. y \in Nat /\ z \in Nat /\ n \in Nat
    BY <2>4, ChunkOf DEF StartOf
  <2>7. x = y + Len(Piece(cs, i)) /\ Len(Piece(cs, i)) = z + 5 + n
    <3>1. Len(BytesOf(cs)[i]) = Len(BytesOf(cs)[i - 1]) + Len(Piece(cs, i))
      BY <2>3, <2>5
    <3> QED
      BY <2>2, <3>1 DEF StartOf
  <2> HIDE DEF x, y, z, n
  <2>8. x = y + z + 5 + n
    BY <2>6, <2>7
  <2> QED
    BY <2>8 DEF x, y, z, n
<1>3. StartOf(cs, 0) = 0
  <2>1. BytesOf(cs)[0] = <<>>
    BY BytesOfChunks
  <2> QED
    BY <2>1 DEF StartOf
<1>4. ASSUME NEW i \in 0 .. Len(cs) PROVE StartOf(cs, i) \in Nat
  BY <1>1 DEF StartOf
<1> QED
  BY <1>2, <1>3, <1>4

\* what was laid stays where it is when more is laid behind it
LEMMA BytesStay ==
  ASSUME NEW cs \in Chunks, NEW i \in 0 .. Len(cs), NEW j \in 0 .. Len(cs), i <= j
  PROVE  /\ StartOf(cs, i) <= StartOf(cs, j)
         /\ \A p \in 1 .. StartOf(cs, i) : BytesOf(cs)[j][p] = BytesOf(cs)[i][p]
<1> DEFINE Stays(m) == /\ StartOf(cs, i) <= StartOf(cs, m)
                       /\ \A p \in 1 .. StartOf(cs, i) : BytesOf(cs)[m][p] = BytesOf(cs)[i][p]
           S == {d \in Nat : i + d <= Len(cs) => Stays(i + d)}
<1>0. Len(cs) \in Nat /\ i \in Nat /\ j \in Nat
  BY ChunkOf
<1>1. 0 \in S
  <2>1. StartOf(cs, i) \in Nat /\ i + 0 = i
    BY <1>0, StartsFollow
  <2>2. Stays(i)
    BY <2>1
  <2> QED
    BY <2>1, <2>2
<1>2. ASSUME NEW d \in Nat, d \in S PROVE d + 1 \in S
  <2> SUFFICES ASSUME i + (d + 1) <= Len(cs) PROVE Stays(i + (d + 1))
    OBVIOUS
  <2> DEFINE m == i + (d + 1)
  <2>1. m \in 1 .. Len(cs) /\ m - 1 = i + d /\ m - 1 \in 0 .. Len(cs) /\ i + d <= Len(cs)
    BY <1>0
  <2>2. Stays(m - 1)
    BY <1>2, <2>1
  <2> HIDE DEF m, S
  <2>3. BytesOf(cs)[m] = BytesOf(cs)[m - 1] \o Piece(cs, m)
    BY <2>1, BytesOfChunks
  <2>4. BytesOf(cs)[m - 1] \in Seq(Int) /\ Piece(cs, m) \in Seq(Int)
    BY <2>1, BytesOfChunks, PieceBytes
  <2>5. /\ StartOf(cs, m) = StartOf(cs, m - 1) + Len(Piece(cs, m))
        /\ Len(Piece(cs, m)) \in Nat /\ StartOf(cs, m - 1) \in Nat
        /\ \A p \in 1 .. StartOf(cs, m - 1) : BytesOf(cs)[m][p] = BytesOf(cs)[m - 1][p]
    BY <2>3, <2>4, Joined DEF StartOf
  <2>6. StartOf(cs, i) \in Nat
    BY <1>0, StartsFollow
  <2>7. \A p \in 1 .. StartOf(cs, i) : p \in 1 .. StartOf(cs, m - 1)
    BY <2>2, <2>5, <2>6
  <2>8. \A p \in 1 .. StartOf(cs, i) : BytesOf(cs)[m][p] = BytesOf(cs)[i][p]
    BY <2>2, <2>5, <2>7
  <2>9. StartOf(cs, i) <= StartOf(cs, m)
    BY <2>2, <2>5, <2>6
  <2>10. Stays(m)
    BY <2>8, <2>9
  <2> QED
    BY <2>10 DEF m
<1> HIDE DEF S
<1>3. j - i \in S
  <2>1. j - i \in Nat
    BY <1>0
  <2> QED
    BY <1>1, <1>2, <2>1, InductionOnNat
<1>4. Stays(j)
  <2>1. i + (j - i) = j /\ i + (j - i) <= Len(cs)
    BY <1>0
  <2> QED
    BY <1>3, <2>1 DEF S
<1> QED
  BY <1>4

\* the response that is being read
Responds(w) == w \in Wires /\ chunked = w.chunked /\ wire = Body(w)
Response == CHOOSE w : Responds(w)
WireInv == \E w : Responds(w)

\* the header of a chunk of n bytes, written with z zeros, starts at p
HeaderAt(p, n, z) ==
    /\ p + z + 5 <= Len(wire)
    /\ wire[p + 1] = CR /\ wire[p + 2] = LF
    /\ \A i \in 1 .. z : wire[p + 2 + i] = Digit(0)
    /\ wire[p + z + 3] = Digit(n) /\ wire[p + z + 4] = CR /\ wire[p + z + 5] = LF

\* at p a header starts, and q bytes of payload come before it
Turn(p, q) ==
    \E i \in 0 .. Len(Response.chunks) :
        p = StartOf(Response.chunks, i) /\ q = PayloadOf(Response.chunks)[i]

\* the header of a chunk that is not the last, and the chunk behind it
FullTurn(p, q, n, z) ==
    /\ HeaderAt(p, n, z)
    /\ \A k \in 1 .. n : wire[p + z + 5 + k] = q + k
    /\ Turn(p + z + 5 + n, q + n)

\* the whole payload of a response in chunks
Whole == PayloadOf(Response.chunks)[Len(Response.chunks)]

\* the header of the chunk that ends the response
LastTurn(p) == HeaderAt(p, 0, 0) /\ Len(wire) = p + 7

\* the chunks of a response are what the parameters say
LEMMA ResponseChunks ==
  ASSUME WireInv
  PROVE  /\ Responds(Response) /\ Response.chunks \in Chunks /\ Response.chunks # <<>>
         /\ chunked => \A i \in 1 .. Len(Response.chunks) :
               Response.chunks[i].size \in 1 .. 9 /\ Response.chunks[i].zeros \in 0 .. 2
<1>1. Responds(Response)
  BY DEF WireInv, Response
<1>2. Response \in Wires /\ (chunked => Response.chunked)
  BY <1>1 DEF Responds
<1>3. Response.chunks \in Chunks /\ Response.chunks # <<>>
  BY <1>2, ReaderAssumption DEF Chunks
<1>4. chunked => \A i \in DOMAIN Response.chunks :
        Response.chunks[i].size \in 1 .. 9 /\ Response.chunks[i].zeros \in 0 .. 2
  BY <1>2, ReaderAssumption
<1>5. DOMAIN Response.chunks = 1 .. Len(Response.chunks)
  BY <1>3, ChunkOf
<1> QED
  BY <1>1, <1>3, <1>4, <1>5

\* a response that is not in chunks is its payload
LEMMA PlainWire ==
  ASSUME WireInv, ~chunked
  PROVE  wire \in Seq(Int) /\ \A k \in 1 .. Len(wire) : wire[k] = k
<1> DEFINE n == Response.chunks[1].size
<1>1. wire = [i \in 1 .. n |-> i]
  BY ResponseChunks DEF Responds, Body
<1>2. n \in Nat
  <2>1. Len(Response.chunks) \in Nat /\ Len(Response.chunks) # 0
    BY ResponseChunks, ChunkOf DEF Chunks
  <2> QED
    BY <2>1, ResponseChunks, ChunkOf
<1> HIDE DEF n
<1> QED
  BY <1>1, <1>2

\* what a response in chunks is made of
LEMMA ChunkedWire ==
  ASSUME WireInv, chunked
  PROVE  LET cs == Response.chunks IN
         /\ wire \in Seq(Int) /\ Len(wire) = StartOf(cs, Len(cs)) + 7
         /\ \A p \in 1 .. StartOf(cs, Len(cs)) : wire[p] = BytesOf(cs)[Len(cs)][p]
         /\ LastTurn(StartOf(cs, Len(cs)))
<1> DEFINE cs == Response.chunks
           b == BytesOf(cs)[Len(cs)]
           s == StartOf(cs, Len(cs))
           h == Header(0, 0)
           e == <<CR, LF>>
<1>1. cs \in Chunks /\ wire = b \o h \o e
  BY ResponseChunks DEF Responds, Body, ChunkedBytes
<1>2. b \in Seq(Int) /\ s \in Nat /\ Len(b) = s
  <2>1. Len(cs) \in 0 .. Len(cs)
    BY <1>1, ChunkOf
  <2> QED
    BY <1>1, <2>1, BytesOfChunks, StartsFollow DEF StartOf
<1>3. /\ h \in Seq(Int) /\ Len(h) = 5
      /\ h[1] = CR /\ h[2] = LF /\ h[3] = Digit(0) /\ h[4] = CR /\ h[5] = LF
  <2>1. 0 \in Nat /\ 0 + 5 = 5 /\ 0 + 3 = 3 /\ 0 + 4 = 4
    OBVIOUS
  <2> QED
    BY <2>1, HeaderBytes
<1>4. e \in Seq(Int) /\ Len(e) = 2
  BY DEF CR, LF
<1> HIDE DEF b, h, e, s, cs
<1>5. /\ b \o h \in Seq(Int) /\ Len(b \o h) = s + 5
      /\ \A p \in 1 .. s : (b \o h)[p] = b[p]
      /\ \A p \in 1 .. 5 : (b \o h)[s + p] = h[p]
  <2>1. /\ b \o h \in Seq(Int) /\ Len(b \o h) = Len(b) + Len(h)
        /\ \A p \in 1 .. Len(b) : (b \o h)[p] = b[p]
        /\ \A p \in 1 .. Len(h) : (b \o h)[Len(b) + p] = h[p]
    BY <1>2, <1>3, Joined
  <2> QED
    BY <1>2, <1>3, <2>1
<1> DEFINE bh == b \o h
<1> HIDE DEF bh
<1>6. /\ wire \in Seq(Int) /\ Len(wire) = s + 7
      /\ \A p \in 1 .. s + 5 : wire[p] = bh[p]
  <2>1. bh \in Seq(Int) /\ Len(bh) = s + 5 /\ wire = bh \o e
    BY <1>1, <1>5 DEF bh
  <2>2. Len(bh \o e) = Len(bh) + Len(e)
    BY <1>4, <2>1, Joined
  <2> QED
    BY <1>2, <1>4, <2>1, <2>2, Joined
<1>7. \A p \in 1 .. s : wire[p] = b[p]
  BY <1>2, <1>5, <1>6 DEF bh
<1>8. \A p \in 1 .. 5 : wire[s + p] = h[p]
  <2> SUFFICES ASSUME NEW p \in 1 .. 5 PROVE wire[s + p] = h[p]
    OBVIOUS
  <2>1. s + p \in 1 .. s + 5
    BY <1>2
  <2> QED
    BY <1>5, <1>6, <2>1 DEF bh
<1>9. LastTurn(s)
  <2>1. wire[s + 1] = CR /\ wire[s + 2] = LF /\ wire[s + 3] = Digit(0)
        /\ wire[s + 4] = CR /\ wire[s + 5] = LF
    BY <1>3, <1>8
  <2>2. s + 0 + 5 <= Len(wire) /\ s + 0 + 3 = s + 3 /\ s + 0 + 4 = s + 4 /\ s + 0 + 5 = s + 5
    BY <1>2, <1>6
  <2> QED
    BY <1>6, <2>1, <2>2 DEF LastTurn, HeaderAt
<1> QED
  BY <1>6, <1>7, <1>9 DEF b, s, cs

\* from one header to the next
LEMMA TurnLeads ==
  ASSUME WireInv, chunked, NEW p, NEW q, Turn(p, q)
  PROVE  /\ p \in Nat /\ q \in Nat
         /\ (LastTurn(p) /\ q = Whole) \/ \E n \in 1 .. 9, z \in 0 .. 2 : FullTurn(p, q, n, z)
<1> DEFINE cs == Response.chunks
<1>1. PICK i \in 0 .. Len(cs) : p = StartOf(cs, i) /\ q = PayloadOf(cs)[i]
  BY DEF Turn
<1>2. cs \in Chunks /\ Len(cs) \in Nat
  BY ResponseChunks, ChunkOf
<1>3. p \in Nat /\ q \in Nat
  BY <1>1, <1>2, StartsFollow, PayloadAddsUp
<1>4. CASE i = Len(cs)
  BY <1>1, <1>3, <1>4, ChunkedWire DEF Whole
<1>5. CASE i # Len(cs)
  <2> DEFINE c == i + 1
             n == cs[c].size
             z == cs[c].zeros
             h == Header(n, z)
  <2>1. c \in 1 .. Len(cs) /\ c \in 0 .. Len(cs) /\ c - 1 = i /\ c - 1 \in 0 .. Len(cs)
    BY <1>2, <1>5
  <2>2. n \in 1 .. 9 /\ z \in 0 .. 2 /\ n \in Nat /\ z \in Nat
    <3>1. \A j \in 1 .. Len(cs) : cs[j].size \in 1 .. 9 /\ cs[j].zeros \in 0 .. 2
      BY ResponseChunks
    <3>2. n \in 1 .. 9 /\ z \in 0 .. 2
      BY <2>1, <3>1
    <3> HIDE DEF n, z
    <3> QED
      BY <3>2
  <2>3. StartOf(cs, c) = p + z + 5 + n /\ PayloadOf(cs)[c] = q + n
    BY <1>1, <1>2, <2>1, StartsFollow, PayloadAddsUp
  <2>4. /\ Piece(cs, c) \in Seq(Int) /\ Len(Piece(cs, c)) = z + 5 + n
        /\ \A j \in 1 .. z + 5 : Piece(cs, c)[j] = h[j]
        /\ \A k \in 1 .. n : Piece(cs, c)[z + 5 + k] = q + k
    <3>1. cs \in Chunks /\ c \in 1 .. Len(cs) /\ q = PayloadOf(cs)[c - 1]
      BY <1>1, <1>2, <2>1
    <3> HIDE DEF cs, c
    <3> QED
      BY <3>1, PieceBytes, Zenon
  <2>5. /\ Len(h) = z + 5 /\ h[1] = CR /\ h[2] = LF
        /\ \A j \in 1 .. z : h[j + 2] = Digit(0)
        /\ h[z + 3] = Digit(n) /\ h[z + 4] = CR /\ h[z + 5] = LF
    BY <2>2, HeaderBytes
  <2>6. Turn(p + z + 5 + n, q + n)
    BY <2>1, <2>3 DEF Turn
  <2> HIDE DEF c, n, z, h, cs
  <2>7. /\ BytesOf(cs)[c] = BytesOf(cs)[i] \o Piece(cs, c)
        /\ BytesOf(cs)[i] \in Seq(Int)
    BY <1>2, <2>1, BytesOfChunks
  <2>8. \A j \in 1 .. z + 5 + n : BytesOf(cs)[c][p + j] = Piece(cs, c)[j]
    BY <1>1, <2>4, <2>7, Joined DEF StartOf
  <2>9. /\ \A x \in 1 .. StartOf(cs, c) : wire[x] = BytesOf(cs)[c][x]
        /\ StartOf(cs, c) + 7 <= Len(wire)
    <3>1. /\ StartOf(cs, c) <= StartOf(cs, Len(cs))
          /\ \A x \in 1 .. StartOf(cs, c) : BytesOf(cs)[Len(cs)][x] = BytesOf(cs)[c][x]
      <4>1. Len(cs) \in 0 .. Len(cs) /\ c <= Len(cs)
        BY <1>2, <2>1
      <4> QED
        BY <1>2, <2>1, <4>1, BytesStay
    <3>2. StartOf(cs, c) \in Nat /\ StartOf(cs, Len(cs)) \in Nat
      <4>1. Len(cs) \in 0 .. Len(cs)
        BY <1>2
      <4> QED
        BY <1>2, <2>1, <4>1, StartsFollow
    <3>3. /\ Len(wire) = StartOf(cs, Len(cs)) + 7
          /\ \A x \in 1 .. StartOf(cs, Len(cs)) : wire[x] = BytesOf(cs)[Len(cs)][x]
      BY ChunkedWire DEF cs
    <3>4. \A x \in 1 .. StartOf(cs, c) : x \in 1 .. StartOf(cs, Len(cs))
      BY <3>1, <3>2
    <3> QED
      BY <3>1, <3>2, <3>3, <3>4
  <2>10. ASSUME NEW j \in 1 .. z + 5 + n PROVE wire[p + j] = Piece(cs, c)[j]
    <3>1. p + j \in 1 .. StartOf(cs, c)
      BY <1>3, <2>2, <2>3
    <3> QED
      BY <2>8, <2>9, <3>1
  <2>11. \A j \in 1 .. z + 5 : wire[p + j] = h[j]
    <3>1. \A j \in 1 .. z + 5 : j \in 1 .. z + 5 + n
      BY <2>2
    <3> QED
      BY <2>4, <2>10, <3>1
  <2>12. \A k \in 1 .. n : wire[p + z + 5 + k] = q + k
    <3> SUFFICES ASSUME NEW k \in 1 .. n PROVE wire[p + z + 5 + k] = q + k
      OBVIOUS
    <3>1. z + 5 + k \in 1 .. z + 5 + n /\ p + (z + 5 + k) = p + z + 5 + k
      BY <1>3, <2>2
    <3> QED
      BY <2>4, <2>10, <3>1
  <2>13. HeaderAt(p, n, z)
    <3>1. p + z + 5 <= Len(wire)
      BY <1>3, <2>2, <2>3, <2>9
    <3>2. wire[p + 1] = CR /\ wire[p + 2] = LF
      BY <2>2, <2>5, <2>11
    <3>3. ASSUME NEW j \in 1 .. z PROVE wire[p + 2 + j] = Digit(0)
      <4>1. j + 2 \in 1 .. z + 5 /\ p + (j + 2) = p + 2 + j
        BY <1>3, <2>2
      <4> QED
        BY <2>5, <2>11, <4>1
    <3>4. wire[p + z + 3] = Digit(n) /\ wire[p + z + 4] = CR /\ wire[p + z + 5] = LF
      <4>1. /\ z + 3 \in 1 .. z + 5 /\ z + 4 \in 1 .. z + 5 /\ z + 5 \in 1 .. z + 5
            /\ p + (z + 3) = p + z + 3 /\ p + (z + 4) = p + z + 4 /\ p + (z + 5) = p + z + 5
        BY <1>3, <2>2
      <4> QED
        BY <2>5, <2>11, <4>1
    <3> QED
      BY <3>1, <3>2, <3>3, <3>4 DEF HeaderAt
  <2>14. FullTurn(p, q, n, z)
    BY <2>6, <2>12, <2>13 DEF FullTurn
  <2> QED
    BY <1>3, <2>2, <2>14
<1> QED
  BY <1>4, <1>5

\* the first header comes first
LEMMA FirstTurn ==
  ASSUME WireInv, chunked
  PROVE  Turn(0, 0)
<1>1. Response.chunks \in Chunks /\ 0 \in 0 .. Len(Response.chunks)
  BY ResponseChunks, ChunkOf
<1> QED
  BY <1>1, StartsFollow, PayloadAddsUp DEF Turn

-----------------------------------------------------------------------------
(* What the reader keeps between two steps.                                *)

\* the call under way goes on here when it has its bytes
Phase == IF pc \in InCall THEN call.then ELSE pc

\* the place up to which the reader has come, or will be when the call returns
Place == IF pc \in InCall THEN call.end
         ELSE IF pc = "copying" THEN call.from ELSE dataPtr

\* and how many bytes of payload come before it
Passed == IF pc \in InCall THEN pos + call.want ELSE pos

InContent == {"user", "opening", "skipping", "closing", "copying"}

\* the variables have their types, whatever the reader does
StoreInv ==
    /\ WireInv /\ mem \in [Memory -> Int]
    /\ taken \in 0..Len(wire) /\ streamDataEnd \in 0..BufferSize
    /\ {dataPtr, dataEnd, dataEnd0, contentEnd, chunkEnd, pos} \subseteq Int
    /\ depth \in 0..MaxNested /\ eOfs \in [0..MaxNested -> Nat]
    /\ ends \in Seq(Int) /\ ends # <<>>
    /\ pc \in Idle \cup InCall \cup {"copying", "threw", "malformed"}

\* no call under way: each barrier is below the one that bounds it
BarrierInv ==
    pc \in Idle \cup {"copying"} =>
        /\ Place \in 0..dataEnd
        /\ dataEnd <= dataEnd0 /\ dataEnd0 <= streamDataEnd
        /\ chunked => dataEnd0 <= chunkEnd
        /\ pc \in InContent => dataEnd <= contentEnd
        /\ pc \in {"copying", "unread"} => {call.left, call.want} \subseteq Nat

CallRecord == [skip : BOOLEAN, from : Nat, size : Nat, remaining : Nat, hdr : Nat,
               end : Int, want : Nat, left : Nat, then : Idle \cup {"copying"}]

\* a call under way knows what it still needs and where it stands
CallInv ==
    pc \in InCall =>
        /\ call \in CallRecord /\ call.from <= streamDataEnd
        /\ call.hdr >= HeaderMin /\ call.end <= contentEnd
        /\ pc = "fill" => call.remaining >= call.size
        /\ pc # "fill" => chunked /\ call.remaining < call.size
        /\ pc = "chunk" => call.skip
        /\ pc = "header" /\ call.skip => call.remaining = 0
        /\ ~call.skip => call.want = call.size
        /\ call.then = "copying" => ~call.skip

\* how many containers the offsets saved are for
Open == IF Phase = "closing" THEN depth + 1 ELSE depth

\* the content in hand ends where the sizes that were read put it
ContentInv ==
    Phase \in InContent =>
        /\ contentEnd - Place = Last(ends) - Passed
        /\ Place <= contentEnd
        /\ Open <= MaxNested /\ Len(ends) = Open + 1
        /\ \A d \in 1..Open : eOfs[d - 1] = ends[d] - ends[d + 1]

\* between two messages, unless one was left with containers open
MessageInv ==
    /\ Phase = "unread" => pc = "unread"
    /\ Phase \in {"unread", "between"} => Len(ends) = 1
    /\ pc = "unread" => pos + call.want = ends[1]
    /\ Phase = "between" => Passed = ends[1]


ReaderInv == StoreInv /\ BarrierInv /\ CallInv /\ ContentInv

\* the response is bytes
LEMMA WireBytes ==
  ASSUME WireInv
  PROVE  wire \in Seq(Int) /\ chunked \in BOOLEAN /\ Len(wire) \in Nat
<1>1. chunked \in BOOLEAN
  <2>1. Responds(Response)
    BY ResponseChunks
  <2> QED
    BY <2>1, ReaderAssumption DEF Responds
<1>2. wire \in Seq(Int)
  BY <1>1, PlainWire, ChunkedWire
<1> QED
  BY <1>1, <1>2

\* the types that StoreInv and BarrierInv give
LEMMA StoreTypes ==
  ASSUME StoreInv
  PROVE  /\ wire \in Seq(Int) /\ chunked \in BOOLEAN /\ Len(wire) \in Nat
         /\ mem \in [Memory -> Int]
         /\ taken \in Nat /\ taken <= Len(wire)
         /\ streamDataEnd \in Nat /\ streamDataEnd <= BufferSize /\ BufferSize \in Nat
         /\ dataPtr \in Int /\ dataEnd \in Int /\ dataEnd0 \in Int /\ contentEnd \in Int
         /\ chunkEnd \in Int /\ pos \in Int /\ depth \in Nat /\ MaxNested \in Nat
         /\ Last(ends) \in Int /\ Len(ends) \in Nat /\ Len(ends) > 0
<1>1. Last(ends) \in Int /\ Len(ends) \in Nat /\ Len(ends) > 0
  BY DEF StoreInv, Last
<1> QED
  BY <1>1, WireBytes, Parameters DEF StoreInv

\* of them those that are numbers
LEMMA StoreNumbers ==
  ASSUME StoreInv
  PROVE  /\ chunked \in BOOLEAN /\ taken \in Nat
         /\ streamDataEnd \in Nat /\ streamDataEnd <= BufferSize /\ BufferSize \in Nat
         /\ dataPtr \in Int /\ dataEnd \in Int /\ dataEnd0 \in Int /\ contentEnd \in Int
         /\ chunkEnd \in Int /\ pos \in Int /\ depth \in Nat /\ MaxNested \in Nat
BY StoreTypes

\* and those that CallInv gives
LEMMA CallTypes ==
  ASSUME CallInv, pc \in InCall
  PROVE  /\ call.skip \in BOOLEAN /\ call.from \in Nat /\ call.from <= streamDataEnd
         /\ call.size \in Nat /\ call.remaining \in Nat /\ call.want \in Nat
         /\ call.left \in Nat /\ call.hdr \in Nat /\ call.hdr >= 5
         /\ call.end \in Int /\ call.end <= contentEnd
         /\ call.then \in Idle \cup {"copying"}
         /\ ~call.skip => call.want = call.size
         /\ call.then = "copying" => ~call.skip
<1>1. call \in CallRecord
  BY DEF CallInv
<1> QED
  BY <1>1 DEF CallInv, CallRecord, HeaderMin

\* its bytes start in the buffer
LEMMA CallStarts ==
  ASSUME StoreInv, CallInv, pc \in InCall
  PROVE  call.from \in 0 .. streamDataEnd
<1>1. streamDataEnd \in Nat
  BY StoreNumbers
<1> QED
  BY <1>1, CallTypes

\* a read or skip that crosses the barrier
LEMMA CrossStarts ==
  ASSUME chunked \in BOOLEAN, contentEnd \in Int, chunkEnd \in Int,
         NEW from \in 0 .. streamDataEnd, NEW n \in Nat, NEW skip \in BOOLEAN,
         NEW left \in Nat, NEW then \in Idle \cup {"copying"},
         chunked => from <= chunkEnd, then = "copying" => ~skip,
         streamDataEnd' = streamDataEnd, contentEnd' = contentEnd, chunked' = chunked,
         Cross(from, n, skip, left, then)
  PROVE  /\ pc' \in InCall \cup {"threw"}
         /\ CallInv'
         /\ pc' \in InCall => /\ call'.then = then /\ call'.end = from + n
                              /\ call'.want = n /\ call'.left = left /\ from + n <= contentEnd
<1>1. CASE from + n > contentEnd
  BY <1>1 DEF Cross, CallInv, InCall
<1>2. CASE ~(from + n > contentEnd)
  <2> DEFINE rest == IF chunked THEN chunkEnd - from ELSE n
  <2>1. /\ call' = [skip |-> skip, from |-> from, size |-> n, remaining |-> rest,
                    hdr |-> HeaderMin, end |-> from + n, want |-> n, left |-> left,
                    then |-> then]
        /\ pc' = IF rest >= n THEN "fill" ELSE IF skip THEN "chunk" ELSE "header"
    BY <1>2 DEF Cross
  <2>2. rest \in Nat /\ (~chunked => rest = n) /\ from \in Nat
    OBVIOUS
  <2> HIDE DEF rest
  <2>3. /\ call'.skip = skip /\ call'.from = from /\ call'.size = n
        /\ call'.remaining = rest /\ call'.hdr = HeaderMin /\ call'.end = from + n
        /\ call'.want = n /\ call'.left = left /\ call'.then = then
    BY <2>1
  <2>4. /\ pc' \in InCall
        /\ pc' = "fill" => rest >= n
        /\ pc' # "fill" => chunked /\ rest < n
        /\ pc' = "chunk" => skip
        /\ pc' = "header" => ~skip
    BY <2>1, <2>2 DEF InCall
  <2>5. call'.from <= streamDataEnd' /\ call' \in CallRecord
    BY <2>1, <2>2, <2>3 DEF HeaderMin, CallRecord
  <2>6. CallInv'
    BY <1>2, <2>2, <2>3, <2>4, <2>5 DEF CallInv, HeaderMin
  <2> QED
    BY <1>2, <2>3, <2>4, <2>6
<1> QED
  BY <1>1, <1>2

\* a read or skip of n bytes goes on at "then", there or when its call returns
LEMMA AccessGoesOn ==
  ASSUME ReaderInv, pc \in Idle, NEW n \in Nat, NEW skip \in BOOLEAN,
         NEW then \in Idle \ {"unread"}, then \in InContent => pc \in InContent,
         Access(n, skip, then), depth' \in 0 .. MaxNested, eOfs' = eOfs
  PROVE  /\ StoreInv' /\ BarrierInv' /\ CallInv'
         /\ ends' = ends /\ contentEnd' = contentEnd
         /\ pc' # "threw" => /\ Phase' = then
                             /\ Place' = dataPtr + n /\ Passed' = pos + n
                             /\ then \in InContent => Place' <= contentEnd'
<1>1. StoreInv /\ BarrierInv
  BY DEF ReaderInv
<1>2. /\ pc \notin InCall /\ pc # "copying" /\ Place = dataPtr
      /\ then \notin InCall /\ then \notin {"copying", "threw", "unread"}
  BY DEF Idle, InCall, Place
<1>3. /\ dataPtr \in 0 .. dataEnd /\ dataEnd <= dataEnd0 /\ dataEnd0 <= streamDataEnd
      /\ chunked => dataEnd0 <= chunkEnd
      /\ then \in InContent => dataEnd <= contentEnd
  BY <1>1, <1>2 DEF BarrierInv
<1>4. /\ UNCHANGED <<chunked, wire, streamDataEnd, taken, dataEnd, dataEnd0,
                     contentEnd, chunkEnd, ends>>
  BY DEF Access
<1>5. WireInv'
  BY <1>1, <1>4 DEF StoreInv, WireInv, Responds
<1>6. CASE dataPtr + n <= dataEnd
  <2>1. /\ dataPtr' = dataPtr + n /\ pos' = pos + n /\ pc' = then
        /\ mem' = Live(mem, dataPtr + n, streamDataEnd)
    BY <1>6 DEF Access
  <2>2. mem' \in [Memory -> Int]
    BY <1>1, <2>1, LiveKeeps DEF StoreInv
  <2>3. Place' = dataPtr + n /\ Phase' = then /\ Passed' = pos + n
    BY <1>2, <2>1 DEF Place, Phase, Passed
  <2>4. pos' \in Int /\ dataPtr' \in Int
    <3>1. pos \in Int /\ dataPtr \in Int
      BY <1>1, StoreNumbers
    <3> QED
      BY <2>1, <3>1
  <2>5. StoreInv'
    BY <1>1, <1>4, <1>5, <2>1, <2>2, <2>4 DEF StoreInv
  <2>6. dataPtr + n \in 0 .. dataEnd /\ (then \in InContent => dataPtr + n <= contentEnd)
    BY <1>1, <1>3, <1>6, StoreNumbers
  <2>7. BarrierInv'
    BY <1>2, <1>3, <1>4, <2>1, <2>3, <2>6 DEF BarrierInv
  <2>8. CallInv'
    BY <1>2, <2>1 DEF CallInv
  <2> QED
    BY <1>4, <2>3, <2>5, <2>6, <2>7, <2>8
<1>7. CASE ~(dataPtr + n <= dataEnd)
  <2>1. UNCHANGED <<mem, dataPtr, pos>> /\ Cross(dataPtr, n, skip, 0, then)
    BY <1>7 DEF Access
  <2>2. dataPtr \in 0 .. streamDataEnd /\ (chunked => dataPtr <= chunkEnd)
    BY <1>1, <1>3, StoreNumbers
  <2>3. /\ pc' \in InCall \cup {"threw"} /\ CallInv'
        /\ pc' \in InCall => /\ call'.then = then /\ call'.end = dataPtr + n
                             /\ call'.want = n /\ dataPtr + n <= contentEnd
    BY <1>1, <1>2, <1>4, <2>1, <2>2, StoreNumbers, CrossStarts
  <2>4. StoreInv'
    BY <1>1, <1>4, <1>5, <2>1, <2>3 DEF StoreInv
  <2>5. BarrierInv'
    BY <2>3 DEF BarrierInv, Idle, InCall
  <2>6. pc' # "threw" => /\ Phase' = then /\ Place' = dataPtr + n /\ Passed' = pos + n
    BY <2>1, <2>3 DEF Phase, Place, Passed
  <2> QED
    BY <1>4, <2>3, <2>4, <2>5, <2>6
<1> QED
  BY <1>6, <1>7

\* a call that returns leaves the reader where it said it would be
LEMMA FinishReturns ==
  ASSUME StoreInv, CallInv, pc = "fill", NEW r, NEW rest,
         Buffered(r, IF call.skip THEN 0 ELSE call.size),
         rest = IF call.skip THEN call.remaining - call.size ELSE call.remaining,
         Finish(r, rest), depth \in 0 .. MaxNested
  PROVE  /\ StoreInv' /\ BarrierInv' /\ CallInv'
         /\ ends' = ends /\ depth' = depth /\ eOfs' = eOfs
         /\ Phase' = Phase /\ Place' <= contentEnd'
         /\ contentEnd' - Place' = contentEnd - Place + (Passed - Passed')
         /\ Passed' \in Int /\ Place' \in Int /\ contentEnd' \in Int
         /\ Phase # "copying" => Passed' = Passed
<1> DEFINE ptr == IF call.skip THEN r.from ELSE r.from + call.want
           copying == call.then = "copying"
           chunk == r.from + rest
           data == IF chunked THEN Minimum(chunk, r.end) ELSE r.end
           content == contentEnd + ptr - call.end
           place == IF copying THEN r.from ELSE ptr
<1>1. /\ taken' = r.taken /\ streamDataEnd' = r.end
      /\ chunkEnd' = (IF chunked THEN chunk ELSE chunkEnd)
      /\ contentEnd' = content /\ dataEnd0' = data /\ dataEnd' = Minimum(content, data)
      /\ mem' = Live(r.mem, place, r.end) /\ dataPtr' = place
      /\ pos' = (IF copying THEN pos ELSE pos + call.want)
      /\ pc' = call.then
      /\ call' = (IF copying THEN [NoCall EXCEPT !.from = r.from, !.left = call.left] ELSE NoCall)
      /\ UNCHANGED <<chunked, wire, nesting, ends>>
  BY DEF Finish, ContentAt, Within
<1>2. /\ call.skip \in BOOLEAN /\ call.size \in Nat /\ call.remaining \in Nat
      /\ call.want \in Nat /\ call.left \in Nat /\ call.end \in Int /\ call.end <= contentEnd
      /\ call.then \in Idle \cup {"copying"} /\ call.remaining >= call.size
      /\ (~call.skip => call.want = call.size) /\ (copying => ~call.skip)
  <2>1. call.remaining >= call.size
    BY DEF CallInv, InCall
  <2> QED
    BY <2>1, CallTypes DEF InCall
<1>3. /\ r.mem \in [Memory -> Int] /\ r.end \in Nat /\ r.end <= BufferSize
      /\ r.taken \in 0 .. Len(wire) /\ r.from \in Nat
      /\ r.from + (IF call.skip THEN 0 ELSE call.size) <= r.end
  <2>1. BufferSize \in Nat
    BY StoreNumbers
  <2> QED
    BY <2>1 DEF Buffered
<1>a. contentEnd \in Int /\ chunkEnd \in Int /\ pos \in Int /\ chunked \in BOOLEAN
  BY StoreNumbers
<1>4. /\ ptr \in Nat /\ ptr <= r.end /\ place \in Nat /\ place <= ptr
      /\ rest \in Nat /\ chunk \in Nat /\ ptr <= chunk
      /\ content \in Int /\ ptr <= content
  <2>1. CASE call.skip
    <3>1. ptr = r.from /\ place = r.from /\ rest = call.remaining - call.size
      BY <1>2, <2>1
    <3>2. rest \in Nat /\ ptr \in Nat /\ ptr <= r.end
      BY <1>2, <1>3, <3>1
    <3> QED
      BY <1>2, <1>a, <3>1, <3>2
  <2>2. CASE ~call.skip
    <3>1. ptr = r.from + call.size /\ rest = call.remaining /\ place \in {r.from, ptr}
      BY <1>2, <2>2
    <3>2. rest \in Nat /\ ptr \in Nat /\ ptr <= r.end
      BY <1>2, <1>3, <2>2, <3>1
    <3>3. place \in Nat /\ place <= ptr
      BY <1>2, <1>3, <3>1, <3>2
    <3>4. chunk \in Nat /\ ptr <= chunk
      <4>1. r.from \in Nat /\ call.size \in Nat /\ call.remaining \in Nat /\ call.size <= call.remaining
        BY <1>2, <1>3
      <4>2. chunk = r.from + call.remaining /\ ptr = r.from + call.size
        BY <3>1
      <4> HIDE DEF chunk, ptr
      <4> QED
        BY <4>1, <4>2
    <3> QED
      BY <1>2, <1>a, <3>2, <3>3, <3>4
  <2> QED
    BY <1>2, <2>1, <2>2
<1>5. data \in Nat /\ ptr <= data /\ data <= r.end /\ (chunked => data <= chunk)
  BY <1>3, <1>4 DEF Minimum
<1>6. /\ Minimum(content, data) \in Int /\ ptr <= Minimum(content, data)
      /\ Minimum(content, data) <= data /\ Minimum(content, data) <= content
  BY <1>4, <1>5 DEF Minimum
<1>7. pc' \notin InCall /\ Phase = call.then /\ Phase' = call.then
  BY <1>1, <1>2 DEF Phase, Idle, InCall
<1>8. Place' = place /\ Passed' = pos'
  <2>1. CASE copying
    <3>1. call'.from = r.from
      BY <1>1, <2>1 DEF NoCall
    <3> QED
      BY <1>1, <1>7, <2>1, <3>1 DEF Place, Passed
  <2>2. CASE ~copying
    BY <1>1, <1>7, <2>2 DEF Place, Passed
  <2> QED
    BY <2>1, <2>2
<1>9. Place = call.end /\ Passed = pos + call.want
  BY DEF Place, Passed, InCall
<1>10. StoreInv'
  <2>1. WireInv'
    BY <1>1 DEF StoreInv, WireInv, Responds
  <2>2. mem' \in [Memory -> Int]
    BY <1>1, <1>3, LiveKeeps
  <2>3. taken' \in 0 .. Len(wire') /\ streamDataEnd' \in 0 .. BufferSize
    BY <1>1, <1>3
  <2>4. /\ dataPtr' \in Int /\ dataEnd' \in Int /\ dataEnd0' \in Int
        /\ contentEnd' \in Int /\ chunkEnd' \in Int /\ pos' \in Int
    <3>1. dataPtr' \in Int /\ dataEnd' \in Int /\ dataEnd0' \in Int /\ contentEnd' \in Int
      BY <1>1, <1>4, <1>5, <1>6
    <3>2. chunkEnd' \in Int
      BY <1>1, <1>4, <1>a
    <3>3. pos' \in Int
      BY <1>1, <1>2, <1>a
    <3> QED
      BY <3>1, <3>2, <3>3
  <2>5. depth' = depth /\ eOfs' = eOfs /\ ends' = ends
    BY <1>1 DEF nesting
  <2>6. pc' \in Idle \cup {"copying"}
    BY <1>1, <1>2
  <2> QED
    BY <2>1, <2>2, <2>3, <2>4, <2>5, <2>6 DEF StoreInv
<1>11. BarrierInv'
  <2>1. Place' \in 0 .. dataEnd'
    BY <1>1, <1>4, <1>6, <1>8
  <2>2. dataEnd' <= dataEnd0' /\ dataEnd0' <= streamDataEnd' /\ dataEnd' <= contentEnd'
    BY <1>1, <1>5, <1>6
  <2>3. chunked' => dataEnd0' <= chunkEnd'
    BY <1>1, <1>5
  <2>4. {call'.left, call'.want} \subseteq Nat
    <3>1. CASE copying
      BY <1>1, <1>2, <3>1 DEF NoCall
    <3>2. CASE ~copying
      BY <1>1, <3>2 DEF NoCall
    <3> QED
      BY <3>1, <3>2
  <2> QED
    BY <2>1, <2>2, <2>3, <2>4 DEF BarrierInv
<1>12. CallInv'
  BY <1>7 DEF CallInv
<1>13. contentEnd' - Place' = contentEnd - Place + (Passed - Passed')
  <2>1. CASE copying
    <3>1. place = r.from /\ ptr = r.from + call.want /\ pos' = pos
      BY <1>1, <1>2, <2>1
    <3>2. contentEnd' = contentEnd + (r.from + call.want) - call.end
      BY <1>1, <3>1
    <3>3. Place' = r.from /\ Passed' = pos /\ Place = call.end /\ Passed = pos + call.want
      BY <1>1, <1>8, <1>9, <3>1
    <3>4. r.from \in Int /\ call.want \in Int /\ call.end \in Int
      BY <1>2, <1>3
    <3>5. \A c, a, w, e, p \in Int : c + (a + w) - e - a = c - e + (p + w - p)
      OBVIOUS
    <3> QED
      BY <1>a, <3>2, <3>3, <3>4, <3>5
  <2>2. CASE ~copying
    <3>1. place = ptr /\ pos' = pos + call.want
      BY <1>1, <2>2
    <3> QED
      BY <1>1, <1>2, <1>4, <1>8, <1>9, <1>a, <3>1
  <2> QED
    BY <2>1, <2>2
<1>14. Place' <= contentEnd' /\ Place' \in Int /\ contentEnd' \in Int
  BY <1>1, <1>4, <1>8
<1>15. Passed' \in Int /\ (Phase # "copying" => Passed' = Passed)
  BY <1>1, <1>2, <1>7, <1>8, <1>9, StoreNumbers
<1> QED
  BY <1>1, <1>7, <1>10, <1>11, <1>12, <1>13, <1>14, <1>15 DEF nesting

\* the content stays in place when a step keeps the containers and moves the
\* reader in it
LEMMA ContentStays ==
  ASSUME StoreInv, ContentInv, Phase' \in InContent => Phase \in InContent,
         Phase' \in InContent =>
            /\ contentEnd' - Place' = contentEnd - Place + (Passed - Passed')
            /\ Place' <= contentEnd' /\ Passed' \in Int /\ Place' \in Int
            /\ Place \in Int /\ Passed \in Int /\ contentEnd' \in Int,
         Phase' \in InContent => Open' = Open, ends' = ends, eOfs' = eOfs
  PROVE  ContentInv'
<1> SUFFICES ASSUME Phase' \in InContent
             PROVE  /\ contentEnd' - Place' = Last(ends) - Passed'
                    /\ Place' <= contentEnd'
                    /\ Open <= MaxNested /\ Len(ends) = Open + 1
                    /\ \A d \in 1 .. Open : eOfs[d - 1] = ends[d] - ends[d + 1]
  BY DEF ContentInv
<1>1. /\ contentEnd - Place = Last(ends) - Passed
      /\ Open <= MaxNested /\ Len(ends) = Open + 1
      /\ \A d \in 1 .. Open : eOfs[d - 1] = ends[d] - ends[d + 1]
  BY DEF ContentInv
<1>2. contentEnd' - Place' = Last(ends) - Passed'
  <2> DEFINE l == Last(ends)
  <2>1. l \in Int
    BY StoreTypes
  <2>2. contentEnd - Place = l - Passed /\ contentEnd' - Place' = contentEnd - Place + (Passed - Passed')
    BY <1>1
  <2> HIDE DEF l
  <2>3. contentEnd' - Place' = l - Passed + (Passed - Passed')
    BY <2>2
  <2> QED
    BY <2>1, <2>3 DEF l
<1> QED
  BY <1>1, <1>2

-----------------------------------------------------------------------------
(* Every step of the reader keeps the invariant.                           *)

\* a step of a call under way brings it no further in the message
GoesOn == ends' = ends /\ Phase' = Phase /\ (Phase # "copying" => Passed' = Passed)

\* the types of the place and of what was passed
LEMMA PlaceTypes ==
  ASSUME ReaderInv, Phase \in InContent
  PROVE  Place \in Int /\ Passed \in Int /\ contentEnd \in Int /\ Open \in Nat
<1>1. pc \in Idle \cup {"copying"} \cup InCall
  BY DEF Phase, InContent, Idle, InCall
<1>2. CASE pc \in InCall
  <2>1. Place = call.end /\ Passed = pos + call.want
    BY <1>2 DEF Place, Passed
  <2>2. call.end \in Int /\ call.want \in Nat
    BY <1>2, CallTypes DEF ReaderInv
  <2> QED
    <3>1. pos \in Int /\ depth \in Nat /\ contentEnd \in Int
      BY StoreNumbers DEF ReaderInv
    <3> QED
      BY <2>1, <2>2, <3>1 DEF Open
<1>3. CASE pc \notin InCall
  <2>1. Place \in Int
    BY <1>1, <1>3, StoreNumbers DEF ReaderInv, BarrierInv
  <2> QED
    BY <1>3, <2>1, StoreNumbers DEF ReaderInv, Passed, Open
<1> QED
  BY <1>2, <1>3

\* FillFromChunk
LEMMA FillFromChunkKeeps ==
  ASSUME ReaderInv, FillFromChunk
  PROVE  ReaderInv' /\ GoesOn
<1>1. StoreInv /\ CallInv /\ ContentInv /\ pc = "fill" /\ depth \in 0 .. MaxNested
  BY DEF ReaderInv, FillFromChunk, StoreInv
<1>2. call.from \in 0 .. streamDataEnd /\ call.size \in Nat
  BY <1>1, CallTypes, CallStarts DEF InCall
<1>3. /\ StoreInv' /\ BarrierInv' /\ CallInv'
      /\ ends' = ends /\ depth' = depth /\ eOfs' = eOfs
      /\ Phase' = Phase /\ Place' <= contentEnd'
      /\ contentEnd' - Place' = contentEnd - Place + (Passed - Passed')
      /\ Passed' \in Int /\ Place' \in Int /\ contentEnd' \in Int
      /\ Phase # "copying" => Passed' = Passed
  <2>1. CASE call.skip
    <3>1. PICK r \in SkipStream(call.from, call.size) :
             Finish(r, call.remaining - call.size)
      BY <2>1 DEF FillFromChunk
    <3>2. Buffered(r, 0)
      BY <1>1, <1>2, StoreTypes, SkipStreamBuffers DEF StoreInv
    <3> QED
      BY <1>1, <2>1, <3>1, <3>2, FinishReturns
  <2>2. CASE ~call.skip
    <3>1. PICK r \in GetFromStream(call.from, call.size) : Finish(r, call.remaining)
      BY <2>2 DEF FillFromChunk
    <3>2. Buffered(r, call.size)
      BY <1>1, <1>2, StoreTypes, GetFromStreamBuffers DEF StoreInv
    <3> QED
      BY <1>1, <2>2, <3>1, <3>2, FinishReturns
  <2> QED
    BY <2>1, <2>2
<1>5. Open' = Open
  BY <1>3 DEF Open
<1>6. ContentInv'
  BY <1>1, <1>3, <1>5, PlaceTypes, ContentStays
<1> QED
  BY <1>3, <1>6 DEF ReaderInv, GoesOn

\* SkipRestOfChunk
LEMMA SkipRestOfChunkKeeps ==
  ASSUME ReaderInv, SkipRestOfChunk
  PROVE  ReaderInv' /\ GoesOn
<1>1. StoreInv /\ CallInv /\ ContentInv /\ pc = "chunk"
  BY DEF ReaderInv, SkipRestOfChunk
<1>2. /\ call.from \in 0 .. streamDataEnd /\ call.size \in Nat /\ call.remaining \in Nat
      /\ call.remaining < call.size /\ call.skip /\ chunked /\ call \in CallRecord
  <2>1. call.remaining < call.size /\ call.skip /\ chunked /\ call \in CallRecord
    BY <1>1 DEF CallInv, InCall
  <2> QED
    BY <1>1, <2>1, CallTypes, CallStarts DEF InCall
<1>3. PICK r \in SkipStream(call.from, call.remaining) :
        /\ mem' = Live(r.mem, r.from, r.end) /\ streamDataEnd' = r.end
        /\ taken' = r.taken /\ dataPtr' = r.from
        /\ call' = [call EXCEPT !.from = r.from, !.remaining = 0, !.size = @ - call.remaining]
  BY DEF SkipRestOfChunk
<1>4. /\ pc' = "header"
      /\ UNCHANGED <<chunked, wire, dataEnd, dataEnd0, contentEnd, chunkEnd, nesting, history>>
  BY DEF SkipRestOfChunk
<1>5. Buffered(r, 0)
  BY <1>1, <1>2, StoreTypes, SkipStreamBuffers DEF StoreInv
<1>6. StoreInv'
  <2>1. WireInv'
    BY <1>1, <1>4 DEF StoreInv, WireInv, Responds
  <2>2. mem' \in [Memory -> Int]
    BY <1>3, <1>5, LiveKeeps DEF Buffered
  <2>3. dataPtr' \in Int /\ streamDataEnd' \in 0 .. BufferSize /\ taken' \in 0 .. Len(wire)
    BY <1>3, <1>5 DEF Buffered
  <2> QED
    BY <1>1, <1>4, <2>1, <2>2, <2>3 DEF StoreInv, nesting, history, InCall
<1>7. CallInv'
  <2>1. /\ call'.skip = call.skip /\ call'.from = r.from /\ call'.size = call.size - call.remaining
        /\ call'.remaining = 0 /\ call'.hdr = call.hdr /\ call'.end = call.end
        /\ call'.want = call.want /\ call'.left = call.left /\ call'.then = call.then
    BY <1>2, <1>3 DEF CallRecord
  <2>2. call.size - call.remaining \in Nat /\ r.from \in Nat /\ r.from <= r.end
    BY <1>2, <1>5 DEF Buffered
  <2>3. call' \in CallRecord
    BY <1>2, <1>3, <2>2 DEF CallRecord
  <2> QED
    BY <1>1, <1>2, <1>3, <1>4, <2>1, <2>2, <2>3 DEF CallInv, InCall
<1>8. BarrierInv'
  BY <1>4 DEF BarrierInv, Idle
<1>9. Place' = Place /\ Passed' = Passed /\ Phase' = Phase /\ Open' = Open
  BY <1>1, <1>2, <1>3, <1>4 DEF Place, Passed, Phase, Open, InCall, nesting, history, CallRecord
<1>10. ContentInv'
  BY <1>1, <1>4, <1>9 DEF ContentInv, nesting, history
<1> QED
  BY <1>4, <1>6, <1>7, <1>8, <1>9, <1>10 DEF ReaderInv, GoesOn, history

\* NextChunk
LEMMA NextChunkKeeps ==
  ASSUME ReaderInv, NextChunk
  PROVE  ReaderInv' /\ (pc' # "malformed" => GoesOn)
<1>1. /\ StoreInv /\ CallInv /\ ContentInv /\ pc = "header"
      /\ UNCHANGED <<chunked, wire, barriers, nesting, history>>
  BY DEF ReaderInv, NextChunk
<1>2. /\ call \in CallRecord /\ call.remaining < call.size /\ chunked
      /\ call.skip => call.remaining = 0
  BY <1>1 DEF CallInv, InCall
<1>3. /\ call.from \in 0 .. streamDataEnd /\ call.size \in Nat /\ call.remaining \in Nat
      /\ call.hdr \in Nat /\ call.hdr >= 5
  BY <1>1, CallTypes, CallStarts DEF InCall
<1>4. HeaderNeeds \in Nat /\ call.remaining <= HeaderNeeds
  BY <1>2, <1>3, Parameters DEF HeaderNeeds, Minimum
<1>5. PICK r \in GetFromStream(call.from, HeaderNeeds) :
        LET start == r.from + call.remaining
            h == ParseChunkHeader(r.mem, start, r.end)
            d == IF call.skip THEN [mem |-> r.mem, from |-> h.end, end |-> r.end]
                 ELSE DropHeader(r.mem, r.from, call.remaining, start, h.end, r.end)
            rest == call.remaining + h.size
        IN /\ taken' = r.taken
           /\ \/ /\ pc' = "malformed"
                 /\ UNCHANGED <<mem, streamDataEnd, call>>
              \/ /\ mem' = r.mem /\ streamDataEnd' = r.end
                 /\ call' = [call EXCEPT !.from = r.from, !.hdr = @ + 2]
                 /\ pc' = "header"
              \/ /\ h.is \notin {"malformed", "more"}
                 /\ mem' = Live(d.mem, d.from, d.end) /\ streamDataEnd' = d.end
                 /\ call' = [call EXCEPT !.from = d.from, !.hdr = HeaderMin, !.remaining = rest]
                 /\ pc' = IF rest >= call.size THEN "fill"
                          ELSE IF call.skip THEN "chunk" ELSE "header"
  BY DEF NextChunk
<1> DEFINE start == r.from + call.remaining
           h == ParseChunkHeader(r.mem, start, r.end)
           d == IF call.skip THEN [mem |-> r.mem, from |-> h.end, end |-> r.end]
                ELSE DropHeader(r.mem, r.from, call.remaining, start, h.end, r.end)
           rest == call.remaining + h.size
           More == /\ mem' = r.mem /\ streamDataEnd' = r.end
                   /\ call' = [call EXCEPT !.from = r.from, !.hdr = @ + 2]
                   /\ pc' = "header"
           Parsed == /\ h.is \notin {"malformed", "more"}
                     /\ mem' = Live(d.mem, d.from, d.end) /\ streamDataEnd' = d.end
                     /\ call' = [call EXCEPT !.from = d.from, !.hdr = HeaderMin, !.remaining = rest]
                     /\ pc' = IF rest >= call.size THEN "fill"
                              ELSE IF call.skip THEN "chunk" ELSE "header"
           Malformed == pc' = "malformed" /\ UNCHANGED <<mem, streamDataEnd, call>>
<1>6. taken' = r.taken /\ (Malformed \/ More \/ Parsed)
  BY <1>5
<1>7. Buffered(r, HeaderNeeds)
  BY <1>1, <1>3, <1>4, StoreTypes, GetFromStreamBuffers DEF StoreInv
<1>8. /\ r.mem \in [Memory -> Int] /\ r.end \in Nat /\ r.end <= BufferSize /\ BufferSize \in Nat
      /\ r.taken \in 0 .. Len(wire) /\ r.from \in Nat /\ r.from <= r.end
      /\ start \in Nat /\ r.from <= start /\ start <= r.end
  <2>1. /\ r.mem \in [Memory -> Int] /\ r.end \in 0 .. BufferSize
        /\ r.taken \in 0 .. Len(wire) /\ r.from \in Nat /\ r.from + HeaderNeeds <= r.end
    BY <1>7 DEF Buffered
  <2>2. BufferSize \in Nat
    BY Parameters
  <2>3. r.end \in Nat /\ r.end <= BufferSize
    BY <2>1, <2>2
  <2>4. r.from <= r.end /\ start \in Nat /\ r.from <= start /\ start <= r.end
    BY <1>3, <1>4, <2>1, <2>3
  <2> QED
    BY <2>1, <2>2, <2>3, <2>4
<1>9. Parsed => /\ h.size \in Nat /\ d.mem \in [Memory -> Int] /\ d.end \in 0 .. BufferSize
                /\ d.from \in 0 .. d.end
  <2> SUFFICES ASSUME Parsed
               PROVE  /\ h.size \in Nat /\ d.mem \in [Memory -> Int] /\ d.end \in 0 .. BufferSize
                      /\ d.from \in 0 .. d.end
    OBVIOUS
  <2>1. h.size \in Nat /\ h.end \in Nat /\ start <= h.end /\ h.end <= r.end
    BY <1>8, ParsedHeader
  <2>2. CASE call.skip
    BY <1>8, <2>1, <2>2
  <2>3. CASE ~call.skip
    <3>1. d = DropHeader(r.mem, r.from, call.remaining, start, h.end, r.end)
      BY <2>3
    <3> HIDE DEF h, d
    <3>2. r.end \in 0 .. BufferSize
      BY <1>8
    <3> QED
      BY <1>3, <1>8, <2>1, <3>1, <3>2, DropHeaderKeeps
  <2> QED
    BY <2>2, <2>3
<1> HIDE DEF h, d
<1>10. StoreInv'
  <2>1. WireInv'
    BY <1>1 DEF StoreInv, WireInv, Responds
  <2>2. mem' \in [Memory -> Int] /\ streamDataEnd' \in 0 .. BufferSize
    <3>1. CASE Malformed
      BY <1>1, <3>1 DEF StoreInv
    <3>2. CASE More
      BY <1>8, <3>2
    <3>3. CASE Parsed
      BY <1>9, <3>3, LiveKeeps
    <3> QED
      BY <1>6, <3>1, <3>2, <3>3
  <2>3. taken' \in 0 .. Len(wire) /\ pc' \in InCall \cup {"malformed"}
    BY <1>6, <1>8 DEF InCall
  <2> QED
    BY <1>1, <2>1, <2>2, <2>3 DEF StoreInv, barriers, nesting, history
<1>11. pc' # "malformed" =>
         /\ call'.end = call.end /\ call'.want = call.want /\ call'.then = call.then
         /\ call'.skip = call.skip /\ call'.size = call.size /\ pc' \in InCall
  BY <1>2, <1>6 DEF CallRecord, InCall
<1>12. CallInv'
  <2>1. CASE Malformed
    BY <2>1 DEF CallInv, InCall
  <2>2. CASE More
    <3>1. call'.from = r.from /\ call'.hdr = call.hdr + 2 /\ call'.remaining = call.remaining
      BY <1>2, <2>2 DEF CallRecord
    <3>2. call' \in CallRecord
      <4>1. call.hdr + 2 \in Nat /\ r.from \in Nat
        BY <1>3, <1>8
      <4> QED
        BY <1>2, <2>2, <4>1 DEF CallRecord
    <3> QED
      BY <1>1, <1>3, <1>8, <1>11, <2>2, <3>1, <3>2 DEF CallInv, InCall, barriers, HeaderMin
  <2>3. CASE Parsed
    <3>1. call'.from = d.from /\ call'.hdr = 5 /\ call'.remaining = rest
      BY <1>2, <2>3 DEF CallRecord, HeaderMin
    <3>2. rest \in Nat /\ d.from \in Nat /\ d.from <= d.end
      BY <1>3, <1>9, <2>3
    <3>3. call' \in CallRecord
      BY <1>2, <2>3, <3>2 DEF CallRecord, HeaderMin
    <3>4. /\ pc' = "fill" => rest >= call.size
          /\ pc' # "fill" => rest < call.size
          /\ pc' = "chunk" => call.skip
          /\ pc' = "header" => ~call.skip
      BY <1>3, <2>3, <3>2
    <3> QED
      BY <1>1, <1>2, <1>11, <2>3, <3>1, <3>2, <3>3, <3>4 DEF CallInv, InCall, barriers, HeaderMin
  <2> QED
    BY <1>6, <2>1, <2>2, <2>3
<1>13. BarrierInv'
  <2>1. pc' \in InCall \cup {"malformed"}
    BY <1>6 DEF InCall
  <2> QED
    BY <2>1 DEF BarrierInv, Idle, InCall
<1>14. pc' # "malformed" => Place' = Place /\ Passed' = Passed /\ Phase' = Phase /\ Open' = Open
  BY <1>1, <1>11 DEF Place, Passed, Phase, Open, InCall, nesting, history
<1>15. ContentInv'
  <2>1. CASE pc' = "malformed"
    BY <2>1 DEF ContentInv, Phase, InContent, InCall
  <2>2. CASE pc' # "malformed"
    BY <1>1, <1>14, <2>2 DEF ContentInv, barriers, nesting, history
  <2> QED
    BY <2>1, <2>2
<1> QED
  BY <1>1, <1>10, <1>12, <1>13, <1>14, <1>15 DEF ReaderInv, GoesOn, history

\* EndOfStream, and a reader that does nothing any more
LEMMA StopKeeps ==
  ASSUME ReaderInv, EndOfStream \/ UNCHANGED vars
  PROVE  ReaderInv'
<1>1. CASE EndOfStream
  <2>1. pc' = "threw" /\ UNCHANGED <<chunked, wire, buffers, barriers, nesting, pos, ends>>
    BY <1>1 DEF EndOfStream
  <2>2. StoreInv'
    BY <2>1 DEF ReaderInv, StoreInv, WireInv, Responds, buffers, barriers, nesting
  <2>3. BarrierInv' /\ CallInv' /\ ContentInv'
    BY <2>1 DEF BarrierInv, CallInv, ContentInv, Phase, InContent, Idle, InCall
  <2> QED
    BY <2>2, <2>3 DEF ReaderInv
<1>2. CASE UNCHANGED vars
  BY <1>2 DEF vars, buffers, barriers, nesting, history, ReaderInv, StoreInv, WireInv, Responds,
     BarrierInv, CallInv, ContentInv, Phase, Place, Passed, Open
<1> QED
  BY <1>1, <1>2

\* the place in a reader that is not in a call
LEMMA IdleTypes ==
  ASSUME ReaderInv, pc \in Idle \cup {"copying"}
  PROVE  /\ Phase = pc /\ Passed = pos /\ pc \notin InCall
         /\ Place = (IF pc = "copying" THEN call.from ELSE dataPtr)
         /\ Place \in 0 .. dataEnd /\ dataEnd <= dataEnd0 /\ dataEnd0 <= streamDataEnd
         /\ chunked => dataEnd0 <= chunkEnd
         /\ pc \in {"copying", "unread"} => call.left \in Nat /\ call.want \in Nat
         /\ pc \in InContent => /\ dataEnd <= contentEnd
                                /\ contentEnd - Place = Last(ends) - pos
                                /\ Len(ends) = Open + 1 /\ Open <= MaxNested
                                /\ \A d \in 1 .. Open : eOfs[d - 1] = ends[d] - ends[d + 1]
<1>1. pc \notin InCall
  BY DEF Idle, InCall
<1>2. Phase = pc /\ Passed = pos
  BY <1>1 DEF Phase, Passed
<1>3. Place = (IF pc = "copying" THEN call.from ELSE dataPtr)
  BY <1>1 DEF Place
<1> QED
  BY <1>1, <1>2, <1>3 DEF ReaderInv, BarrierInv, ContentInv

\* ReadSize, SkipUnread
LEMMA BetweenKeeps ==
  ASSUME ReaderInv, ReadSize \/ SkipUnread
  PROVE  ReaderInv'
<1>1. PICK n \in Nat, skip \in BOOLEAN, then \in {"sized", "between"} :
        Access(n, skip, then) /\ pc \in {"between", "unread"} /\ UNCHANGED nesting
  <2>1. CASE ReadSize
    BY <2>1 DEF ReadSize, Keep
  <2>2. CASE SkipUnread
    <3>1. pc = "unread" /\ call.want \in Nat
      BY <2>2, IdleTypes DEF SkipUnread, Idle
    <3> QED
      BY <2>2, <3>1 DEF SkipUnread, Keep
  <2> QED
    BY <2>1, <2>2
<1>2. pc \in Idle /\ then \in Idle \ {"unread"} /\ then \notin InContent
  BY <1>1 DEF Idle, InContent
<1>3. depth' \in 0 .. MaxNested /\ eOfs' = eOfs
  BY <1>1 DEF ReaderInv, StoreInv, nesting
<1>4. StoreInv' /\ BarrierInv' /\ CallInv' /\ (pc' # "threw" => Phase' = then)
  BY <1>1, <1>2, <1>3, AccessGoesOn
<1>5. ContentInv'
  BY <1>2, <1>4 DEF ContentInv, Phase, InContent, InCall
<1> QED
  BY <1>4, <1>5 DEF ReaderInv

\* a read or skip in a content
LEMMA AccessInContentKeeps ==
  ASSUME ReaderInv, pc \in {"user", "skipping"}, NEW n \in Nat, NEW skip \in BOOLEAN,
         NEW then \in {"user", "opening", "skipping", "closing"}, Access(n, skip, then),
         eOfs' = eOfs, then # "closing" => depth' = depth,
         then = "closing" => depth > 0 /\ depth' = depth - 1
  PROVE  ReaderInv'
<1>1. pc \in Idle /\ pc \in InContent /\ then \in Idle \ {"unread"}
  BY DEF Idle, InContent
<1>2. depth' \in 0 .. MaxNested
  <2>1. depth \in 0 .. MaxNested /\ MaxNested \in Nat
    BY Parameters DEF ReaderInv, StoreInv
  <2> QED
    BY <2>1
<1>3. /\ StoreInv' /\ BarrierInv' /\ CallInv'
      /\ ends' = ends /\ contentEnd' = contentEnd
      /\ pc' # "threw" => /\ Phase' = then
                          /\ Place' = dataPtr + n /\ Passed' = pos + n
                          /\ then \in InContent => Place' <= contentEnd'
  BY <1>1, <1>2, AccessGoesOn
<1>4. Place = dataPtr /\ Passed = pos /\ Phase = pc
  BY <1>1, IdleTypes DEF Idle
<1>5. CASE pc' = "threw"
  BY <1>3, <1>5 DEF ReaderInv, ContentInv, Phase, InContent, InCall
<1>6. CASE pc' # "threw"
  <2>1. Open' = Open
    BY <1>3, <1>4, <1>6, StoreNumbers DEF Open, ReaderInv
  <2>2. /\ contentEnd' - Place' = contentEnd - Place + (Passed - Passed')
        /\ Place' \in Int /\ Passed' \in Int /\ Place \in Int /\ Passed \in Int
        /\ contentEnd' \in Int
    BY <1>3, <1>4, <1>6, StoreNumbers DEF ReaderInv
  <2>3. then \in InContent
    BY DEF InContent
  <2>4. ContentInv'
    BY <1>1, <1>3, <1>4, <1>6, <2>1, <2>2, <2>3, ContentStays DEF ReaderInv
  <2> QED
    BY <1>3, <2>4 DEF ReaderInv
<1> QED
  BY <1>5, <1>6

\* Field, OpenContainer, SkipContainer, SkipContents, CloseContainer
LEMMA FieldsKeep ==
  ASSUME ReaderInv,
         Field \/ OpenContainer \/ SkipContainer \/ SkipContents \/ CloseContainer
  PROVE  ReaderInv'
<1>0. contentEnd \in Int /\ dataPtr \in Int /\ depth \in Nat
  BY StoreNumbers DEF ReaderInv
<1>1. CASE Field
  <2>1. PICK n \in Fields, skip \in BOOLEAN : Access(n, skip, "user")
    BY <1>1 DEF Field
  <2> QED
    BY <1>1, <2>1, Parameters, AccessInContentKeeps DEF Field, Keep, nesting
<1>2. CASE OpenContainer
  BY <1>2, AccessInContentKeeps DEF OpenContainer, Keep, nesting
<1>3. CASE SkipContainer
  BY <1>3, AccessInContentKeeps DEF SkipContainer, Keep, nesting
<1>4. CASE SkipContents
  <2>1. PICK s \in Lengths \cup {0} : Access(Minimum(s, contentEnd - dataPtr), TRUE, "user")
    BY <1>4 DEF SkipContents
  <2>2. pc = "skipping" /\ UNCHANGED nesting
    BY <1>4 DEF SkipContents, Keep
  <2>3. dataPtr <= contentEnd
    BY <2>2, <1>0, IdleTypes, StoreNumbers DEF Idle, InContent, ReaderInv
  <2>4. Minimum(s, contentEnd - dataPtr) \in Nat
    BY <1>0, <2>3, Parameters DEF Minimum
  <2> QED
    BY <2>1, <2>2, <2>4, AccessInContentKeeps DEF nesting
<1>5. CASE CloseContainer
  <2>1. /\ pc = "user" /\ depth > 0 /\ depth' = depth - 1 /\ eOfs' = eOfs
        /\ Access(contentEnd - dataPtr, TRUE, "closing")
    BY <1>5 DEF CloseContainer, Keep
  <2>2. dataPtr <= contentEnd
    BY <2>1, <1>0, IdleTypes, StoreNumbers DEF Idle, InContent, ReaderInv
  <2>3. contentEnd - dataPtr \in Nat
    BY <1>0, <2>2
  <2> QED
    BY <2>1, <2>3, AccessInContentKeeps
<1> QED
  BY <1>1, <1>2, <1>3, <1>4, <1>5

\* ReadString
LEMMA ReadStringKeeps ==
  ASSUME ReaderInv, ReadString
  PROVE  ReaderInv'
<1>1. PICK n \in Lengths : call' = [NoCall EXCEPT !.from = dataPtr, !.left = n]
  BY DEF ReadString
<1>2. /\ pc = "user" /\ pc' = "copying"
      /\ UNCHANGED <<chunked, wire, buffers, barriers, nesting, pos, ends>>
  BY DEF ReadString
<1>3. call'.from = dataPtr /\ call'.left \in Nat /\ call'.want = 0
  BY <1>1, Parameters DEF NoCall
<1>4. Place' = Place /\ Passed' = Passed /\ Open' = Open
  BY <1>2, <1>3 DEF Place, Passed, Open, Phase, InCall, barriers, nesting
<1>5. pc \in Idle /\ pc \in InContent
  BY <1>2 DEF Idle, InContent
<1>6. StoreInv'
  BY <1>2 DEF ReaderInv, StoreInv, WireInv, Responds, buffers, barriers, nesting
<1>7. BarrierInv'
  BY <1>2, <1>3, <1>4, <1>5 DEF ReaderInv, BarrierInv, buffers, barriers, InContent
<1>8. CallInv'
  BY <1>2 DEF CallInv, InCall
<1>9. ContentInv'
  <2>1. Phase \in InContent
    BY <1>5, IdleTypes
  <2> QED
    BY <1>2, <1>4, <2>1 DEF ReaderInv, ContentInv, barriers, nesting
<1> QED
  BY <1>6, <1>7, <1>8, <1>9 DEF ReaderInv

\* CopyBytes
LEMMA CopyBytesKeeps ==
  ASSUME ReaderInv, CopyBytes
  PROVE  ReaderInv'
<1> DEFINE have == dataEnd - call.from
<1>1. /\ pc = "copying"
      /\ UNCHANGED <<chunked, wire, streamDataEnd, taken, dataEnd, dataEnd0,
                     contentEnd, chunkEnd, nesting, ends>>
  BY DEF CopyBytes
<1>2. /\ Phase = pc /\ Place = call.from /\ Passed = pos /\ pc \in InContent
      /\ Place \in 0 .. dataEnd /\ dataEnd <= dataEnd0 /\ dataEnd0 <= streamDataEnd
      /\ chunked => dataEnd0 <= chunkEnd
      /\ dataEnd <= contentEnd /\ call.left \in Nat
  BY <1>1, IdleTypes DEF InContent
<1>3. /\ chunked \in BOOLEAN /\ dataEnd \in Int /\ dataEnd0 \in Int /\ streamDataEnd \in Nat
      /\ contentEnd \in Int /\ chunkEnd \in Int /\ pos \in Int
  BY StoreNumbers DEF ReaderInv
<1>4. StoreInv /\ ContentInv /\ WireInv'
  BY <1>1 DEF ReaderInv, StoreInv, WireInv, Responds
<1>5. have \in Nat /\ call.from \in Nat
  BY <1>2, <1>3
<1> HIDE DEF have
<1>6. CASE have >= call.left
  <2>1. /\ pos' = pos + call.left /\ dataPtr' = call.from + call.left
        /\ mem' = Live(mem, dataPtr', streamDataEnd) /\ call' = NoCall /\ pc' = "user"
    BY <1>6 DEF CopyBytes, have
  <2>2. Place' = call.from + call.left /\ Passed' = pos + call.left /\ Phase' = "user"
    BY <2>1 DEF Place, Passed, Phase, InCall
  <2>3. StoreInv'
    <3>1. mem' \in [Memory -> Int]
      BY <1>4, <2>1, LiveKeeps DEF StoreInv
    <3>2. dataPtr' \in Int /\ pos' \in Int
      BY <1>2, <1>3, <1>5, <2>1
    <3> QED
      BY <1>1, <1>4, <2>1, <3>1, <3>2 DEF StoreInv, nesting, Idle
  <2>4. Place' \in 0 .. dataEnd'
    BY <1>1, <1>2, <1>3, <1>5, <1>6, <2>2 DEF have
  <2>5. BarrierInv'
    BY <1>1, <1>2, <2>1, <2>4 DEF BarrierInv
  <2>6. CallInv'
    BY <2>1 DEF CallInv, InCall
  <2>7. ContentInv'
    <3>1. Open' = Open
      BY <1>1, <1>2, <2>2 DEF Open, nesting
    <3>2. contentEnd' - Place' = contentEnd - Place + (Passed - Passed')
      BY <1>1, <1>2, <1>3, <1>5, <2>2
    <3>3. Place' \in Int /\ Passed' \in Int /\ Place \in Int /\ Passed \in Int
          /\ contentEnd' \in Int /\ Place' <= contentEnd'
      BY <1>1, <1>2, <1>3, <1>5, <2>2, <2>4
    <3> QED
      BY <1>1, <1>2, <1>4, <3>1, <3>2, <3>3, ContentStays DEF nesting
  <2> QED
    BY <2>3, <2>5, <2>6, <2>7 DEF ReaderInv
<1>7. CASE ~(have >= call.left)
  <2>1. /\ pos' = pos + have /\ UNCHANGED <<mem, dataPtr>>
        /\ Cross(call.from + have, 1, FALSE, call.left - have, "copying")
    BY <1>7 DEF CopyBytes, have
  <2>2. call.from + have = dataEnd
    BY <1>3, <1>5 DEF have
  <2>3. dataEnd \in 0 .. streamDataEnd /\ (chunked => dataEnd <= chunkEnd)
    BY <1>2, <1>3
  <2>4. call.left - have \in Nat
    BY <1>2, <1>5, <1>7
  <2>5. /\ pc' \in InCall \cup {"threw"} /\ CallInv'
        /\ pc' \in InCall => /\ call'.then = "copying" /\ call'.end = dataEnd + 1
                             /\ call'.want = 1 /\ dataEnd + 1 <= contentEnd
    <3>1. Cross(dataEnd, 1, FALSE, call.left - have, "copying")
      BY <2>1, <2>2
    <3> QED
      BY <1>1, <1>3, <2>3, <2>4, <3>1, CrossStarts
  <2>6. StoreInv'
    <3>1. pos' \in Int
      BY <1>3, <1>5, <2>1
    <3> QED
      BY <1>1, <1>4, <2>1, <2>5, <3>1 DEF StoreInv, nesting
  <2>7. BarrierInv'
    BY <2>5 DEF BarrierInv, Idle, InCall
  <2>8. CASE pc' = "threw"
    BY <2>5, <2>6, <2>7, <2>8 DEF ReaderInv, ContentInv, Phase, InContent, InCall
  <2>9. CASE pc' \in InCall
    <3>1. Phase' = "copying" /\ Place' = dataEnd + 1 /\ Passed' = pos + have + 1
      BY <2>1, <2>5, <2>9 DEF Phase, Place, Passed
    <3>2. Open' = Open
      BY <1>1, <1>2, <3>1 DEF Open, nesting
    <3>3. contentEnd' - Place' = contentEnd - Place + (Passed - Passed')
      BY <1>1, <1>2, <1>3, <1>5, <2>2, <3>1
    <3>4. Place' \in Int /\ Passed' \in Int /\ Place \in Int /\ Passed \in Int
          /\ contentEnd' \in Int /\ Place' <= contentEnd'
      BY <1>1, <1>2, <1>3, <1>5, <2>5, <2>9, <3>1
    <3>5. ContentInv'
      BY <1>1, <1>2, <1>4, <3>2, <3>3, <3>4, ContentStays DEF nesting
    <3> QED
      BY <2>5, <2>6, <2>7, <3>5 DEF ReaderInv
  <2> QED
    BY <2>5, <2>8, <2>9
<1> QED
  BY <1>6, <1>7

\* SetMessageSize
LEMMA SetMessageSizeKeeps ==
  ASSUME ReaderInv, SetMessageSize
  PROVE  ReaderInv'
<1>1. PICK m \in Lengths : /\ contentEnd' = dataPtr + m
                           /\ dataEnd' = Minimum(dataPtr + m, dataEnd)
                           /\ ends' = <<pos + m>>
  BY DEF SetMessageSize, Within
<1>2. /\ pc = "sized" /\ dataEnd0' = dataEnd /\ depth' = 0 /\ pc' = "user"
      /\ UNCHANGED <<chunked, wire, buffers, dataPtr, chunkEnd, eOfs, call, pos, out>>
  BY DEF SetMessageSize
<1>3. /\ m \in Nat /\ dataPtr \in 0 .. dataEnd /\ dataEnd <= dataEnd0 /\ dataEnd0 <= streamDataEnd
      /\ chunked => dataEnd0 <= chunkEnd
  BY <1>2, IdleTypes, Parameters DEF Idle
<1>4. /\ chunked \in BOOLEAN /\ dataEnd \in Int /\ dataEnd0 \in Int /\ streamDataEnd \in Nat
      /\ chunkEnd \in Int /\ pos \in Int /\ dataPtr \in Int
  BY StoreNumbers DEF ReaderInv
<1>5. /\ dataEnd' \in Int /\ dataPtr <= dataEnd' /\ dataEnd' <= dataEnd
      /\ dataEnd' <= contentEnd'
  BY <1>1, <1>3, <1>4 DEF Minimum
<1>6. Place' = dataPtr /\ Passed' = pos /\ Phase' = "user" /\ Open' = 0
  BY <1>2 DEF Place, Passed, Phase, InCall, Open
<1>7. StoreInv'
  <2>1. contentEnd' \in Int /\ pos + m \in Int /\ 0 \in 0 .. MaxNested
    BY <1>1, <1>3, <1>4, Parameters
  <2>2. ends' \in Seq(Int) /\ ends' # <<>>
    BY <1>1, <2>1
  <2> QED
    BY <1>2, <1>4, <1>5, <2>1, <2>2
       DEF ReaderInv, StoreInv, WireInv, Responds, buffers, Idle
<1>8. BarrierInv'
  <2>1. Place' \in 0 .. dataEnd' /\ dataEnd' <= dataEnd0' /\ dataEnd0' <= streamDataEnd'
    BY <1>2, <1>3, <1>4, <1>5, <1>6 DEF buffers
  <2>2. chunked' => dataEnd0' <= chunkEnd'
    BY <1>2, <1>3, <1>4
  <2> QED
    BY <1>2, <1>5, <2>1, <2>2 DEF BarrierInv
<1>9. CallInv'
  BY <1>2 DEF CallInv, InCall
<1>10. ContentInv'
  <2>1. Last(ends') = pos + m /\ Len(ends') = 1
    BY <1>1 DEF Last
  <2>2. contentEnd' - Place' = Last(ends') - Passed' /\ Place' <= contentEnd'
    BY <1>1, <1>3, <1>4, <1>6, <2>1
  <2>3. 0 <= MaxNested /\ 1 .. 0 = {}
    BY Parameters
  <2> QED
    BY <1>6, <2>1, <2>2, <2>3 DEF ContentInv
<1> QED
  BY <1>7, <1>8, <1>9, <1>10 DEF ReaderInv

\* SetContainer
LEMMA SetContainerKeeps ==
  ASSUME ReaderInv, SetContainer
  PROVE  ReaderInv'
<1> DEFINE rest == contentEnd - dataPtr
<1>1. PICK s \in Lengths \cup {0} :
        IF s = 0 \/ depth >= MaxNested
        THEN pc' \in {"user", "threw"} /\ UNCHANGED <<barriers, nesting, ends>>
        ELSE LET size == Minimum(s, rest)
             IN /\ depth' = depth + 1 /\ eOfs' = [eOfs EXCEPT ![depth] = rest - size]
                /\ contentEnd' = contentEnd - (rest - size)
                /\ dataEnd' = Minimum(contentEnd', dataEnd0)
                /\ ends' = Append(ends, Minimum(pos + s, Last(ends)))
                /\ pc' = "user" /\ UNCHANGED <<dataPtr, dataEnd0, chunkEnd>>
  BY DEF SetContainer, Within
<1>2. pc = "opening" /\ UNCHANGED <<chunked, wire, buffers, call, pos, out>>
  BY DEF SetContainer
<1>3. /\ chunked \in BOOLEAN /\ dataEnd \in Int /\ dataEnd0 \in Int /\ streamDataEnd \in Nat
      /\ contentEnd \in Int /\ chunkEnd \in Int /\ pos \in Int /\ dataPtr \in Int
      /\ depth \in Nat /\ MaxNested \in Nat /\ Last(ends) \in Int /\ Len(ends) \in Nat
      /\ ends \in Seq(Int) /\ eOfs \in [0 .. MaxNested -> Nat]
  BY StoreTypes DEF ReaderInv, StoreInv
<1>4. /\ Place = dataPtr /\ Passed = pos /\ Phase = "opening" /\ Open = depth
      /\ dataPtr \in 0 .. dataEnd /\ dataEnd <= dataEnd0 /\ dataEnd0 <= streamDataEnd
      /\ chunked => dataEnd0 <= chunkEnd
      /\ dataEnd <= contentEnd
      /\ rest = Last(ends) - pos
      /\ Len(ends) = depth + 1 /\ depth <= MaxNested
      /\ \A d \in 1 .. depth : eOfs[d - 1] = ends[d] - ends[d + 1]
  BY <1>2, IdleTypes DEF Idle, InContent, Open
<1>5. rest \in Nat /\ contentEnd = dataPtr + rest /\ Last(ends) = pos + rest
  <2>1. dataPtr <= contentEnd
    BY <1>3, <1>4
  <2>2. contentEnd - dataPtr = Last(ends) - pos
    BY <1>4
  <2>3. contentEnd \in Int /\ dataPtr \in Int /\ Last(ends) \in Int /\ pos \in Int
    BY <1>3
  <2> QED
    BY <2>1, <2>2, <2>3
<1> HIDE DEF rest
<1>6. WireInv'
  BY <1>2 DEF ReaderInv, StoreInv, WireInv, Responds
<1>7. CASE s = 0 \/ depth >= MaxNested
  <2>1. pc' \in {"user", "threw"} /\ UNCHANGED <<barriers, nesting, ends>>
    BY <1>1, <1>7
  <2>2. StoreInv'
    BY <1>2, <1>6, <2>1 DEF ReaderInv, StoreInv, buffers, barriers, nesting, Idle
  <2>3. Place' = dataPtr /\ Passed' = pos /\ Open' = depth
    BY <1>2, <2>1 DEF Place, Passed, Open, Phase, InCall, barriers, nesting
  <2>4. BarrierInv'
    BY <1>2, <1>4, <2>1, <2>3 DEF BarrierInv, buffers, barriers
  <2>5. CallInv'
    BY <2>1 DEF CallInv, InCall
  <2>6. ContentInv'
    <3>1. contentEnd' = contentEnd /\ eOfs' = eOfs /\ ends' = ends
      BY <2>1 DEF barriers, nesting
    <3>2. Place <= contentEnd /\ contentEnd - Place = Last(ends) - Passed
      BY <1>4 DEF ReaderInv, ContentInv, InContent
    <3> QED
      BY <1>4, <2>3, <3>1, <3>2 DEF ContentInv
  <2> QED
    BY <2>2, <2>4, <2>5, <2>6 DEF ReaderInv
<1>8. CASE ~(s = 0 \/ depth >= MaxNested)
  <2> DEFINE size == Minimum(s, rest)
             cut == rest - size
             e == Minimum(pos + s, Last(ends))
  <2>1. /\ depth' = depth + 1 /\ eOfs' = [eOfs EXCEPT ![depth] = cut]
        /\ contentEnd' = contentEnd - cut
        /\ dataEnd' = Minimum(contentEnd', dataEnd0)
        /\ ends' = Append(ends, e)
        /\ pc' = "user" /\ UNCHANGED <<dataPtr, dataEnd0, chunkEnd>>
    BY <1>1, <1>8
  <2>2. s \in Nat /\ depth < MaxNested
    BY <1>3, <1>8, Parameters
  <2>3. size \in Nat /\ cut \in Nat /\ cut <= rest /\ e \in Int /\ e = pos + size
    <3>1. size \in Nat /\ size <= rest
      BY <1>5, <2>2 DEF Minimum
    <3>2. e = pos + size
      BY <1>3, <1>5, <2>2 DEF Minimum
    <3> HIDE DEF size, e
    <3> QED
      BY <1>3, <1>5, <3>1, <3>2
  <2>4. cut = Last(ends) - e /\ cut = rest - size
    BY <1>3, <1>5, <2>3
  <2> HIDE DEF size, cut, e
  <2>5. /\ contentEnd' \in Int /\ dataPtr <= contentEnd'
        /\ contentEnd' - dataPtr = e - pos
    BY <1>3, <1>5, <2>1, <2>3, <2>4
  <2>6. /\ dataEnd' \in Int /\ dataPtr <= dataEnd' /\ dataEnd' <= dataEnd0 /\ dataEnd' <= contentEnd'
    <3>1. dataPtr <= dataEnd0 /\ dataEnd0 \in Int /\ dataPtr \in Int
      BY <1>3, <1>4
    <3>2. dataEnd' = Minimum(contentEnd', dataEnd0)
      BY <2>1
    <3> QED
      BY <2>5, <3>1, <3>2, MinimumOf
  <2>7. /\ ends' \in Seq(Int) /\ Len(ends') = Len(ends) + 1 /\ ends'[Len(ends) + 1] = e
        /\ \A i \in 1 .. Len(ends) : ends'[i] = ends[i]
    BY <1>3, <2>1, <2>3
  <2>8. ends' # <<>> /\ Last(ends') = e /\ Last(ends) = ends[depth + 1]
    BY <1>3, <1>4, <2>7 DEF Last
  <2>9. /\ eOfs' \in [0 .. MaxNested -> Nat] /\ eOfs'[depth] = cut
        /\ \A d \in 0 .. MaxNested : d # depth => eOfs'[d] = eOfs[d]
    BY <1>3, <2>1, <2>2, <2>3
  <2>10. StoreInv'
    <3>1. depth' \in 0 .. MaxNested
      BY <1>3, <2>1, <2>2
    <3>2. mem' = mem /\ taken' = taken /\ wire' = wire /\ streamDataEnd' = streamDataEnd
      BY <1>2 DEF buffers
    <3>3. {dataPtr', dataEnd', dataEnd0', contentEnd', chunkEnd', pos'} \subseteq Int
      BY <1>2, <1>3, <2>1, <2>5, <2>6
    <3>4. eOfs' \in [0 .. MaxNested -> Nat] /\ ends' \in Seq(Int) /\ ends' # <<>>
      BY <2>7, <2>8, <2>9
    <3> QED
      BY <1>6, <2>1, <3>1, <3>2, <3>3, <3>4 DEF ReaderInv, StoreInv, Idle
  <2>11. Place' = dataPtr /\ Passed' = pos /\ Open' = depth + 1 /\ Phase' = "user"
    BY <1>2, <2>1 DEF Place, Passed, Open, Phase, InCall
  <2>12. BarrierInv'
    <3>1. Place' \in 0 .. dataEnd'
      BY <1>3, <1>4, <2>6, <2>11
    <3> QED
      BY <1>2, <1>4, <2>1, <2>6, <3>1 DEF BarrierInv, buffers
  <2>13. CallInv'
    BY <2>1 DEF CallInv, InCall
  <2>14. ContentInv'
    <3>1. \A d \in 1 .. depth + 1 : eOfs'[d - 1] = ends'[d] - ends'[d + 1]
      <4> SUFFICES ASSUME NEW d \in 1 .. depth + 1
                   PROVE  eOfs'[d - 1] = ends'[d] - ends'[d + 1]
        OBVIOUS
      <4>1. CASE d = depth + 1
        <5>1. d - 1 = depth /\ d = Len(ends) /\ d \in 1 .. Len(ends)
          BY <1>3, <1>4, <4>1
        <5>2. ends'[d] = Last(ends) /\ ends'[d + 1] = e
          BY <1>4, <2>7, <2>8, <4>1, <5>1
        <5> QED
          BY <2>4, <2>9, <5>1, <5>2
      <4>2. CASE d # depth + 1
        <5>1. /\ d \in 1 .. depth /\ d - 1 \in 0 .. MaxNested /\ d - 1 # depth
              /\ d \in 1 .. Len(ends) /\ d + 1 \in 1 .. Len(ends)
          BY <1>3, <1>4, <4>2
        <5> QED
          BY <1>4, <2>7, <2>9, <5>1
      <4> QED
        BY <4>1, <4>2
    <3>2. depth + 1 <= MaxNested /\ Len(ends') = (depth + 1) + 1
      BY <1>3, <1>4, <2>2, <2>7
    <3> QED
      BY <2>5, <2>8, <2>11, <3>1, <3>2 DEF ContentInv
  <2> QED
    BY <2>10, <2>12, <2>13, <2>14 DEF ReaderInv
<1> QED
  BY <1>7, <1>8

\* LeaveContainer
LEMMA LeaveContainerKeeps ==
  ASSUME ReaderInv, LeaveContainer
  PROVE  ReaderInv'
<1>1. /\ pc = "closing" /\ contentEnd' = contentEnd + eOfs[depth]
      /\ dataEnd' = Minimum(contentEnd', dataEnd0) /\ ends' = Front(ends) /\ pc' = "user"
      /\ UNCHANGED <<chunked, wire, buffers, dataPtr, dataEnd0, chunkEnd, nesting, call, pos, out>>
  BY DEF LeaveContainer, Within
<1>2. /\ chunked \in BOOLEAN /\ dataEnd \in Int /\ dataEnd0 \in Int /\ streamDataEnd \in Nat
      /\ contentEnd \in Int /\ chunkEnd \in Int /\ pos \in Int /\ dataPtr \in Int
      /\ depth \in Nat /\ MaxNested \in Nat /\ Last(ends) \in Int /\ Len(ends) \in Nat
      /\ ends \in Seq(Int) /\ eOfs \in [0 .. MaxNested -> Nat] /\ depth \in 0 .. MaxNested
  BY StoreTypes DEF ReaderInv, StoreInv
<1>3. /\ Place = dataPtr /\ Passed = pos /\ Phase = "closing" /\ Open = depth + 1
      /\ dataPtr \in 0 .. dataEnd /\ dataEnd <= dataEnd0 /\ dataEnd0 <= streamDataEnd
      /\ chunked => dataEnd0 <= chunkEnd
      /\ dataEnd <= contentEnd
      /\ contentEnd - dataPtr = Last(ends) - pos
      /\ Len(ends) = depth + 2 /\ depth + 1 <= MaxNested
      /\ \A d \in 1 .. depth + 1 : eOfs[d - 1] = ends[d] - ends[d + 1]
  <2>1. Open = depth + 1 /\ pc \in Idle /\ pc \in InContent
    BY <1>1 DEF Open, Phase, InCall, Idle, InContent
  <2>2. Len(ends) = (depth + 1) + 1
    BY <2>1, IdleTypes
  <2> QED
    BY <1>1, <1>2, <2>1, <2>2, IdleTypes
<1>4. eOfs[depth] \in Nat /\ eOfs[depth] = ends[depth + 1] - Last(ends)
  <2>1. eOfs[depth] \in Nat
    BY <1>2
  <2>2. depth + 1 \in 1 .. depth + 1 /\ (depth + 1) - 1 = depth /\ (depth + 1) + 1 = depth + 2
    BY <1>2
  <2> QED
    BY <1>3, <2>1, <2>2 DEF Last
<1>5. /\ Front(ends) \in Seq(Int) /\ Len(Front(ends)) = depth + 1
      /\ \A i \in 1 .. depth + 1 : Front(ends)[i] = ends[i]
  <2>1. Len(ends) - 1 = depth + 1 /\ 1 .. depth + 1 \subseteq 1 .. Len(ends)
    BY <1>2, <1>3
  <2>2. Front(ends) = SubSeq(ends, 1, depth + 1)
    BY <2>1 DEF Front
  <2> QED
    BY <1>2, <2>1, <2>2
<1>6. ends' # <<>> /\ Last(ends') = ends[depth + 1] /\ ends[depth + 1] \in Int
  <2>1. depth + 1 \in 1 .. depth + 1 /\ depth + 1 \in 1 .. Len(ends)
    BY <1>2, <1>3
  <2>2. ends'[depth + 1] = ends[depth + 1] /\ Len(ends') = depth + 1
    BY <1>1, <1>5, <2>1
  <2>3. ends' # <<>> /\ ends[depth + 1] \in Int
    BY <1>2, <2>1, <2>2
  <2> QED
    BY <2>2, <2>3 DEF Last
<1>7. contentEnd' \in Int /\ contentEnd <= contentEnd' /\ contentEnd' - dataPtr = Last(ends') - pos
  <2> DEFINE o == eOfs[depth]
             l == ends[depth + 1]
  <2>1. o \in Nat /\ l \in Int /\ o = l - Last(ends) /\ contentEnd' = contentEnd + o /\ Last(ends') = l
    BY <1>1, <1>4, <1>6
  <2>2. contentEnd - dataPtr = Last(ends) - pos /\ Last(ends) + o = l
    <3>1. Last(ends) \in Int
      BY <1>2
    <3>2. contentEnd - dataPtr = Last(ends) - pos
      BY <1>3
    <3> HIDE DEF o, l
    <3> QED
      BY <2>1, <3>1, <3>2
  <2> HIDE DEF o, l
  <2>3. contentEnd \in Int /\ dataPtr \in Int /\ Last(ends) \in Int /\ pos \in Int /\ o \in Int
    BY <1>2, <2>1
  <2>4. (contentEnd + o) - dataPtr = (Last(ends) + o) - pos
    BY <2>2, <2>3
  <2>5. contentEnd' - dataPtr = Last(ends') - pos
    BY ONLY <2>1, <2>2, <2>4, Zenon
  <2>6. contentEnd <= contentEnd + o /\ contentEnd + o \in Int
    BY ONLY <2>1, <2>3
  <2>7. contentEnd' = contentEnd + o
    BY <2>1
  <2> QED
    BY ONLY <2>5, <2>6, <2>7, Zenon
<1>8. dataEnd' \in Int /\ dataPtr <= dataEnd' /\ dataEnd' <= dataEnd0 /\ dataEnd' <= contentEnd'
  <2>1. dataPtr <= contentEnd' /\ dataPtr <= dataEnd0
    <3>1. dataPtr <= dataEnd /\ dataEnd <= dataEnd0 /\ dataEnd <= contentEnd
      BY <1>2, <1>3
    <3> QED
      BY <1>2, <1>7, <3>1
  <2> QED
    BY <1>1, <1>2, <1>7, <2>1, MinimumOf
<1>9. StoreInv'
  BY <1>1, <1>2, <1>5, <1>6, <1>7, <1>8
     DEF ReaderInv, StoreInv, WireInv, Responds, buffers, nesting, Idle
<1>10. Place' = dataPtr /\ Passed' = pos /\ Open' = depth /\ Phase' = "user"
  BY <1>1 DEF Place, Passed, Open, Phase, InCall, nesting
<1>11. BarrierInv'
  <2>1. Place' \in 0 .. dataEnd'
    BY <1>2, <1>3, <1>8, <1>10
  <2> QED
    BY <1>1, <1>3, <1>8, <2>1 DEF BarrierInv, buffers
<1>12. CallInv'
  BY <1>1 DEF CallInv, InCall
<1>13. ContentInv'
  <2>1. \A d \in 1 .. depth : eOfs'[d - 1] = ends'[d] - ends'[d + 1]
    <3> SUFFICES ASSUME NEW d \in 1 .. depth PROVE eOfs[d - 1] = ends'[d] - ends'[d + 1]
      BY <1>1 DEF nesting
    <3>1. d \in 1 .. depth + 1 /\ d + 1 \in 1 .. depth + 1
      BY <1>2
    <3> QED
      BY <1>1, <1>3, <1>5, <3>1
  <2>2. Place' <= contentEnd' /\ depth <= MaxNested /\ Len(ends') = depth + 1
    BY <1>1, <1>2, <1>3, <1>5, <1>7, <1>10
  <2> QED
    BY <1>7, <1>10, <2>1, <2>2 DEF ContentInv
<1> QED
  BY <1>9, <1>11, <1>12, <1>13 DEF ReaderInv

\* NextMessage
LEMMA NextMessageKeeps ==
  ASSUME ReaderInv, NextMessage
  PROVE  ReaderInv'
<1>1. /\ pc = "user" /\ pc' \in {"between", "unread"}
      /\ call' = [NoCall EXCEPT !.want = IF contentEnd = dataPtr /\ depth = 0 THEN 0 ELSE Unread]
      /\ contentEnd' = Far /\ dataEnd' = dataEnd0 /\ depth' = 0
      /\ UNCHANGED <<chunked, wire, buffers, dataPtr, dataEnd0, chunkEnd, eOfs, pos, ends>>
  BY DEF NextMessage
<1>2. /\ chunked \in BOOLEAN /\ dataEnd \in Int /\ dataEnd0 \in Int /\ streamDataEnd \in Nat
      /\ contentEnd \in Int /\ chunkEnd \in Int /\ dataPtr \in Int
  BY StoreNumbers DEF ReaderInv
<1>3. /\ Place = dataPtr /\ dataPtr \in 0 .. dataEnd /\ dataEnd <= dataEnd0
      /\ dataEnd0 <= streamDataEnd /\ (chunked => dataEnd0 <= chunkEnd) /\ dataEnd <= contentEnd
  BY <1>1, IdleTypes DEF Idle, InContent
<1>4. Unread \in Nat
  BY <1>2, <1>3, UnreadIsAhead DEF ReaderInv, StoreInv
<1>5. call'.want \in Nat /\ call'.left = 0
  BY <1>1, <1>4 DEF NoCall
<1>6. Place' = dataPtr
  BY <1>1 DEF Place, InCall
<1>7. StoreInv'
  <2>1. Far \in Int /\ 0 \in 0 .. MaxNested
    BY Parameters DEF Far
  <2> QED
    BY <1>1, <1>2, <2>1 DEF ReaderInv, StoreInv, WireInv, Responds, buffers, Idle
<1>8. BarrierInv'
  <2>1. Place' \in 0 .. dataEnd'
    BY <1>1, <1>2, <1>3, <1>6
  <2> QED
    BY <1>1, <1>2, <1>3, <1>5, <2>1 DEF BarrierInv, InContent, buffers
<1>9. CallInv' /\ ContentInv'
  BY <1>1 DEF CallInv, ContentInv, Phase, InContent, InCall
<1> QED
  BY <1>7, <1>8, <1>9 DEF ReaderInv

\* the reader starts in the invariant
LEMMA ReaderStarts ==
  ASSUME Init
  PROVE  ReaderInv
<1> DEFINE lo == IF chunked THEN 2 ELSE 0
           hi == Minimum(BufferSize, Len(wire))
<1>1. /\ taken \in lo .. hi
      /\ mem = [a \in Memory |-> IF a \in 0 .. (taken - 1) THEN wire[a + 1] ELSE 0]
      /\ streamDataEnd = taken /\ dataPtr = 0
      /\ dataEnd = (IF chunked THEN 0 ELSE taken) /\ dataEnd0 = dataEnd
      /\ chunkEnd = 0 /\ contentEnd = 1000 /\ depth = 0
      /\ eOfs \in [0 .. MaxNested -> IF Careless THEN {0, 1} ELSE {0}]
      /\ pc = "between" /\ pos = 0 /\ ends = <<0>>
  BY DEF Init, Far
<1>2. WireInv
  BY DEF Init, WireInv, Responds
<1>3. wire \in Seq(Int) /\ chunked \in BOOLEAN /\ Len(wire) \in Nat
  BY <1>2, WireBytes
<1>4. taken \in Nat /\ taken <= BufferSize /\ taken <= Len(wire) /\ BufferSize \in Nat
  <2>1. BufferSize \in Nat /\ BufferSize \in Int /\ Len(wire) \in Int
    BY <1>3, Parameters
  <2>2. hi \in Int /\ hi <= BufferSize /\ hi <= Len(wire)
    BY <2>1, MinimumOf
  <2>3. lo \in Nat
    OBVIOUS
  <2> HIDE DEF lo, hi
  <2> QED
    BY <1>1, <1>3, <2>1, <2>2, <2>3
<1>5. StoreInv
  <2>1. mem \in [Memory -> Int]
    <3>1. ASSUME NEW a \in Memory, a \in 0 .. (taken - 1) PROVE wire[a + 1] \in Int
      <4>1. a + 1 \in 1 .. Len(wire)
        BY <1>3, <1>4, <3>1
      <4> QED
        BY <1>3, <4>1
    <3> QED
      BY <1>1, <3>1
  <2>2. taken \in 0 .. Len(wire) /\ streamDataEnd \in 0 .. BufferSize
    BY <1>1, <1>3, <1>4
  <2>3. {dataPtr, dataEnd, dataEnd0, contentEnd, chunkEnd, pos} \subseteq Int
    BY <1>1, <1>4
  <2>4. depth \in 0 .. MaxNested /\ eOfs \in [0 .. MaxNested -> Nat]
    BY <1>1, Parameters
  <2>5. ends \in Seq(Int) /\ ends # <<>>
    BY <1>1
  <2>6. pc \in Idle
    BY <1>1 DEF Idle
  <2> QED
    BY <1>2, <2>1, <2>2, <2>3, <2>4, <2>5, <2>6 DEF StoreInv
<1>6. Place = 0
  BY <1>1 DEF Place, InCall
<1>7. BarrierInv
  <2>1. dataEnd \in Nat /\ dataEnd <= streamDataEnd /\ (chunked => dataEnd = 0)
    BY <1>1, <1>4
  <2> QED
    BY <1>1, <1>6, <2>1 DEF BarrierInv, InContent
<1>8. CallInv /\ ContentInv
  BY <1>1 DEF CallInv, ContentInv, Phase, InCall, InContent
<1> QED
  BY <1>5, <1>7, <1>8 DEF ReaderInv

\* and no step leaves it
LEMMA ReaderKeeps ==
  ASSUME ReaderInv, [Next]_vars
  PROVE  ReaderInv'
<1>1. CASE Read
  BY <1>1, FillFromChunkKeeps, SkipRestOfChunkKeeps, NextChunkKeeps, StopKeeps DEF Read
<1>2. CASE Cursor
  BY <1>2, BetweenKeeps, SetMessageSizeKeeps, NextMessageKeeps DEF Cursor
<1>3. CASE Application
  BY <1>3, FieldsKeep, ReadStringKeeps, CopyBytesKeeps, SetContainerKeeps, LeaveContainerKeeps
     DEF Application
<1>4. CASE Stopped \/ UNCHANGED vars
  BY <1>4, StopKeeps DEF Stopped
<1> QED
  BY <1>1, <1>2, <1>3, <1>4 DEF Next

\* What the reader keeps between any two of its steps: the barriers below one
\* another, a call that knows what it needs, and the content where it should be
\* (DataReaderMsg, DataReaderMsgHTTPchunked).
THEOREM ReaderInvariant == Spec => []ReaderInv
<1>1. Init => ReaderInv
  BY ReaderStarts
<1>2. ReaderInv /\ [Next]_vars => ReaderInv'
  BY ReaderKeeps
<1> QED
  BY <1>1, <1>2, PTL DEF Spec

\* Every pointer stays in the buffer and below the one that bounds it, whatever
\* the sizes of the buffer, of the chunks and of the fields (get, skip).
THEOREM TypeCorrect == Spec => []TypeOK
<1>1. ASSUME ReaderInv PROVE TypeOK
  <2>1. pc \in Idle => dataPtr \in 0 .. dataEnd /\ dataEnd \in 0 .. streamDataEnd
    <3> SUFFICES ASSUME pc \in Idle
                 PROVE  dataPtr \in 0 .. dataEnd /\ dataEnd \in 0 .. streamDataEnd
      OBVIOUS
    <3>1. Place = dataPtr
      BY DEF Place, Idle, InCall
    <3>2. dataPtr \in 0 .. dataEnd /\ dataEnd <= dataEnd0 /\ dataEnd0 <= streamDataEnd
      BY <1>1, <3>1 DEF ReaderInv, BarrierInv
    <3> QED
      BY <1>1, <3>2, StoreNumbers DEF ReaderInv
  <2>2. pc \in InCall => call.from \in 0 .. streamDataEnd
    BY <1>1, CallStarts DEF ReaderInv
  <2> QED
    BY <1>1, <2>1, <2>2 DEF TypeOK, ReaderInv, StoreInv
<1> QED
  BY <1>1, ReaderInvariant, PTL

\* contentEnd and the offsets saved for the open containers are where the
\* server's sizes put them, however far the data was moved in the buffer since
\* (openContainer, closeContainer, get, skip).
THEOREM ContentsStayInPlace == Spec => []ContentsEndWhereTheyShould
<1>1. ASSUME ReaderInv PROVE ContentsEndWhereTheyShould
  <2> SUFFICES ASSUME pc \in {"user", "opening", "skipping"}
               PROVE  /\ contentEnd - dataPtr = Last(ends) - pos
                      /\ contentEnd >= dataPtr
                      /\ Len(ends) = depth + 1
                      /\ \A d \in 1 .. depth : eOfs[d - 1] = ends[d] - ends[d + 1]
    BY DEF ContentsEndWhereTheyShould
  <2>1. Phase = pc /\ Place = dataPtr /\ Passed = pos /\ Open = depth /\ pc \in InContent
    BY DEF Phase, Place, Passed, Open, InCall, InContent
  <2>2. /\ contentEnd - dataPtr = Last(ends) - pos /\ dataPtr <= contentEnd
        /\ Len(ends) = depth + 1
        /\ \A d \in 1 .. depth : eOfs[d - 1] = ends[d] - ends[d + 1]
    BY <1>1, <2>1 DEF ReaderInv, ContentInv
  <2> QED
    BY <1>1, <2>2, StoreNumbers DEF ReaderInv
<1> QED
  BY <1>1, ReaderInvariant, PTL

-----------------------------------------------------------------------------
(* The end of a message.                                                   *)

\* where the reader goes on behind a read or skip
LEMMA AccessLeads ==
  ASSUME NEW n, NEW skip, NEW then \in Idle, Access(n, skip, then)
  PROVE  Phase' \in {then, "threw"} /\ ends' = ends
<1>1. pc' = then \/ Cross(dataPtr, n, skip, 0, then)
  BY DEF Access
<1>2. Cross(dataPtr, n, skip, 0, then) =>
        pc' = "threw" \/ (pc' \in InCall /\ call'.then = then)
  BY DEF Cross, InCall
<1> QED
  BY <1>1, <1>2 DEF Phase, Access, Idle, InCall

\* nothing the application does with a message ends it
LEMMA ApplicationStaysInside ==
  ASSUME Application \/ SetMessageSize
  PROVE  Phase' \notin {"unread", "between"}
<1>1. CASE \E n, skip : \E then \in {"user", "opening", "closing", "skipping"} : Access(n, skip, then)
  BY <1>1, AccessLeads DEF Idle
<1>2. CASE pc' \in {"user", "copying", "threw"}
  BY <1>2 DEF Phase, InCall
<1>3. CASE CopyBytes
  <2>1. \/ pc' = "user"
        \/ \E from, left : Cross(from, 1, FALSE, left, "copying")
    BY <1>3 DEF CopyBytes
  <2>2. ASSUME NEW from, NEW left, Cross(from, 1, FALSE, left, "copying")
        PROVE  pc' = "threw" \/ (pc' \in InCall /\ call'.then = "copying")
    BY <2>2 DEF Cross, InCall
  <2> QED
    BY <2>1, <2>2 DEF Phase, InCall
<1>4. CASE Field \/ OpenContainer \/ SkipContainer \/ SkipContents \/ CloseContainer
  <2>1. \E n, skip : \E then \in {"user", "opening", "closing", "skipping"} : Access(n, skip, then)
    BY <1>4, Zenon DEF Field, OpenContainer, SkipContainer, SkipContents, CloseContainer
  <2> QED
    BY <1>1, <2>1
<1>5. CASE ReadString \/ SetContainer \/ LeaveContainer \/ SetMessageSize
  BY <1>2, <1>5 DEF ReadString, SetContainer, LeaveContainer, SetMessageSize
<1> QED
  BY <1>3, <1>4, <1>5 DEF Application

\* no step between two messages loses its place
LEMMA MessageKeeps ==
  ASSUME ReaderInv, MessageInv, ~Careless, [Next]_vars
  PROVE  MessageInv'
<1>1. CASE FillFromChunk \/ SkipRestOfChunk \/ NextChunk
  <2>1. pc \in InCall /\ Phase # "unread"
    BY <1>1 DEF FillFromChunk, SkipRestOfChunk, NextChunk, InCall, MessageInv
  <2>2. CASE pc' = "malformed"
    BY <2>2 DEF MessageInv, Phase, InCall
  <2>3. CASE pc' # "malformed"
    <3>1. GoesOn
      BY <1>1, <2>3, FillFromChunkKeeps, SkipRestOfChunkKeeps, NextChunkKeeps
    <3>2. Phase' # "unread" /\ pc' # "unread"
      BY <2>1, <3>1 DEF GoesOn, Phase, InCall
    <3> QED
      BY <3>1, <3>2 DEF GoesOn, MessageInv
  <2> QED
    BY <2>2, <2>3
<1>2. CASE EndOfStream
  BY <1>2 DEF EndOfStream, MessageInv, Phase, InCall
<1>3. CASE ReadSize
  <2>1. Phase' \in {"sized", "threw"}
    BY <1>3, AccessLeads DEF ReadSize, Idle
  <2> QED
    BY <2>1 DEF MessageInv, Phase, InCall
<1>4. CASE SkipUnread
  <2>1. /\ pc = "unread" /\ Access(call.want, TRUE, "between") /\ UNCHANGED nesting
        /\ call.want \in Nat /\ Phase = "unread"
    BY <1>4, IdleTypes DEF SkipUnread, Keep, Idle
  <2>2. Phase' \in {"between", "threw"} /\ ends' = ends
    BY <2>1, AccessLeads DEF Idle
  <2>3. pc' # "threw" => Passed' = pos + call.want
    <3>1. depth' \in 0 .. MaxNested /\ eOfs' = eOfs
      BY <2>1 DEF ReaderInv, StoreInv, nesting
    <3> QED
      BY <2>1, <3>1, AccessGoesOn DEF Idle, InContent
  <2>4. Phase' = "between" => pc' # "threw"
    BY DEF Phase, InCall
  <2> QED
    BY <2>1, <2>2, <2>3, <2>4 DEF MessageInv, Phase, InCall
<1>5. CASE NextMessage
  <2>1. /\ pc = "user" /\ depth = 0 /\ UNCHANGED <<pos, ends>>
        /\ call' = [NoCall EXCEPT !.want = IF contentEnd = dataPtr /\ depth = 0 THEN 0 ELSE Unread]
        /\ pc' = (IF contentEnd = dataPtr /\ depth = 0 THEN "between" ELSE "unread")
    BY <1>5, StoreNumbers DEF NextMessage, ReaderInv
  <2>2. /\ contentEnd - dataPtr = Last(ends) - pos /\ Len(ends) = 1
    BY <2>1, IdleTypes DEF Idle, InContent, Open
  <2>3. contentEnd \in Int /\ dataPtr \in Int /\ pos \in Int /\ ends[1] \in Int /\ Last(ends) = ends[1]
    BY <2>2, StoreTypes DEF ReaderInv, Last
  <2>4. CASE contentEnd = dataPtr
    <3>1. pos = ends[1]
      BY <2>2, <2>3, <2>4
    <3> QED
      BY <2>1, <2>2, <2>4, <3>1 DEF MessageInv, Phase, Passed, InCall
  <2>5. CASE contentEnd # dataPtr
    <3>1. Unread = contentEnd - dataPtr
      BY <2>1, <2>3, UnreadIsAhead DEF ReaderInv, StoreInv
    <3>2. call'.want = contentEnd - dataPtr /\ pc' = "unread"
      BY <2>1, <2>5, <3>1 DEF NoCall
    <3>3. pos' + call'.want = ends'[1]
      BY <2>1, <2>2, <2>3, <3>2
    <3> QED
      BY <2>1, <2>2, <3>2, <3>3 DEF MessageInv, Phase, InCall
  <2> QED
    BY <2>4, <2>5
<1>6. CASE Application \/ SetMessageSize
  BY <1>6, ApplicationStaysInside DEF MessageInv, Phase, InCall
<1>7. CASE Stopped \/ UNCHANGED vars
  BY <1>7 DEF Stopped, vars, history, MessageInv, Phase, Passed
<1> QED
  BY <1>1, <1>2, <1>3, <1>4, <1>5, <1>6, <1>7 DEF Next, Read, Cursor

\* next() goes on at the end of the last message, whatever of it was read, when
\* the application closed the containers it opened (nextMessage,
\* skipUnreadMessageBody; with one left open it does not: the run ReaderUnwind).
THEOREM MessageLeftAtItsEnd == ~Careless => (Spec => []MessageIsLeftAtItsEnd)
<1> SUFFICES ASSUME ~Careless PROVE Spec => []MessageIsLeftAtItsEnd
  OBVIOUS
<1>1. Init => MessageInv
  BY DEF Init, MessageInv, Phase, Passed, InCall
<1>2. ReaderInv /\ MessageInv /\ [Next]_vars => MessageInv'
  BY MessageKeeps
<1>3. MessageInv => MessageIsLeftAtItsEnd
  <2>1. pc = "between" => Phase = "between" /\ Passed = pos
    BY DEF Phase, Passed, InCall
  <2> QED
    BY <2>1 DEF MessageInv, MessageIsLeftAtItsEnd
<1> QED
  BY <1>1, <1>2, <1>3, ReaderInvariant, PTL DEF Spec
-----------------------------------------------------------------------------
(* What is ahead of the reader: the rest of the chunk in hand and, behind  *)
(* it, the bytes of the response as they come.                             *)

\* the byte that address a has, or will have once it is read
View(m, end, tk, a) == IF a < end THEN m[a] ELSE wire[tk - end + a + 1]

\* q bytes of the response with p bytes of payload end where a header starts,
\* or where nothing follows
Joint(q, p) == IF chunked THEN Turn(q, p) \/ (q = Len(wire) - 2 /\ p = Whole)
               ELSE q = Len(wire) /\ p = q

\* from address at on there are r bytes of payload, the first of them number p + 1
Ahead(m, at, end, tk, p, r) ==
    /\ r \in Nat
    /\ \A j \in Nat : View(m, end, tk, at + j) =
                          IF j < r THEN p + j + 1 ELSE wire[tk - end + at + j + 1]
    /\ Joint(tk - end + at + r, p + r)

\* from at2 on there are the bytes that there were s bytes behind at
Moves(m, at, end, tk, s, m2, at2, end2, tk2) ==
    /\ {at, end, tk, at2, end2, tk2} \subseteq Int /\ s \in Nat
    /\ tk2 - end2 + at2 = tk - end + at + s
    /\ \A j \in Nat : View(m2, end2, tk2, at2 + j) = View(m, end, tk, at + (s + j))

\* the same bytes at another place, without the first s
LEMMA AheadMoves ==
  ASSUME NEW m, NEW at, NEW end, NEW tk, NEW p \in Int, NEW r,
         Ahead(m, at, end, tk, p, r), NEW s, s <= r,
         NEW m2, NEW at2, NEW end2, NEW tk2, Moves(m, at, end, tk, s, m2, at2, end2, tk2)
  PROVE  Ahead(m2, at2, end2, tk2, p + s, r - s)
<1>0. /\ at \in Int /\ end \in Int /\ tk \in Int /\ at2 \in Int /\ end2 \in Int /\ tk2 \in Int
      /\ s \in Nat /\ tk2 - end2 + at2 = tk - end + at + s
      /\ \A j \in Nat : View(m2, end2, tk2, at2 + j) = View(m, end, tk, at + (s + j))
  BY DEF Moves
<1>1. /\ r \in Nat /\ Joint(tk - end + at + r, p + r)
      /\ \A j \in Nat : View(m, end, tk, at + j) =
                          IF j < r THEN p + j + 1 ELSE wire[tk - end + at + j + 1]
  BY DEF Ahead
<1>2. r - s \in Nat
  BY <1>0, <1>1
<1>3. ASSUME NEW j \in Nat
      PROVE  View(m2, end2, tk2, at2 + j) =
               IF j < r - s THEN (p + s) + j + 1 ELSE wire[tk2 - end2 + at2 + j + 1]
  <2>1. s + j \in Nat /\ (s + j < r <=> j < r - s) /\ p + (s + j) + 1 = (p + s) + j + 1
    BY <1>0, <1>1
  <2>2. tk2 - end2 + at2 + j + 1 = tk - end + at + (s + j) + 1
    BY <1>0
  <2>3. View(m, end, tk, at + (s + j)) =
           IF s + j < r THEN p + (s + j) + 1 ELSE wire[tk - end + at + (s + j) + 1]
    BY <1>1, <2>1
  <2>4. View(m2, end2, tk2, at2 + j) = View(m, end, tk, at + (s + j))
    BY <1>0
  <2> QED
    BY ONLY <2>1, <2>2, <2>3, <2>4, Zenon
<1>4. Joint(tk2 - end2 + at2 + (r - s), (p + s) + (r - s))
  <2>1. tk2 - end2 + at2 + (r - s) = tk - end + at + r /\ (p + s) + (r - s) = p + r
    BY <1>0, <1>1
  <2> QED
    BY <1>1, <2>1
<1> QED
  BY <1>2, <1>3, <1>4 DEF Ahead

\* the reader goes on in what is ahead
LEMMA AheadAdvances ==
  ASSUME NEW m, NEW at \in Int, NEW end \in Int, NEW tk \in Int, NEW p \in Int, NEW r,
         Ahead(m, at, end, tk, p, r), NEW s \in Nat, s <= r
  PROVE  Ahead(m, at + s, end, tk, p + s, r - s)
<1>1. \A j \in Nat : (at + s) + j = at + (s + j)
  OBVIOUS
<1>2. \A j \in Nat : View(m, end, tk, (at + s) + j) = View(m, end, tk, at + (s + j))
  BY <1>1
<1>3. Moves(m, at, end, tk, s, m, at + s, end, tk)
  BY <1>2 DEF Moves
<1> QED
  BY <1>3, AheadMoves

\* the bytes passed are not among what is ahead
LEMMA AheadLives ==
  ASSUME NEW m, NEW at \in Nat, NEW end \in 0 .. BufferSize, NEW tk \in Int, NEW p, NEW r,
         Ahead(m, at, end, tk, p, r)
  PROVE  Ahead(Live(m, at, end), at, end, tk, p, r)
<1> DEFINE l == Live(m, at, end)
<1>1. ASSUME NEW j \in Nat PROVE View(l, end, tk, at + j) = View(m, end, tk, at + j)
  <2>1. CASE at + j < end
    <3>1. at + j \in Memory /\ at + j >= at
      BY <2>1, Parameters DEF Memory
    <3> QED
      BY <2>1, <3>1 DEF Live, View
  <2>2. CASE ~(at + j < end)
    BY <2>2 DEF View
  <2> QED
    BY <2>1, <2>2
<1> HIDE DEF l
<1>2. Ahead(l, at, end, tk, p, r)
  BY <1>1 DEF Ahead
<1> QED
  BY <1>2 DEF l

\* more of the response is laid behind what the buffer has
LEMMA AheadRefills ==
  ASSUME streamDataEnd \in Nat, taken \in Nat, NEW f \in Nat, f <= streamDataEnd,
         NEW p \in Int, NEW q, Ahead(mem, f, streamDataEnd, taken, p, q),
         NEW m, NEW e \in Nat, NEW to \in Nat, to + (streamDataEnd - f) = e,
         NEW k \in Nat, e + k <= BufferSize,
         \A j \in 0 .. (streamDataEnd - f - 1) : m[to + j] = mem[f + j]
  PROVE  LET r == Result(m, e, to, k) IN Ahead(r.mem, r.from, r.end, r.taken, p, q)
<1> DEFINE l == Lay(m, e, taken, k)
<1>1. ASSUME NEW j \in Nat
      PROVE  View(l, e + k, taken + k, to + j) = View(mem, streamDataEnd, taken, f + (0 + j))
  <2>0. f + (0 + j) = f + j
    OBVIOUS
  <2>1. CASE to + j < e
    <3>1. to + j \in Memory /\ f + j < streamDataEnd /\ j \in 0 .. (streamDataEnd - f - 1)
          /\ to + j < e + k /\ ~(to + j >= e)
      BY <2>1, Parameters DEF Memory
    <3>2. l[to + j] = m[to + j]
      BY <3>1 DEF Lay
    <3> QED
      BY <2>0, <3>1, <3>2 DEF View
  <2>2. CASE ~(to + j < e) /\ to + j < e + k
    <3>1. to + j \in Memory /\ ~(f + j < streamDataEnd) /\ to + j >= e
      BY <2>2, Parameters DEF Memory
    <3>2. l[to + j] = wire[taken + (to + j) - e + 1]
      BY <2>2, <3>1 DEF Lay
    <3>3. taken + (to + j) - e + 1 = taken - streamDataEnd + (f + j) + 1
      OBVIOUS
    <3> QED
      BY <2>0, <2>2, <3>1, <3>2, <3>3 DEF View
  <2>3. CASE ~(to + j < e + k)
    <3>1. ~(f + j < streamDataEnd)
      BY <2>3
    <3>2. (taken + k) - (e + k) + (to + j) + 1 = taken - streamDataEnd + (f + j) + 1
      OBVIOUS
    <3> QED
      BY <2>0, <2>3, <3>1, <3>2 DEF View
  <2> QED
    BY <2>1, <2>2, <2>3
<1> HIDE DEF l
<1>2. (taken + k) - (e + k) + to = taken - streamDataEnd + f + 0
  OBVIOUS
<1>3. q \in Nat
  BY DEF Ahead
<1>4. Ahead(l, to, e + k, taken + k, p + 0, q - 0)
  <2>1. Moves(mem, f, streamDataEnd, taken, 0, l, to, e + k, taken + k)
    BY <1>1, <1>2 DEF Moves
  <2>2. 0 <= q
    BY <1>3
  <2> QED
    BY <2>1, <2>2, AheadMoves
<1>5. p + 0 = p /\ q - 0 = q
  BY <1>3
<1> QED
  BY <1>4, <1>5 DEF Result, l

\* getFromStream changes nothing of what is ahead
LEMMA GetKeepsAhead ==
  ASSUME taken \in Nat, streamDataEnd \in 0 .. BufferSize, Len(wire) \in Nat,
         NEW f \in 0 .. streamDataEnd, NEW n \in Nat, NEW r \in GetFromStream(f, n),
         NEW p \in Int, NEW q, Ahead(mem, f, streamDataEnd, taken, p, q)
  PROVE  Ahead(r.mem, r.from, r.end, r.taken, p, q)
<1> DEFINE have == streamDataEnd - f
           need == n - have
           Fill(m, e, to) == {Result(m, e, to, k) : k \in need .. Minimum(Room(e), Left)}
<1>0. have \in Nat /\ need \in Int /\ Left \in Int /\ streamDataEnd \in Nat /\ BufferSize \in Nat
      /\ f \in Nat /\ f <= streamDataEnd
  BY Parameters DEF Left
<1>1. CASE n <= have
  <2>1. r = [mem |-> mem, end |-> streamDataEnd, from |-> f, taken |-> taken]
    BY <1>1 DEF GetFromStream
  <2> QED
    BY <2>1
<1>2. ASSUME ~(n <= have), NEW m, NEW e \in 0 .. BufferSize,
             NEW to \in Nat, to + have = e, r \in Fill(m, e, to),
             \A j \in 0 .. have - 1 : m[to + j] = mem[f + j]
      PROVE  Ahead(r.mem, r.from, r.end, r.taken, p, q)
  <2>1. PICK k \in need .. Minimum(Room(e), Left) : r = Result(m, e, to, k)
    BY <1>2
  <2>2. Room(e) = BufferSize - e /\ Room(e) \in Int /\ e \in Nat
    BY <1>0 DEF Room
  <2>3. Minimum(Room(e), Left) \in Int /\ Minimum(Room(e), Left) <= Room(e)
    BY <1>0, <2>2, MinimumOf
  <2>4. k \in Nat /\ e + k <= BufferSize
    <3> HIDE DEF need, have
    <3>1. k \in Int /\ need <= k /\ k <= Room(e)
      BY <1>0, <2>1, <2>2, <2>3
    <3>2. need > 0
      BY <1>0, <1>2 DEF need
    <3> QED
      BY <1>0, <2>2, <3>1, <3>2
  <2>5. /\ f \in Nat /\ f <= streamDataEnd /\ streamDataEnd \in Nat /\ taken \in Nat
        /\ e \in Nat /\ to + (streamDataEnd - f) = e
        /\ \A j \in 0 .. (streamDataEnd - f - 1) : m[to + j] = mem[f + j]
    <3>1. \A j \in 0 .. (streamDataEnd - f - 1) : m[to + j] = mem[f + j]
      BY <1>2
    <3>2. to + (streamDataEnd - f) = e
      BY <1>2
    <3> HIDE DEF have, need, Fill
    <3> QED
      BY <1>0, <2>2, <3>1, <3>2
  <2>6. LET x == Result(m, e, to, k) IN Ahead(x.mem, x.from, x.end, x.taken, p, q)
    BY ONLY <2>4, <2>5, to \in Nat, p \in Int, Ahead(mem, f, streamDataEnd, taken, p, q),
       AheadRefills
  <2> QED
    BY <2>1, <2>6
<1>3. CASE ~(n <= have) /\ have = 0
  <2>1. r \in Fill(mem, 0, 0)
    BY <1>3 DEF GetFromStream
  <2>2. 0 \in 0 .. BufferSize /\ 0 \in Nat /\ 0 + have = 0 /\ 0 .. have - 1 = {}
    BY <1>0, <1>3
  <2> HIDE DEF have, need, Fill
  <2> QED
    BY <1>2, <1>3, <2>1, <2>2
<1>4. CASE ~(n <= have) /\ have # 0 /\ need > Room(streamDataEnd)
  <2>1. r \in Fill(Moved(mem, 0, f, have), have, 0)
    BY <1>4 DEF GetFromStream
  <2>2. have \in 0 .. BufferSize /\ 0 \in Nat /\ 0 + have = have
    BY <1>0
  <2>3. ASSUME NEW j \in 0 .. have - 1 PROVE Moved(mem, 0, f, have)[0 + j] = mem[f + j]
    <3>1. 0 + j \in Memory /\ 0 + j >= 0 /\ 0 + j < 0 + have /\ f + (0 + j) - 0 = f + j
      BY <1>0, <2>2, Parameters DEF Memory
    <3> QED
      BY <3>1 DEF Moved
  <2> DEFINE m == Moved(mem, 0, f, have)
  <2>4. r \in Fill(m, have, 0) /\ \A j \in 0 .. have - 1 : m[0 + j] = mem[f + j]
    BY <2>1, <2>3
  <2> HIDE DEF have, need, Fill, m
  <2> QED
    BY <1>2, <1>4, <2>2, <2>4
<1>5. CASE ~(n <= have) /\ have # 0 /\ ~(need > Room(streamDataEnd))
  <2>1. r \in Fill(mem, streamDataEnd, f)
    BY <1>5 DEF GetFromStream
  <2>2. f + have = streamDataEnd /\ f \in Nat
    BY <1>0
  <2> HIDE DEF have, need, Fill
  <2> QED
    BY <1>2, <1>5, <2>1, <2>2
<1> QED
  BY <1>1, <1>3, <1>4, <1>5

\* skipStream takes n bytes of what is ahead away
LEMMA SkipKeepsAhead ==
  ASSUME taken \in Nat, streamDataEnd \in 0 .. BufferSize, Len(wire) \in Nat,
         NEW f \in 0 .. streamDataEnd, NEW n \in Nat, NEW r \in SkipStream(f, n),
         NEW p \in Int, NEW q, Ahead(mem, f, streamDataEnd, taken, p, q), n <= q
  PROVE  Ahead(r.mem, r.from, r.end, r.taken, p + n, q - n)
<1> DEFINE have == streamDataEnd - f
           whole == (n - have - 1) \div BufferSize
           skipped == whole * BufferSize
           last == n - have - skipped
           first == taken + skipped
<1>0. have \in Nat /\ streamDataEnd \in Nat /\ BufferSize \in Nat /\ BufferSize > 0
      /\ f \in Int /\ f + have = streamDataEnd /\ taken \in Int /\ streamDataEnd \in Int
  BY Parameters
<1>1. CASE n <= have
  <2>1. r = [mem |-> mem, end |-> streamDataEnd, from |-> f + n, taken |-> taken]
    BY <1>1 DEF SkipStream
  <2> QED
    BY <1>0, <2>1, AheadAdvances
<1>2. CASE ~(n <= have)
  <2>1. n - have - 1 \in Nat
    BY <1>0, <1>2
  <2>2. whole \in Nat /\ (n - have - 1) - skipped \in 0 .. BufferSize - 1
    BY <2>1, <1>0, Division
  <2>3. skipped \in Nat
    BY <2>2, <1>0
  <2>4. PICK k \in last .. Minimum(BufferSize, Len(wire) - first) :
           r = [mem |-> Lay(mem, 0, first, k), end |-> k, from |-> last, taken |-> first + k]
    BY <1>2 DEF SkipStream
  <2> HIDE DEF whole, skipped, have
  <2>5. last \in Nat /\ last > 0 /\ first \in Nat /\ first + last = taken + n - have
    BY <2>2, <2>3, <1>0
  <2> HIDE DEF last, first
  <2>6. k \in Nat /\ last <= k /\ k <= BufferSize
    BY <2>4, <2>5, <1>0 DEF Minimum
  <2> DEFINE l == Lay(mem, 0, first, k)
  <2>7. ASSUME NEW j \in Nat
        PROVE  View(l, k, first + k, last + j) = View(mem, streamDataEnd, taken, f + (n + j))
    <3>1. ~(f + (n + j) < streamDataEnd)
      BY <1>0, <1>2
    <3>2. first + last + j + 1 = taken - streamDataEnd + (f + (n + j)) + 1
      BY <1>0, <2>5
    <3>3. CASE last + j < k
      <4>1. last + j \in Memory /\ last + j >= 0 /\ last + j < 0 + k
            /\ first + (last + j) - 0 + 1 = first + last + j + 1
        BY <1>0, <2>5, <2>6, <3>3, Parameters DEF Memory
      <4>2. l[last + j] = wire[first + last + j + 1]
        BY <4>1 DEF Lay
      <4> QED
        BY <3>1, <3>2, <3>3, <4>2 DEF View
    <3>4. CASE ~(last + j < k)
      <4>1. (first + k) - k + (last + j) + 1 = first + last + j + 1
        BY <2>5, <2>6
      <4> QED
        BY <3>1, <3>2, <3>4, <4>1 DEF View
    <3> QED
      BY <3>3, <3>4
  <2> HIDE DEF l
  <2>8. (first + k) - k + last = taken - streamDataEnd + f + n
    BY <1>0, <2>5, <2>6
  <2>9. last \in Int /\ k \in Int /\ first + k \in Int
    BY <2>5, <2>6
  <2>10. Ahead(l, last, k, first + k, p + n, q - n)
    <3>1. Moves(mem, f, streamDataEnd, taken, n, l, last, k, first + k)
      BY <1>0, <2>7, <2>8, <2>9 DEF Moves
    <3> QED
      BY <3>1, AheadMoves
  <2> QED
    BY <2>4, <2>10 DEF l
<1> QED
  BY <1>1, <1>2


\* skipStream finds the bytes that it skips
LEMMA SkipStreamFinds ==
  ASSUME taken \in Nat, taken <= Len(wire), streamDataEnd \in 0 .. BufferSize, Len(wire) \in Nat,
         NEW f \in 0 .. streamDataEnd, NEW n \in Nat, NEW r \in SkipStream(f, n)
  PROVE  f + n - streamDataEnd <= Len(wire) - taken
<1> DEFINE have == streamDataEnd - f
           whole == (n - have - 1) \div BufferSize
           skipped == whole * BufferSize
           last == n - have - skipped
           first == taken + skipped
<1>0. /\ have \in Nat /\ streamDataEnd \in Int /\ f \in Int /\ BufferSize \in Nat /\ BufferSize > 0
      /\ f + have = streamDataEnd
  BY Parameters
<1>1. CASE n <= have
  BY <1>0, <1>1
<1>2. CASE ~(n <= have)
  <2>1. n - have - 1 \in Nat
    BY <1>0, <1>2
  <2>2. skipped \in Nat
    <3>1. whole \in Nat
      BY <1>0, <2>1, Division
    <3> QED
      BY <1>0, <3>1
  <2>3. PICK k \in last .. Minimum(BufferSize, Len(wire) - first) : TRUE
    BY <1>2 DEF SkipStream
  <2> HIDE DEF whole, skipped, have
  <2>4. last \in Int /\ first \in Int /\ first + last = taken + n - have
    BY <1>0, <2>2
  <2> HIDE DEF last, first
  <2>5. last <= Len(wire) - first
    <3>1. Len(wire) - first \in Int /\ BufferSize \in Int
      BY <1>0, <2>4
    <3>2. Minimum(BufferSize, Len(wire) - first) \in Int
          /\ Minimum(BufferSize, Len(wire) - first) <= Len(wire) - first
      BY <3>1, MinimumOf
    <3> QED
      BY <2>3, <2>4, <3>1, <3>2
  <2> QED
    BY <1>0, <2>4, <2>5
<1> QED
  BY <1>1, <1>2

\* the bytes from start on are those of the response behind q, where the header
\* of a chunk of c bytes is, and h is what the reader makes of them
HeaderHere(m, start, end, h, q, c, z) ==
    /\ m \in [Memory -> Int] /\ start \in Nat /\ end \in 0 .. BufferSize
    /\ h = ParseChunkHeader(m, start, end) /\ h.is \notin {"malformed", "more"}
    /\ q \in Nat /\ c \in 0 .. 9 /\ z \in 0 .. 2 /\ HeaderAt(q, c, z)
    /\ \A k \in Nat : start + k < end => m[start + k] = wire[q + k + 1]

\* a header of the response that parses gives the size of its chunk
LEMMA HeaderSize ==
  ASSUME NEW m, NEW start, NEW end, NEW h, NEW q, NEW c, NEW z,
         HeaderHere(m, start, end, h, q, c, z)
  PROVE  h.size = c /\ h.end = start + z + 5
<1>0. /\ m \in [Memory -> Int] /\ start \in Nat /\ end \in 0 .. BufferSize
      /\ h = ParseChunkHeader(m, start, end) /\ h.is \notin {"malformed", "more"}
      /\ q \in Nat /\ c \in 0 .. 9 /\ z \in 0 .. 2 /\ HeaderAt(q, c, z)
      /\ \A k \in Nat : start + k < end => m[start + k] = wire[q + k + 1]
  BY DEF HeaderHere
<1>1. PICK n, b, number : ReadHeader(m, start, end, h, n, b, number)
  BY <1>0, HeaderIsRead
<1>2. /\ n \in Nat /\ start + n + 4 <= end
      /\ \A k \in 1 .. n : b[k] = m[start + 1 + k] /\ b[k] \in Int /\ IsDigit(b[k])
      /\ Spells(number, b, n) /\ m[start + 2 + n] = CR
      /\ h.size = number[n] /\ h.end = start + n + 4
  BY <1>0, <1>1 DEF ReadHeader
<1>3. /\ \A i \in 1 .. z : wire[q + 2 + i] = Digit(0)
      /\ wire[q + z + 3] = Digit(c) /\ wire[q + z + 4] = CR
  BY <1>0, <1>0 DEF HeaderAt
<1>4. \A k \in 1 .. n + 1 : m[start + 1 + k] = wire[q + 2 + k]
  <2> SUFFICES ASSUME NEW k \in 1 .. n + 1 PROVE m[start + 1 + k] = wire[q + 2 + k]
    OBVIOUS
  <2>1. k + 1 \in Nat /\ start + (k + 1) < end /\ end \in Int
    BY <1>0, <1>2
  <2>2. m[start + (k + 1)] = wire[q + (k + 1) + 1]
    BY <1>0, <2>1
  <2>3. start + (k + 1) = start + 1 + k /\ q + (k + 1) + 1 = q + 2 + k
    BY <1>0, <1>2
  <2> QED
    BY <1>0, <2>2, <2>3
<1>5. n <= z + 1
  <2> SUFFICES ASSUME ~(n <= z + 1) PROVE FALSE
    OBVIOUS
  <2>1. z + 2 \in 1 .. n /\ z + 2 \in 1 .. n + 1 /\ q + 2 + (z + 2) = q + z + 4
    BY <1>0, <1>2
  <2>2. m[start + 1 + (z + 2)] = CR
    BY <1>0, <1>3, <1>4, <2>1
  <2>3. IsDigit(CR)
    BY <1>0, <1>2, <2>1, <2>2
  <2> QED
    BY <1>0, <2>3 DEF IsDigit, Digit, CR
<1>6. n = z + 1
  <2> SUFFICES ASSUME n + 1 \in 1 .. z + 1 PROVE FALSE
    BY <1>0, <1>2, <1>5
  <2>1. start + 1 + (n + 1) = start + 2 + n /\ n + 1 \in 1 .. n + 1
    BY <1>0, <1>2
  <2>2. wire[q + 2 + (n + 1)] = CR
    BY <1>0, <1>2, <1>4, <2>1
  <2>3. CASE n + 1 \in 1 .. z
    BY <1>0, <1>3, <2>2, <2>3 DEF CR, Digit
  <2>4. CASE n + 1 = z + 1
    <3>1. q + 2 + (n + 1) = q + z + 3
      BY <1>0, <2>4
    <3> QED
      BY <1>0, <1>3, <2>2, <3>1 DEF CR, Digit
  <2> QED
    BY <1>0, <1>2, <2>3, <2>4
<1>7. \A k \in 1 .. z : b[k] = Digit(0)
  <2> SUFFICES ASSUME NEW k \in 1 .. z PROVE b[k] = Digit(0)
    OBVIOUS
  <2>1. k \in 1 .. n /\ k \in 1 .. n + 1
    BY <1>0, <1>6
  <2> QED
    BY <1>0, <1>2, <1>3, <1>4, <2>1
<1>8. b[z + 1] = Digit(c)
  <2>1. z + 1 \in 1 .. n /\ z + 1 \in 1 .. n + 1 /\ q + 2 + (z + 1) = q + z + 3
    BY <1>0, <1>6
  <2> QED
    BY <1>0, <1>2, <1>3, <1>4, <2>1
<1>9. /\ number[0] = 0
      /\ \A k \in 1 .. n : number[k] = number[k - 1] * 10 + (Digit(0) - b[k])
  BY <1>0, <1>2 DEF Spells
<1> DEFINE Zero == {0}
<1>10. number[z] = 0
  <2>1. \A k \in 1 .. z : number[k - 1] \in Zero => number[k] \in Zero
    <3> SUFFICES ASSUME NEW k \in 1 .. z, number[k - 1] = 0 PROVE number[k] = 0
      OBVIOUS
    <3>1. k \in 1 .. n
      BY <1>0, <1>6
    <3> QED
      BY <1>0, <1>7, <1>9, <3>1 DEF Digit
  <2>2. \A k \in 0 .. z : number[k] \in Zero
    <3>1. z \in Nat /\ number[0] \in Zero
      BY <1>0, <1>9
    <3> HIDE DEF Zero
    <3> QED
      BY <1>0, <2>1, <3>1, ValuesStay, Zenon
  <2> QED
    BY <1>0, <2>2
<1>11. number[n] = c
  <2>1. n \in 1 .. n /\ n - 1 = z
    BY <1>0, <1>6
  <2> QED
    BY <1>0, <1>6, <1>8, <1>9, <1>10, <2>1 DEF Digit
<1> QED
  BY <1>0, <1>2, <1>6, <1>11

\* d is what is left of the buffer m without the header in [start, stop), rest
\* bytes behind address from
WithoutHeader(m, from, rest, start, stop, end, d) ==
    /\ m \in [Memory -> Int] /\ from \in Nat /\ rest \in Nat /\ start = from + rest
    /\ stop \in Nat /\ start <= stop /\ end \in 0 .. BufferSize /\ stop <= end
    /\ d = DropHeader(m, from, rest, start, stop, end)

\* the rest bytes behind address from, and those behind stop, follow in d
ReadsOn(d, m, from, rest, stop, end, tk) ==
    /\ d.from \in Int /\ d.end \in Int /\ d.from + rest - d.end = stop - end
    /\ \A j \in Nat : j < rest => View(d.mem, d.end, tk, d.from + j) = View(m, end, tk, from + j)
    /\ \A k \in Nat : View(d.mem, d.end, tk, d.from + rest + k) = View(m, end, tk, stop + k)

\* taking a header out of the buffer leaves the rest of the chunk before it and
\* what follows behind it where they can be read on
LEMMA DropHeaderViews ==
  ASSUME NEW m, NEW from, NEW rest, NEW start, NEW stop, NEW end, NEW d, NEW tk \in Int,
         WithoutHeader(m, from, rest, start, stop, end, d)
  PROVE  ReadsOn(d, m, from, rest, stop, end, tk)
<1>0. /\ BufferSize \in Nat /\ Word \in Nat /\ Word > 0 /\ end \in Nat /\ start \in Nat
      /\ end <= BufferSize /\ from <= start /\ from \in Nat /\ rest \in Nat /\ start = from + rest
      /\ stop \in Nat /\ start <= stop /\ stop <= end
      /\ d = DropHeader(m, from, rest, start, stop, end)
  BY Parameters DEF WithoutHeader
<1>1. CASE end > stop + Word
  <2> DEFINE near == Moved(m, stop - Word, start - Word, Word)
             far == Moved(m, stop - rest, from, rest)
             mm == CASE rest = 0 -> m
                     [] rest \in 1 .. Word -> near
                     [] OTHER -> far
  <2>1. d = [mem |-> mm, from |-> from + (stop - start), end |-> end]
    BY <1>0, <1>1 DEF DropHeader
  <2>2. d.mem = mm /\ d.from = stop - rest /\ d.end = end /\ d.from \in Nat
    BY <1>0, <2>1
  <2>3. ASSUME NEW j \in Nat, j < rest PROVE mm[stop - rest + j] = m[from + j]
    <3>1. stop - rest + j \in Memory
      BY <1>0, <2>3 DEF Memory
    <3>2. CASE rest \in 1 .. Word
      <4>1. /\ stop - rest + j >= stop - Word /\ stop - rest + j < (stop - Word) + Word
            /\ (start - Word) + (stop - rest + j) - (stop - Word) = from + j
        BY <1>0, <2>3, <3>2
      <4>2. near[stop - rest + j] = m[from + j]
        BY <3>1, <4>1 DEF Moved
      <4> HIDE DEF near, far
      <4> QED
        BY <3>2, <4>2
    <3>3. CASE rest \notin 1 .. Word
      <4>1. /\ stop - rest + j >= stop - rest /\ stop - rest + j < (stop - rest) + rest
            /\ from + (stop - rest + j) - (stop - rest) = from + j /\ rest # 0
        BY <1>0, <2>3
      <4>2. far[stop - rest + j] = m[from + j]
        BY <3>1, <4>1 DEF Moved
      <4> HIDE DEF near, far
      <4> QED
        BY <3>3, <4>1, <4>2
    <3> QED
      BY <3>2, <3>3
  <2>4. ASSUME NEW k \in Nat, stop + k < end PROVE mm[stop + k] = m[stop + k]
    <3>1. stop + k \in Memory /\ ~(stop + k < (stop - Word) + Word) /\ ~(stop + k < (stop - rest) + rest)
      BY <1>0, <2>4 DEF Memory
    <3>2. near[stop + k] = m[stop + k] /\ far[stop + k] = m[stop + k]
      BY <3>1 DEF Moved
    <3> HIDE DEF near, far
    <3> QED
      BY <3>2
  <2> HIDE DEF mm
  <2>5. ASSUME NEW j \in Nat, j < rest
        PROVE  View(d.mem, d.end, tk, d.from + j) = View(m, end, tk, from + j)
    <3>1. stop - rest + j < end /\ from + j < end
      BY <1>0, <2>5
    <3> QED
      BY <2>2, <2>3, <2>5, <3>1 DEF View
  <2>6. ASSUME NEW k \in Nat
        PROVE  View(d.mem, d.end, tk, d.from + rest + k) = View(m, end, tk, stop + k)
    <3>1. d.from + rest + k = stop + k
      BY <1>0, <2>2
    <3>2. View(mm, end, tk, stop + k) = View(m, end, tk, stop + k)
      BY <1>0, <2>4 DEF View
    <3> QED
      BY <2>2, <3>1, <3>2
  <2>7. d.from \in Int /\ d.end \in Int /\ d.from + rest - d.end = stop - end
    BY <1>0, <2>2
  <2> QED
    BY ONLY <2>5, <2>6, <2>7 DEF ReadsOn
<1>2. CASE ~(end > stop + Word)
  <2> DEFINE mm == Moved(m, start, stop, Word)
             e == end - (stop - start)
  <2>1. d.mem = mm /\ d.from = from /\ d.end = e
    BY <1>0, <1>2 DEF DropHeader
  <2>2. e \in Nat /\ start <= e
    BY <1>0
  <2>3. ASSUME NEW j \in Nat, j < rest
        PROVE  View(mm, e, tk, from + j) = View(m, end, tk, from + j)
    <3>1. from + j < e /\ from + j < end /\ from + j \in Memory /\ ~(from + j >= start)
      BY <1>0, <2>2, <2>3 DEF Memory
    <3>2. mm[from + j] = m[from + j]
      BY <3>1 DEF Moved
    <3> QED
      BY <3>1, <3>2 DEF View
  <2>4. ASSUME NEW k \in Nat
        PROVE  View(mm, e, tk, start + k) = View(m, end, tk, stop + k)
    <3>1. CASE stop + k < end
      <4>1. /\ start + k < e /\ start + k \in Memory /\ start + k >= start
            /\ start + k < start + Word /\ stop + (start + k) - start = stop + k
        BY <1>0, <1>2, <3>1 DEF Memory
      <4>2. mm[start + k] = m[stop + k]
        BY <4>1 DEF Moved
      <4> QED
        BY <3>1, <4>1, <4>2 DEF View
    <3>2. CASE ~(stop + k < end)
      <4>1. ~(start + k < e) /\ tk - e + (start + k) + 1 = tk - end + (stop + k) + 1
        BY <1>0, <3>2
      <4> QED
        BY <3>2, <4>1 DEF View
    <3> QED
      BY <3>1, <3>2
  <2> HIDE DEF mm
  <2>5. d.from + rest - d.end = stop - end
    BY <1>0, <2>1
  <2>6. \A k \in Nat : d.from + rest + k = start + k
    BY <1>0, <2>1
  <2> HIDE DEF e
  <2>7. \A j \in Nat : j < rest => View(d.mem, d.end, tk, d.from + j) = View(m, end, tk, from + j)
    BY <2>1, <2>3
  <2>8. \A k \in Nat : View(d.mem, d.end, tk, d.from + rest + k) = View(m, end, tk, stop + k)
    BY <2>1, <2>4, <2>6
  <2>9. d.from \in Int /\ d.end \in Int
    BY <1>0, <2>1, <2>2
  <2> QED
    BY ONLY <2>5, <2>7, <2>8, <2>9 DEF ReadsOn
<1> QED
  BY <1>1, <1>2

\* behind the chunk in hand is a header and the bytes that it announces
LEMMA TurnAnnounces ==
  ASSUME WireInv, chunked, NEW q \in Int, NEW p \in Int, Joint(q, p), q # Len(wire) - 2
  PROVE  /\ q \in Nat
         /\ \E c \in 0 .. 9, z \in 0 .. 2 :
               /\ HeaderAt(q, c, z) /\ Joint(q + z + 5 + c, p + c)
               /\ \A k \in 1 .. c : wire[q + z + 5 + k] = p + k
<1>1. Turn(q, p)
  BY DEF Joint
<1>2. q \in Nat /\ ((LastTurn(q) /\ p = Whole) \/ \E n \in 1 .. 9, z \in 0 .. 2 : FullTurn(q, p, n, z))
  BY <1>1, TurnLeads
<1>3. CASE LastTurn(q) /\ p = Whole
  <2>1. HeaderAt(q, 0, 0) /\ q + 0 + 5 + 0 = Len(wire) - 2
    BY <1>2, <1>3 DEF LastTurn
  <2>2. Joint(q + 0 + 5 + 0, p + 0)
    <3>1. p + 0 = Whole
      BY <1>3
    <3> QED
      BY <2>1, <3>1 DEF Joint
  <2>3. \A k \in 1 .. 0 : wire[q + 0 + 5 + k] = p + k
    OBVIOUS
  <2>4. 0 \in 0 .. 9 /\ 0 \in 0 .. 2
    OBVIOUS
  <2> QED
    BY <1>2, <2>1, <2>2, <2>3, <2>4
<1>4. CASE \E n \in 1 .. 9, z \in 0 .. 2 : FullTurn(q, p, n, z)
  <2>1. PICK n \in 1 .. 9, z \in 0 .. 2 : FullTurn(q, p, n, z)
    BY <1>4
  <2>2. n \in 0 .. 9
    OBVIOUS
  <2>3. HeaderAt(q, n, z) /\ Joint(q + z + 5 + n, p + n) /\ \A k \in 1 .. n : wire[q + z + 5 + k] = p + k
    BY <2>1 DEF FullTurn, Joint
  <2> QED
    BY <1>2, <2>2, <2>3
<1> QED
  BY <1>2, <1>3, <1>4

\* a header starts, and the response ends, inside the response
LEMMA JointInside ==
  ASSUME WireInv, chunked, NEW q \in Int, NEW p \in Int, Joint(q, p)
  PROVE  q <= Len(wire)
<1>1. Len(wire) \in Nat
  BY WireBytes
<1>2. CASE q = Len(wire) - 2
  BY <1>1, <1>2
<1>3. CASE q # Len(wire) - 2
  <2>1. PICK c \in 0 .. 9, z \in 0 .. 2 : HeaderAt(q, c, z)
    BY <1>3, TurnAnnounces
  <2> QED
    BY <1>1, <2>1 DEF HeaderAt
<1> QED
  BY <1>2, <1>3

\* byte i of the response is number t of the payload
IsPayload(i, t) == i \in 1 .. Len(wire) /\ wire[i] = t

\* h is the header of the chunk that follows the rest of the last one, and d the
\* data without it
Joins(m, from, rest, start, end, tk, p, h, d) ==
    /\ WireInv /\ chunked /\ m \in [Memory -> Int] /\ from \in Nat /\ rest \in Nat
    /\ start = from + rest /\ end \in 0 .. BufferSize /\ start <= end
    /\ tk \in 0 .. Len(wire) /\ p \in Int /\ Ahead(m, from, end, tk, p, rest)
    /\ h = ParseChunkHeader(m, start, end) /\ h.is \notin {"malformed", "more"}
    /\ \/ rest = 0 /\ d = [mem |-> m, from |-> h.end, end |-> end]
       \/ d = DropHeader(m, from, rest, start, h.end, end)

\* a header that is read joins its chunk to what is left of the last
LEMMA ChunkJoins ==
  ASSUME NEW m, NEW from, NEW rest, NEW start, NEW end, NEW tk, NEW p, NEW h, NEW d,
         Joins(m, from, rest, start, end, tk, p, h, d)
  PROVE  /\ Ahead(d.mem, d.from, d.end, tk, p, rest + h.size)
         /\ \A k \in 1 .. h.size : IsPayload(tk - d.end + d.from + rest + k, p + rest + k)
<1> SUFFICES ASSUME WireInv, chunked, m \in [Memory -> Int], from \in Nat, rest \in Nat,
                    start = from + rest, end \in 0 .. BufferSize, start <= end,
                    tk \in 0 .. Len(wire), p \in Int, Ahead(m, from, end, tk, p, rest),
                    h = ParseChunkHeader(m, start, end), h.is \notin {"malformed", "more"},
                    \/ rest = 0 /\ d = [mem |-> m, from |-> h.end, end |-> end]
                    \/ d = DropHeader(m, from, rest, start, h.end, end)
             PROVE  /\ Ahead(d.mem, d.from, d.end, tk, p, rest + h.size)
                    /\ \A k \in 1 .. h.size :
                          IsPayload(tk - d.end + d.from + rest + k, p + rest + k)
  BY DEF Joins
<1> DEFINE q == tk - end + start
<1>0. /\ start \in Nat /\ end \in Nat /\ Len(wire) \in Nat /\ tk \in Nat /\ tk <= Len(wire)
      /\ q \in Int /\ BufferSize \in Nat
  BY WireBytes, Parameters
<1>1. /\ \A j \in Nat : View(m, end, tk, from + j) =
                          IF j < rest THEN p + j + 1 ELSE wire[tk - end + from + j + 1]
      /\ Joint(tk - end + from + rest, p + rest)
  BY DEF Ahead
<1>2. tk - end + from + rest = q
  BY <1>0
<1>3. q # Len(wire) - 2
  <2>1. PICK n, b, number : ReadHeader(m, start, end, h, n, b, number)
    BY HeaderIsRead
  <2>2. n \in Nat /\ start + n + 4 <= end
    BY <2>1 DEF ReadHeader
  <2> QED
    BY <1>0, <2>2
<1>4. PICK c \in 0 .. 9, z \in 0 .. 2 :
        /\ q \in Nat /\ HeaderAt(q, c, z) /\ Joint(q + z + 5 + c, p + rest + c)
        /\ \A k \in 1 .. c : wire[q + z + 5 + k] = p + rest + k
  <2>1. Joint(q, p + rest) /\ p + rest \in Int
    BY <1>1, <1>2
  <2> HIDE DEF q
  <2> QED
    BY ONLY <1>0, <1>3, <2>1, WireInv, chunked, TurnAnnounces
<1>5. \A k \in Nat : View(m, end, tk, start + k) = wire[q + k + 1]
  <2> SUFFICES ASSUME NEW k \in Nat PROVE View(m, end, tk, start + k) = wire[q + k + 1]
    OBVIOUS
  <2>1. /\ rest + k \in Nat /\ ~(rest + k < rest) /\ from + (rest + k) = start + k
        /\ tk - end + from + (rest + k) + 1 = q + k + 1
    BY <1>0
  <2> QED
    BY <1>1, <2>1
<1>6. h.size = c /\ h.end = start + z + 5
  <2>1. \A k \in Nat : start + k < end => m[start + k] = wire[q + k + 1]
    BY <1>5 DEF View
  <2> HIDE DEF q
  <2>2. HeaderHere(m, start, end, h, q, c, z)
    BY <1>0, <1>4, <2>1 DEF HeaderHere
  <2> QED
    BY <2>2, HeaderSize
<1>7. h.end \in Nat /\ start <= h.end /\ h.end <= end
  BY ParsedHeader
<1>8. ReadsOn(d, m, from, rest, h.end, end, tk)
  <2> HIDE DEF q
  <2>1. CASE rest = 0 /\ d = [mem |-> m, from |-> h.end, end |-> end]
    <3>1. d.mem = m /\ d.from = h.end /\ d.end = end
      BY <2>1
    <3>2. h.end + rest = h.end
      BY <1>7, <2>1
    <3>3. d.from \in Int /\ d.end \in Int /\ d.from + rest - d.end = h.end - end
      BY <1>0, <1>7, <3>1, <3>2
    <3>4. \A j \in Nat : ~(j < rest)
      BY <2>1
    <3>5. \A k \in Nat : View(d.mem, d.end, tk, d.from + rest + k) = View(m, end, tk, h.end + k)
      BY <3>1, <3>2
    <3> QED
      BY ONLY <3>3, <3>4, <3>5 DEF ReadsOn
  <2>2. CASE d = DropHeader(m, from, rest, start, h.end, end)
    <3>1. WithoutHeader(m, from, rest, start, h.end, end, d)
      BY <1>0, <1>7, <2>2 DEF WithoutHeader
    <3>2. tk \in Int
      BY <1>0
    <3> QED
      BY <3>1, <3>2, DropHeaderViews
  <2> QED
    BY <2>1, <2>2
<1>a. /\ \A j \in Nat : j < rest => View(d.mem, d.end, tk, d.from + j) = View(m, end, tk, from + j)
      /\ \A k \in Nat : View(d.mem, d.end, tk, d.from + rest + k) = View(m, end, tk, h.end + k)
  BY <1>8 DEF ReadsOn
<1>b. d.from \in Int /\ d.end \in Int /\ d.from + rest - d.end = start + z + 5 - end
  <2> HIDE DEF q
  <2>1. d.from \in Int /\ d.end \in Int /\ d.from + rest - d.end = h.end - end
    BY <1>8 DEF ReadsOn
  <2> QED
    BY <1>6, <2>1
<1>c. \A a, e \in Int : a + rest - e = start + z + 5 - end => tk - e + a + rest = q + z + 5
  BY <1>0
<1>d. tk - d.end + d.from + rest = q + z + 5
  BY <1>b, <1>c
<1> HIDE DEF q
<1> DEFINE r == rest + c
<1>9. r \in Nat
  OBVIOUS
<1>10. ASSUME NEW j \in Nat
       PROVE  View(d.mem, d.end, tk, d.from + j) =
                IF j < r THEN p + j + 1 ELSE wire[tk - d.end + d.from + j + 1]
  <2>1. CASE j < rest
    <3>1. View(d.mem, d.end, tk, d.from + j) = p + j + 1
      BY <1>1, <1>a, <2>1
    <3> QED
      BY <2>1, <3>1
  <2>2. CASE ~(j < rest)
    <3> DEFINE k == j - rest
    <3>1. k \in Nat /\ d.from + rest + k = d.from + j
      BY <1>b, <2>2
    <3>2. z + 5 + k \in Nat /\ h.end + k = start + (z + 5 + k)
      BY <1>0, <1>6, <3>1
    <3>3. View(d.mem, d.end, tk, d.from + j) = wire[q + (z + 5 + k) + 1]
      <4>1. View(d.mem, d.end, tk, d.from + j) = View(m, end, tk, h.end + k)
        BY <1>a, <3>1
      <4>2. View(m, end, tk, start + (z + 5 + k)) = wire[q + (z + 5 + k) + 1]
        BY <1>5, <3>2
      <4> QED
        BY <3>2, <4>1, <4>2
    <3>4. tk - d.end + d.from + j + 1 = q + (z + 5 + k) + 1
      <4>1. \A a, e \in Int : tk - e + a + rest = q + z + 5
                             => tk - e + a + j + 1 = q + (z + 5 + k) + 1
        BY <1>0
      <4> HIDE DEF q, r
      <4>2. d.from \in Int /\ d.end \in Int
        BY <1>b
      <4> QED
        BY ONLY <1>d, <4>1, <4>2
    <3>5. CASE j < r
      <4>1. k + 1 \in 1 .. c /\ q + z + 5 + (k + 1) = q + (z + 5 + k) + 1
            /\ p + rest + (k + 1) = p + j + 1
        BY <1>0, <3>1, <3>5
      <4> QED
        BY <1>4, <3>3, <3>5, <4>1
    <3>6. CASE ~(j < r)
      BY <3>3, <3>4, <3>6
    <3> QED
      BY <3>5, <3>6
  <2> QED
    BY <2>1, <2>2
<1>11. Joint(tk - d.end + d.from + r, p + r)
  <2>1. tk - d.end + d.from + r = q + z + 5 + c /\ p + r = p + rest + c
    <3>1. \A a, e \in Int : tk - e + a + rest = q + z + 5
                           => tk - e + a + r = q + z + 5 + c
      BY <1>0
    <3>2. d.from \in Int /\ d.end \in Int
      BY <1>b
    <3>3. tk - d.end + d.from + r = q + z + 5 + c
      <4> HIDE DEF q, r
      <4> QED
        BY ONLY <1>d, <3>1, <3>2
    <3>4. p + r = p + rest + c
      BY <1>0
    <3> QED
      BY <3>3, <3>4
  <2> QED
    BY <1>4, <2>1
<1> HIDE DEF r
<1>12. Ahead(d.mem, d.from, d.end, tk, p, r)
  BY <1>9, <1>10, <1>11 DEF Ahead
<1>13. ASSUME NEW k \in 1 .. c PROVE IsPayload(tk - d.end + d.from + rest + k, p + rest + k)
  <2>1. q + z + 5 + k \in 1 .. Len(wire)
    <3>1. q + z + 5 + c \in Int /\ p + rest + c \in Int
      BY <1>0
    <3>2. q + z + 5 + c <= Len(wire)
      BY <1>4, <3>1, JointInside
    <3> QED
      BY <1>0, <1>4, <3>2
  <2>2. tk - d.end + d.from + rest + k = q + z + 5 + k
    BY <1>d
  <2> QED
    BY <1>4, <2>1, <2>2 DEF IsPayload
<1> QED
  BY <1>6, <1>12, <1>13 DEF r

-----------------------------------------------------------------------------
(* The bytes that a read returns.                                          *)

\* where the data that the reader has to go on with starts
At == IF pc \in InCall THEN call.from ELSE Place

\* how many bytes of payload come before it
Had == IF pc \in InCall THEN pos + call.want - call.size ELSE pos

\* how many are left there: in a response without chunks all of it is
Rest == IF ~chunked THEN Len(wire) - (taken - streamDataEnd + At)
        ELSE IF pc \in InCall THEN call.remaining ELSE chunkEnd - Place

Reading == Idle \cup InCall \cup {"copying"}

\* what is ahead of the reader is the payload that it has not had
AheadInv == pc \in Reading => Ahead(mem, At, streamDataEnd, taken, Had, Rest)

\* the last read returned payload in its order
OutInv == out \in Seq(Int) /\ BytesInOrder

OrderInv == AheadInv /\ OutInv

\* the response does not change, so neither does what is ahead in it
LEMMA AheadAfter ==
  ASSUME UNCHANGED <<chunked, wire>>,
         pc' \in Reading => Ahead(mem', At', streamDataEnd', taken', Had', Rest')
  PROVE  AheadInv'
<1>1. Response' = Response
  BY DEF Response, Responds
<1> QED
  BY <1>1 DEF AheadInv, Reading, Ahead, View, Joint, Turn, Whole

\* without chunks all that is left of the response is ahead
LEMMA PlainAhead ==
  ASSUME ~chunked, NEW m, NEW at \in Int, NEW end \in Int, NEW tk \in Int, NEW p, NEW r,
         Ahead(m, at, end, tk, p, r), Len(wire) \in Nat
  PROVE  /\ r \in Nat /\ r = Len(wire) - (tk - end + at)
         /\ \A s \in Int : at + s <= end /\ tk <= Len(wire) => s <= r
<1>1. r \in Nat /\ tk - end + at + r = Len(wire)
  BY DEF Ahead, Joint
<1> QED
  BY <1>1

\* b is n bytes of payload behind the first p
Follows(b, n, p) == b \in Seq(Int) /\ Len(b) = n /\ \A i \in 1 .. n : b[i] = p + i

\* bytes that are in the buffer are the payload that comes next
LEMMA BytesAhead ==
  ASSUME NEW m \in [Memory -> Int], NEW at \in Nat, NEW end \in 0 .. BufferSize, NEW tk \in Int,
         NEW p \in Int, NEW r, Ahead(m, at, end, tk, p, r),
         NEW n \in Nat, n <= r, at + n <= end
  PROVE  Follows(Bytes(m, at, n), n, p)
<1>1. r \in Nat /\ \A j \in Nat : View(m, end, tk, at + j) =
                      IF j < r THEN p + j + 1 ELSE wire[tk - end + at + j + 1]
  BY DEF Ahead
<1>2. ASSUME NEW i \in 1 .. n PROVE m[at + i - 1] = p + i /\ m[at + i - 1] \in Int
  <2>1. i - 1 \in Nat /\ i - 1 < r /\ at + (i - 1) < end /\ p + (i - 1) + 1 = p + i
        /\ at + (i - 1) = at + i - 1
    BY <1>1
  <2>2. View(m, end, tk, at + (i - 1)) = p + i
    BY <1>1, <2>1
  <2> QED
    BY <2>1, <2>2 DEF View
<1>3. Bytes(m, at, n) = [i \in 1 .. n |-> p + i]
  <2>1. [i \in 1 .. n |-> m[at + i - 1]] = [i \in 1 .. n |-> p + i]
    BY <1>2
  <2> QED
    BY <2>1 DEF Bytes
<1>4. [i \in 1 .. n |-> p + i] \in Seq(Int) /\ Len([i \in 1 .. n |-> p + i]) = n
  OBVIOUS
<1> QED
  BY <1>3, <1>4 DEF Follows

\* the reader has nothing to go on with but the rest of the chunk
LEMMA IdleAhead ==
  ASSUME ReaderInv, AheadInv, pc \in Idle \cup {"copying"}
  PROVE  /\ At = Place /\ Had = pos /\ Rest \in Nat
         /\ Ahead(mem, Place, streamDataEnd, taken, pos, Rest)
         /\ \A s \in Nat : Place + s <= dataEnd => s <= Rest
<1>1. /\ pc \notin InCall /\ Place \in 0 .. dataEnd /\ dataEnd <= dataEnd0
      /\ dataEnd0 <= streamDataEnd /\ (chunked => dataEnd0 <= chunkEnd)
  BY IdleTypes
<1>2. At = Place /\ Had = pos
  BY <1>1 DEF At, Had
<1>3. Ahead(mem, Place, streamDataEnd, taken, pos, Rest)
  BY <1>2 DEF AheadInv, Reading
<1>4. Rest \in Nat
  BY <1>3 DEF Ahead
<1>5. /\ streamDataEnd \in Nat /\ taken \in Nat /\ dataEnd \in Int /\ dataEnd0 \in Int
      /\ chunkEnd \in Int
  BY StoreNumbers DEF ReaderInv
<1>6. ASSUME NEW s \in Nat, Place + s <= dataEnd PROVE s <= Rest
  <2>1. CASE chunked
    <3>1. Rest = chunkEnd - Place
      BY <1>1, <2>1 DEF Rest
    <3> QED
      BY <1>1, <1>5, <1>6, <2>1, <3>1
  <2>2. CASE ~chunked
    <3>1. taken <= Len(wire) /\ Len(wire) \in Nat
      BY StoreTypes DEF ReaderInv
    <3>2. Place \in Int /\ streamDataEnd \in Int /\ taken \in Int /\ Place + s <= streamDataEnd
      BY <1>1, <1>5, <1>6
    <3> QED
      BY <1>3, <2>2, <3>1, <3>2, PlainAhead
  <2> QED
    BY <2>1, <2>2
<1> QED
  BY <1>2, <1>3, <1>4, <1>6

\* a call that starts has ahead of it what the reader had
LEMMA CrossAhead ==
  ASSUME NEW from \in Int, NEW n \in Nat, NEW skip, NEW left, NEW then, NEW p \in Int,
         chunked \in BOOLEAN, UNCHANGED <<chunked, wire, mem, streamDataEnd, taken, chunkEnd>>,
         pos' = p, NEW r,
         r = (IF chunked THEN chunkEnd - from ELSE Len(wire) - (taken - streamDataEnd + from)),
         Ahead(mem, from, streamDataEnd, taken, p, r),
         Cross(from, n, skip, left, then)
  PROVE  AheadInv'
<1>1. CASE from + n > contentEnd
  <2>1. pc' = "threw"
    BY <1>1 DEF Cross
  <2> QED
    BY <2>1 DEF AheadInv, Reading, Idle, InCall
<1>2. CASE ~(from + n > contentEnd)
  <2> DEFINE rest == IF chunked THEN chunkEnd - from ELSE n
  <2>1. /\ call' = [skip |-> skip, from |-> from, size |-> n, remaining |-> rest,
                    hdr |-> HeaderMin, end |-> from + n, want |-> n, left |-> left,
                    then |-> then]
        /\ pc' \in InCall
    BY <1>2 DEF Cross, InCall
  <2>2. call'.from = from /\ call'.remaining = rest /\ call'.want = n /\ call'.size = n
    BY <2>1
  <2>3. At' = from /\ Had' = p
    <3>1. p + n - n = p
      OBVIOUS
    <3> QED
      BY <2>1, <2>2, <3>1 DEF At, Had
  <2>4. Rest' = r
    BY <2>1, <2>2, <2>3 DEF Rest
  <2> QED
    BY <2>3, <2>4, AheadAfter
<1> QED
  BY <1>1, <1>2

\* n bytes that follow the first p of the payload are in order
LEMMA ReturnedInOrder ==
  ASSUME NEW p \in Int, NEW n \in Nat, Follows(out', n, p), pos' = p + n
  PROVE  OutInv'
<1>1. ASSUME NEW i \in 1 .. Len(out') PROVE out'[i] = pos' - Len(out') + i
  <2>1. i \in 1 .. n /\ pos' - Len(out') + i = p + i
    BY DEF Follows
  <2> QED
    BY <2>1 DEF Follows
<1> QED
  BY <1>1 DEF OutInv, BytesInOrder, Follows

\* a read or skip that starts
LEMMA AccessInOrder ==
  ASSUME ReaderInv, OrderInv, pc \in Idle, NEW n \in Nat, NEW skip, NEW then \in Idle,
         Access(n, skip, then)
  PROVE  OrderInv'
<1>1. /\ UNCHANGED <<chunked, wire, streamDataEnd, taken, dataEnd, dataEnd0,
                     contentEnd, chunkEnd, ends>>
  BY DEF Access
<1>2. /\ pc \notin InCall /\ Place = dataPtr /\ dataPtr \in 0 .. dataEnd
      /\ dataEnd <= dataEnd0 /\ dataEnd0 <= streamDataEnd
  BY IdleTypes DEF Idle
<1>3. /\ Rest \in Nat /\ Ahead(mem, dataPtr, streamDataEnd, taken, pos, Rest)
      /\ \A s \in Nat : dataPtr + s <= dataEnd => s <= Rest
  BY <1>2, IdleAhead DEF OrderInv
<1>4. /\ streamDataEnd \in 0 .. BufferSize /\ taken \in Int /\ dataEnd \in Int /\ dataEnd0 \in Int
      /\ pos \in Int /\ dataPtr \in Nat /\ chunkEnd \in Int /\ chunked \in BOOLEAN
      /\ mem \in [Memory -> Int] /\ Len(wire) \in Nat
  BY <1>2, StoreTypes DEF ReaderInv, StoreInv
<1>5. CASE dataPtr + n <= dataEnd
  <2>1. /\ dataPtr' = dataPtr + n /\ pos' = pos + n /\ pc' = then
        /\ mem' = Live(mem, dataPtr + n, streamDataEnd)
        /\ out' = IF skip THEN <<>> ELSE Bytes(mem, dataPtr, n)
    BY <1>5 DEF Access
  <2>2. n <= Rest /\ dataPtr + n <= streamDataEnd
    BY <1>2, <1>3, <1>4, <1>5
  <2>3. Ahead(mem, dataPtr + n, streamDataEnd, taken, pos + n, Rest - n)
    BY <1>3, <1>4, <2>2, AheadAdvances
  <2>4. Ahead(mem', dataPtr + n, streamDataEnd, taken, pos + n, Rest - n)
    <3>1. dataPtr + n \in Nat
      BY <1>4
    <3> QED
      BY <1>4, <2>1, <2>3, <3>1, AheadLives
  <2>5. pc' \notin InCall /\ Place' = dataPtr + n
    BY <2>1 DEF Place, Idle, InCall
  <2>6. At' = dataPtr + n /\ Had' = pos + n
    BY <2>1, <2>5 DEF At, Had
  <2>7. Rest' = Rest - n
    <3>1. CASE chunked
      BY <1>1, <1>2, <1>4, <2>5, <3>1 DEF Rest
    <3>2. CASE ~chunked
      BY <1>1, <1>2, <1>4, <2>5, <2>6, <3>2 DEF Rest, At
    <3> QED
      BY <3>1, <3>2
  <2>8. AheadInv'
    BY <1>1, <2>4, <2>6, <2>7, AheadAfter
  <2>9. OutInv'
    <3>1. CASE skip
      <4>1. out' = <<>> /\ Len(out') = 0
        BY <2>1, <3>1
      <4> QED
        BY <4>1 DEF OutInv, BytesInOrder
    <3>2. CASE ~skip
      <4>1. out' = Bytes(mem, dataPtr, n)
        BY <2>1, <3>2
      <4>2. Follows(out', n, pos)
        BY <1>3, <1>4, <2>2, <4>1, BytesAhead
      <4> QED
        BY <1>4, <2>1, <4>2, ReturnedInOrder
    <3> QED
      BY <3>1, <3>2
  <2> QED
    BY <2>8, <2>9 DEF OrderInv
<1>6. CASE ~(dataPtr + n <= dataEnd)
  <2>1. UNCHANGED <<mem, dataPtr, pos>> /\ out' = <<>> /\ Cross(dataPtr, n, skip, 0, then)
    BY <1>6 DEF Access
  <2>2. Rest = (IF chunked THEN chunkEnd - dataPtr
                ELSE Len(wire) - (taken - streamDataEnd + dataPtr))
    BY <1>2 DEF Rest, At
  <2>3. AheadInv'
    BY <1>1, <1>3, <1>4, <2>1, <2>2, CrossAhead
  <2>4. OutInv'
    <3>1. Len(out') = 0
      BY <2>1
    <3> QED
      BY <2>1, <3>1 DEF OutInv, BytesInOrder
  <2> QED
    BY <2>3, <2>4 DEF OrderInv
<1> QED
  BY <1>5, <1>6

\* what a call under way has ahead of it
LEMMA CallAhead ==
  ASSUME ReaderInv, AheadInv, pc \in InCall
  PROVE  /\ Had = pos + call.want - call.size /\ Had \in Int /\ Rest \in Nat
         /\ Ahead(mem, call.from, streamDataEnd, taken, Had, Rest)
         /\ chunked => Rest = call.remaining
<1>1. At = call.from /\ Had = pos + call.want - call.size /\ (chunked => Rest = call.remaining)
  BY DEF At, Had, Rest
<1>2. Ahead(mem, call.from, streamDataEnd, taken, Had, Rest)
  BY <1>1 DEF AheadInv, Reading
<1>3. Rest \in Nat
  BY <1>2 DEF Ahead
<1>4. Had \in Int
  <2>1. pos \in Int /\ call.want \in Nat /\ call.size \in Nat
    BY CallTypes, StoreNumbers DEF ReaderInv
  <2> QED
    BY <1>1, <2>1
<1> QED
  BY <1>1, <1>2, <1>3, <1>4

\* the call that has its bytes returns them
LEMMA FillInOrder ==
  ASSUME ReaderInv, OrderInv, FillFromChunk
  PROVE  OrderInv'
<1>1. pc = "fill" /\ pc \in InCall /\ StoreInv /\ CallInv
  BY DEF FillFromChunk, InCall, ReaderInv
<1>2. /\ call.skip \in BOOLEAN /\ call.size \in Nat /\ call.remaining \in Nat /\ call.want \in Nat
      /\ call.remaining >= call.size /\ (~call.skip => call.want = call.size)
      /\ call.then \in Idle \cup {"copying"} /\ (call.then = "copying" => ~call.skip)
      /\ call.from \in 0 .. streamDataEnd
  <2>1. call.remaining >= call.size
    BY <1>1 DEF CallInv
  <2> QED
    BY <1>1, <2>1, CallTypes, CallStarts
<1>3. /\ Had = pos + call.want - call.size /\ Had \in Int /\ Rest \in Nat
      /\ Ahead(mem, call.from, streamDataEnd, taken, Had, Rest)
      /\ chunked => Rest = call.remaining
  BY <1>1, CallAhead DEF OrderInv
<1>4. /\ wire \in Seq(Int) /\ Len(wire) \in Nat /\ taken \in 0 .. Len(wire) /\ taken \in Nat
      /\ taken \in Int /\ mem \in [Memory -> Int] /\ streamDataEnd \in 0 .. BufferSize
      /\ streamDataEnd \in Int /\ pos \in Int /\ chunked \in BOOLEAN
  BY <1>1, StoreTypes DEF StoreInv
<1>5. PICK r, rest : 
        /\ Finish(r, rest)
        /\ rest = (IF call.skip THEN call.remaining - call.size ELSE call.remaining)
        /\ IF call.skip THEN r \in SkipStream(call.from, call.size)
           ELSE r \in GetFromStream(call.from, call.size)
  BY DEF FillFromChunk
<1> DEFINE ptr == IF call.skip THEN r.from ELSE r.from + call.want
           copying == call.then = "copying"
           place == IF copying THEN r.from ELSE ptr
<1>6. /\ taken' = r.taken /\ streamDataEnd' = r.end
      /\ chunkEnd' = (IF chunked THEN r.from + rest ELSE chunkEnd)
      /\ mem' = Live(r.mem, place, r.end) /\ dataPtr' = place
      /\ pos' = (IF copying THEN pos ELSE pos + call.want)
      /\ pc' = call.then
      /\ call' = (IF copying THEN [NoCall EXCEPT !.from = r.from, !.left = call.left] ELSE NoCall)
      /\ UNCHANGED <<chunked, wire>>
  BY <1>5 DEF Finish
<1>c. /\ copying => out' = out
      /\ ~copying /\ call.skip => out' = <<>>
      /\ ~copying /\ ~call.skip => out' = Bytes(r.mem, r.from, call.want)
  <2>1. out' = CASE copying -> out [] call.skip -> <<>> [] OTHER -> Bytes(r.mem, r.from, call.want)
    BY <1>5 DEF Finish
  <2>2. copying => ~call.skip
    BY <1>2
  <2> HIDE DEF copying
  <2> QED
    BY <1>2, <2>1, <2>2
<1>7. Buffered(r, IF call.skip THEN 0 ELSE call.size)
  BY <1>2, <1>4, <1>5, SkipStreamBuffers, GetFromStreamBuffers
<1>8. /\ r.mem \in [Memory -> Int] /\ r.end \in 0 .. BufferSize /\ r.taken \in 0 .. Len(wire)
      /\ r.from \in Nat /\ r.from + (IF call.skip THEN 0 ELSE call.size) <= r.end
  BY <1>7 DEF Buffered
<1>a. r.end \in Int /\ r.taken \in Int /\ r.taken <= Len(wire)
  BY <1>4, <1>8, Parameters
<1>b. pc' \notin InCall /\ Place' = place
  <2>1. pc' \notin InCall
    BY <1>2, <1>6 DEF Idle, InCall
  <2>2. CASE copying
    <3>1. call'.from = r.from
      BY <1>6, <2>2 DEF NoCall
    <3> QED
      BY <1>6, <2>1, <2>2, <3>1 DEF Place
  <2>3. CASE ~copying
    BY <1>6, <2>1, <2>3 DEF Place
  <2> QED
    BY <2>2, <2>3
<1>9. ASSUME NEW s \in Nat, Ahead(mem', place, r.end, r.taken, pos', s),
             chunked => r.from + rest - place = s
      PROVE  AheadInv'
  <2>1. At' = place /\ Had' = pos'
    BY <1>b DEF At, Had
  <2>2. Rest' = s
    <3>1. CASE chunked
      <4>1. chunkEnd' = r.from + rest /\ chunked' = chunked
        BY <1>6, <3>1
      <4>2. r.from + rest - place = s
        BY <1>9, <3>1
      <4>3. Place' = place /\ pc' \notin InCall
        BY <1>b
      <4>5. rest \in Int /\ r.from \in Int /\ place \in Int
        BY <1>2, <1>5, <1>8
      <4> HIDE DEF place
      <4>4. Rest' = chunkEnd' - Place'
        BY <3>1, <4>1, <4>3 DEF Rest
      <4> QED
        BY ONLY <4>1, <4>2, <4>3, <4>4, <4>5
    <3>2. CASE ~chunked
      <4>1. place \in Int
        BY <1>2, <1>8
      <4>2. s = Len(wire) - (r.taken - r.end + place)
        BY <1>4, <1>9, <1>a, <3>2, <4>1, PlainAhead
      <4> QED
        BY <1>6, <2>1, <3>2, <4>2 DEF Rest
    <3> QED
      BY <3>1, <3>2
  <2> QED
    BY <1>6, <1>9, <2>1, <2>2, AheadAfter
<1>10. CASE call.skip
  <2>1. r \in SkipStream(call.from, call.size) /\ rest = call.remaining - call.size
    BY <1>5, <1>10
  <2>2. call.size <= Rest
    <3>1. CASE chunked
      BY <1>2, <1>3, <3>1
    <3>2. CASE ~chunked
      <4>1. call.from + call.size - streamDataEnd <= Len(wire) - taken
        BY <1>2, <1>4, <2>1, SkipStreamFinds
      <4>2. Rest = Len(wire) - (taken - streamDataEnd + call.from)
        BY <1>1, <3>2 DEF Rest, At
      <4> QED
        BY <1>2, <1>4, <4>1, <4>2
    <3> QED
      BY <3>1, <3>2
  <2>3. Ahead(r.mem, r.from, r.end, r.taken, Had + call.size, Rest - call.size)
    BY <1>2, <1>3, <1>4, <2>1, <2>2, SkipKeepsAhead
  <2>4. place = r.from /\ pos' = Had + call.size /\ out' = <<>>
    BY <1>2, <1>3, <1>4, <1>6, <1>c, <1>10
  <2>5. Ahead(mem', place, r.end, r.taken, pos', Rest - call.size)
    BY <1>6, <1>8, <1>a, <2>3, <2>4, AheadLives
  <2>6. Rest - call.size \in Nat /\ (chunked => r.from + rest - place = Rest - call.size)
    <3>1. call.size \in Int /\ call.size <= Rest /\ Rest \in Nat
      BY <1>2, <1>3, <2>2
    <3>2. chunked => r.from + rest - place = Rest - call.size
      <4>1. chunked => Rest = call.remaining
        BY <1>2, <1>3
      <4>2. r.from \in Int /\ call.remaining \in Int
        BY <1>2, <1>8
      <4> HIDE DEF place
      <4> QED
        BY ONLY <2>1, <2>4, <3>1, <4>1, <4>2
    <3> QED
      BY <3>1, <3>2
  <2>7. AheadInv'
    BY <1>9, <2>5, <2>6
  <2>8. OutInv'
    <3>1. Len(out') = 0
      BY <2>4
    <3> QED
      BY <2>4, <3>1 DEF OutInv, BytesInOrder
  <2> QED
    BY <2>7, <2>8 DEF OrderInv
<1>11. CASE ~call.skip
  <2>1. r \in GetFromStream(call.from, call.size) /\ rest = call.remaining /\ call.want = call.size
    BY <1>2, <1>5, <1>11
  <2>2. Ahead(r.mem, r.from, r.end, r.taken, pos, Rest)
    <3>1. Had = pos
      BY <1>2, <1>3, <1>4, <2>1
    <3> QED
      BY <1>2, <1>3, <1>4, <2>1, <3>1, GetKeepsAhead
  <2>3. call.size <= Rest
    <3>1. CASE chunked
      BY <1>2, <1>3, <3>1
    <3>2. CASE ~chunked
      <4>1. r.from \in Int /\ call.size \in Int /\ r.from + call.size <= r.end
        BY <1>2, <1>8, <1>11
      <4> QED
        BY <1>4, <1>a, <2>2, <3>2, <4>1, PlainAhead
    <3> QED
      BY <3>1, <3>2
  <2>4. CASE copying
    <3>1. place = r.from /\ pos' = pos /\ out' = out
      BY <1>6, <1>c, <2>4
    <3>2. Ahead(mem', place, r.end, r.taken, pos', Rest)
      BY <1>6, <1>8, <1>a, <2>2, <3>1, AheadLives
    <3>3. chunked => r.from + rest - place = Rest
      BY <1>2, <1>3, <1>8, <2>1, <3>1
    <3>4. AheadInv'
      BY <1>3, <1>9, <3>2, <3>3
    <3> QED
      BY <3>1, <3>4 DEF OrderInv, OutInv, BytesInOrder
  <2>5. CASE ~copying
    <3>1. /\ place = r.from + call.size /\ pos' = pos + call.size
          /\ out' = Bytes(r.mem, r.from, call.size)
      BY <1>6, <1>c, <1>11, <2>1, <2>5
    <3>2. place \in Nat /\ r.from \in Int /\ r.from + call.size <= r.end
      BY <1>2, <1>8, <1>11, <3>1
    <3>3. Ahead(r.mem, place, r.end, r.taken, pos', Rest - call.size)
      <4> HIDE DEF place
      <4>1. call.size \in Nat /\ pos \in Int /\ Rest \in Nat /\ r.from \in Int
        BY <1>2, <1>3, <1>4, <3>2
      <4>2. Ahead(r.mem, r.from + call.size, r.end, r.taken, pos + call.size, Rest - call.size)
        BY <1>a, <2>2, <2>3, <3>1, <3>2, <4>1, AheadAdvances
      <4> QED
        BY <3>1, <4>2
    <3>4. Ahead(mem', place, r.end, r.taken, pos', Rest - call.size)
      BY <1>6, <1>8, <1>a, <3>2, <3>3, AheadLives
    <3>5. Rest - call.size \in Nat /\ (chunked => r.from + rest - place = Rest - call.size)
      BY <1>2, <1>3, <1>8, <2>1, <2>3, <3>1
    <3>6. AheadInv'
      BY <1>9, <3>4, <3>5
    <3>7. OutInv'
      <4>1. Follows(out', call.size, pos)
        BY <1>2, <1>4, <1>8, <1>a, <2>2, <2>3, <3>1, <3>2, BytesAhead
      <4> QED
        BY <1>2, <1>4, <3>1, <4>1, ReturnedInOrder
    <3> QED
      BY <3>6, <3>7 DEF OrderInv
  <2> QED
    BY <2>4, <2>5
<1> QED
  BY <1>10, <1>11

\* the rest of a chunk is skipped
LEMMA SkipRestInOrder ==
  ASSUME ReaderInv, OrderInv, SkipRestOfChunk
  PROVE  OrderInv'
<1>1. pc = "chunk" /\ pc \in InCall /\ StoreInv /\ CallInv
  BY DEF SkipRestOfChunk, InCall, ReaderInv
<1>2. /\ call \in CallRecord /\ call.size \in Nat /\ call.remaining \in Nat /\ call.want \in Nat
      /\ call.from \in 0 .. streamDataEnd /\ chunked
  <2>1. chunked /\ call \in CallRecord
    BY <1>1 DEF CallInv
  <2> QED
    BY <1>1, <2>1, CallTypes, CallStarts
<1>3. /\ Had = pos + call.want - call.size /\ Had \in Int
      /\ Ahead(mem, call.from, streamDataEnd, taken, Had, call.remaining)
  BY <1>1, <1>2, CallAhead DEF OrderInv
<1>4. /\ wire \in Seq(Int) /\ Len(wire) \in Nat /\ taken \in 0 .. Len(wire) /\ taken \in Nat
      /\ mem \in [Memory -> Int] /\ streamDataEnd \in 0 .. BufferSize /\ pos \in Int
  BY <1>1, StoreTypes DEF StoreInv
<1>5. PICK r \in SkipStream(call.from, call.remaining) :
        /\ mem' = Live(r.mem, r.from, r.end) /\ streamDataEnd' = r.end /\ taken' = r.taken
        /\ call' = [call EXCEPT !.from = r.from, !.remaining = 0, !.size = @ - call.remaining]
  BY DEF SkipRestOfChunk
<1>6. pc' \in InCall /\ UNCHANGED <<chunked, wire, pos, out>>
  BY DEF SkipRestOfChunk, history, InCall
<1>7. r.end \in 0 .. BufferSize /\ r.taken \in 0 .. Len(wire) /\ r.from \in Nat
  BY <1>2, <1>4, <1>5, SkipStreamBuffers DEF Buffered
<1>8. Ahead(r.mem, r.from, r.end, r.taken, Had + call.remaining, 0)
  <2>1. call.remaining <= call.remaining /\ call.remaining - call.remaining = 0
    BY <1>2
  <2> QED
    BY <1>2, <1>3, <1>4, <1>5, <2>1, SkipKeepsAhead
<1>9. Ahead(mem', r.from, r.end, r.taken, Had + call.remaining, 0)
  <2>1. r.taken \in Int
    BY <1>4, <1>7
  <2> QED
    BY <1>5, <1>7, <1>8, <2>1, AheadLives
<1>10. /\ call'.from = r.from /\ call'.remaining = 0 /\ call'.want = call.want
       /\ call'.size = call.size - call.remaining
  BY <1>2, <1>5 DEF CallRecord
<1>11. At' = r.from /\ Rest' = 0
  BY <1>2, <1>6, <1>10 DEF At, Rest
<1>12. Had' = Had + call.remaining
  <2>1. Had' = pos + call.want - (call.size - call.remaining)
    BY <1>6, <1>10 DEF Had
  <2>2. pos + call.want - (call.size - call.remaining) = pos + call.want - call.size + call.remaining
    BY <1>2, <1>4
  <2> QED
    BY <1>3, <2>1, <2>2
<1>13. AheadInv'
  BY <1>5, <1>6, <1>9, <1>11, <1>12, AheadAfter
<1> QED
  BY <1>6, <1>13 DEF OrderInv, OutInv, BytesInOrder

\* the header of the next chunk is read
LEMMA NextChunkInOrder ==
  ASSUME ReaderInv, OrderInv, NextChunk
  PROVE  OrderInv'
<1>1. pc = "header" /\ pc \in InCall /\ StoreInv /\ CallInv
  BY DEF NextChunk, InCall, ReaderInv
<1>2. /\ call \in CallRecord /\ chunked /\ (call.skip => call.remaining = 0)
      /\ call.size \in Nat /\ call.remaining \in Nat /\ call.want \in Nat
      /\ call.hdr \in Nat /\ call.hdr >= 5 /\ call.remaining < call.size
      /\ call.from \in 0 .. streamDataEnd
  <2>1. chunked /\ call \in CallRecord /\ (call.skip => call.remaining = 0) /\ call.remaining < call.size
    BY <1>1 DEF CallInv
  <2> QED
    BY <1>1, <2>1, CallTypes, CallStarts
<1>3. /\ Had = pos + call.want - call.size /\ Had \in Int
      /\ Ahead(mem, call.from, streamDataEnd, taken, Had, call.remaining)
  BY <1>1, <1>2, CallAhead DEF OrderInv
<1>4. /\ wire \in Seq(Int) /\ Len(wire) \in Nat /\ taken \in 0 .. Len(wire) /\ taken \in Nat
      /\ mem \in [Memory -> Int] /\ streamDataEnd \in 0 .. BufferSize /\ WireInv
  BY <1>1, StoreTypes DEF StoreInv
<1>5. HeaderNeeds \in Nat /\ call.remaining <= HeaderNeeds
  BY <1>2, Parameters DEF HeaderNeeds, Minimum
<1>6. PICK r \in GetFromStream(call.from, HeaderNeeds) :
        LET start == r.from + call.remaining
            h == ParseChunkHeader(r.mem, start, r.end)
            d == IF call.skip THEN [mem |-> r.mem, from |-> h.end, end |-> r.end]
                 ELSE DropHeader(r.mem, r.from, call.remaining, start, h.end, r.end)
            rest == call.remaining + h.size
        IN /\ taken' = r.taken
           /\ \/ pc' = "malformed"
              \/ /\ mem' = r.mem /\ streamDataEnd' = r.end
                 /\ call' = [call EXCEPT !.from = r.from, !.hdr = @ + 2]
                 /\ pc' = "header"
              \/ /\ h.is \notin {"malformed", "more"}
                 /\ mem' = Live(d.mem, d.from, d.end) /\ streamDataEnd' = d.end
                 /\ call' = [call EXCEPT !.from = d.from, !.hdr = HeaderMin, !.remaining = rest]
                 /\ pc' \in InCall
  BY DEF NextChunk, InCall
<1> DEFINE start == r.from + call.remaining
           h == ParseChunkHeader(r.mem, start, r.end)
           d == IF call.skip THEN [mem |-> r.mem, from |-> h.end, end |-> r.end]
                ELSE DropHeader(r.mem, r.from, call.remaining, start, h.end, r.end)
           rest == call.remaining + h.size
           More == /\ mem' = r.mem /\ streamDataEnd' = r.end
                   /\ call' = [call EXCEPT !.from = r.from, !.hdr = @ + 2]
                   /\ pc' = "header"
           Parsed == /\ h.is \notin {"malformed", "more"}
                     /\ mem' = Live(d.mem, d.from, d.end) /\ streamDataEnd' = d.end
                     /\ call' = [call EXCEPT !.from = d.from, !.hdr = HeaderMin, !.remaining = rest]
                     /\ pc' \in InCall
<1>7. taken' = r.taken /\ (pc' = "malformed" \/ More \/ Parsed)
  BY <1>6
<1>8. UNCHANGED <<chunked, wire, pos, out>>
  BY DEF NextChunk, history
<1>9. /\ r.mem \in [Memory -> Int] /\ r.end \in 0 .. BufferSize /\ r.end \in Nat /\ r.from \in Nat
      /\ r.taken \in 0 .. Len(wire) /\ r.taken \in Int
      /\ start \in Nat /\ start <= r.end
  <2>1. /\ r.mem \in [Memory -> Int] /\ r.end \in 0 .. BufferSize /\ r.taken \in 0 .. Len(wire)
        /\ r.from \in Nat /\ r.from + HeaderNeeds <= r.end
    BY <1>2, <1>4, <1>5, GetFromStreamBuffers DEF Buffered
  <2>2. r.end \in Nat /\ r.taken \in Int
    BY <1>4, <2>1, Parameters
  <2> QED
    BY <1>2, <1>5, <2>1, <2>2
<1>10. Ahead(r.mem, r.from, r.end, r.taken, Had, call.remaining)
  BY <1>2, <1>3, <1>4, <1>5, GetKeepsAhead
<1>11. OutInv'
  BY <1>8 DEF OrderInv, OutInv, BytesInOrder
<1>12. CASE pc' = "malformed"
  <2>1. AheadInv'
    BY <1>12 DEF AheadInv, Reading, Idle, InCall
  <2> QED
    BY <1>11, <2>1 DEF OrderInv
<1>13. CASE More
  <2>1. /\ call'.from = r.from /\ call'.remaining = call.remaining /\ call'.want = call.want
        /\ call'.size = call.size
    BY <1>2, <1>13 DEF CallRecord
  <2>2. At' = r.from /\ Rest' = call.remaining /\ Had' = Had
    BY <1>2, <1>3, <1>8, <1>13, <2>1 DEF At, Rest, Had, InCall
  <2>3. AheadInv'
    BY <1>7, <1>8, <1>10, <1>13, <2>2, AheadAfter
  <2> QED
    BY <1>11, <2>3 DEF OrderInv
<1>14. CASE Parsed
  <2>1. h.is \notin {"malformed", "more"} /\ pc' \in InCall
    BY <1>14
  <2>2. /\ mem' = Live(d.mem, d.from, d.end) /\ streamDataEnd' = d.end
        /\ call'.from = d.from /\ call'.remaining = rest /\ call'.want = call.want
        /\ call'.size = call.size
    BY <1>2, <1>14 DEF CallRecord
  <2>3. Ahead(d.mem, d.from, d.end, r.taken, Had, rest)
    <3>1. \/ call.remaining = 0 /\ d = [mem |-> r.mem, from |-> h.end, end |-> r.end]
          \/ d = DropHeader(r.mem, r.from, call.remaining, start, h.end, r.end)
      BY <1>2
    <3>2. h = ParseChunkHeader(r.mem, start, r.end) /\ start = r.from + call.remaining
      OBVIOUS
    <3> HIDE DEF d, h, start
    <3> QED
      <4>1. Joins(r.mem, r.from, call.remaining, start, r.end, r.taken, Had, h, d)
        BY <1>2, <1>3, <1>4, <1>9, <1>10, <2>1, <3>1, <3>2 DEF Joins
      <4>2. Ahead(d.mem, d.from, d.end, r.taken, Had, call.remaining + h.size)
        BY ONLY <4>1, ChunkJoins
      <4> QED
        BY <4>2
  <2>4. d.end \in 0 .. BufferSize /\ d.from \in 0 .. d.end
    <3>1. h.size \in Nat /\ h.end \in Nat /\ start <= h.end /\ h.end <= r.end
      BY <1>9, <2>1, ParsedHeader
    <3>2. CASE call.skip
      BY <1>9, <3>1, <3>2
    <3>3. CASE ~call.skip
      <4>1. d = DropHeader(r.mem, r.from, call.remaining, start, h.end, r.end)
        BY <3>3
      <4> HIDE DEF h, d
      <4> QED
        BY <1>2, <1>9, <3>1, <4>1, DropHeaderKeeps
    <3> QED
      BY <1>2, <3>2, <3>3
  <2> HIDE DEF d, rest
  <2>5. Ahead(mem', d.from, d.end, r.taken, Had, rest)
    <3>1. d.from \in Nat
      BY <2>4
    <3> QED
      BY <1>9, <2>2, <2>3, <2>4, <3>1, AheadLives
  <2>6. At' = d.from /\ Rest' = rest /\ Had' = Had
    BY <1>2, <1>3, <1>8, <2>1, <2>2 DEF At, Rest, Had
  <2>7. AheadInv'
    BY <1>7, <1>8, <2>2, <2>5, <2>6, AheadAfter
  <2> QED
    BY <1>11, <2>7 DEF OrderInv
<1> QED
  BY <1>7, <1>12, <1>13, <1>14

\* bytes that follow those returned before
LEMMA AppendedInOrder ==
  ASSUME OutInv, pos \in Int, NEW n \in Nat, NEW b, Follows(b, n, pos),
         out' = out \o b, pos' = pos + n
  PROVE  OutInv'
<1>1. out \in Seq(Int) /\ b \in Seq(Int) /\ Len(b) = n
  BY DEF OutInv, Follows
<1>2. /\ out' \in Seq(Int) /\ Len(out') = Len(out) + n /\ Len(out) \in Nat
      /\ \A i \in 1 .. Len(out) : out'[i] = out[i]
      /\ \A i \in 1 .. n : out'[Len(out) + i] = b[i]
  BY <1>1, Joined
<1>3. ASSUME NEW i \in 1 .. Len(out') PROVE out'[i] = pos' - Len(out') + i
  <2>1. pos' - Len(out') + i = pos - Len(out) + i /\ i \in Int
    BY <1>2
  <2>2. CASE i <= Len(out)
    <3>1. i \in 1 .. Len(out)
      BY <1>2, <2>2
    <3>2. out[i] = pos - Len(out) + i
      BY <3>1 DEF OutInv, BytesInOrder
    <3> QED
      BY <1>2, <2>1, <3>1, <3>2
  <2>3. CASE ~(i <= Len(out))
    <3> DEFINE k == i - Len(out)
    <3>1. k \in 1 .. n /\ Len(out) + k = i
      BY <1>2, <2>3
    <3>2. b[k] = pos + k
      BY <3>1 DEF Follows
    <3>3. pos + k = pos - Len(out) + i
      BY <1>2, <2>1
    <3>4. out'[i] = b[k]
      BY <1>2, <3>1
    <3> QED
      BY <2>1, <3>2, <3>3, <3>4
  <2> QED
    BY <1>2, <2>1, <2>2, <2>3
<1> QED
  BY <1>2, <1>3 DEF OutInv, BytesInOrder

\* the part of a string that the buffer has is copied
LEMMA CopyInOrder ==
  ASSUME ReaderInv, OrderInv, CopyBytes
  PROVE  OrderInv'
<1> DEFINE have == dataEnd - call.from
<1>1. /\ pc = "copying" /\ UNCHANGED <<chunked, wire, streamDataEnd, taken, chunkEnd>>
  BY DEF CopyBytes
<1>2. /\ Place = call.from /\ call.from \in 0 .. dataEnd /\ call.left \in Nat
      /\ dataEnd <= dataEnd0 /\ dataEnd0 <= streamDataEnd /\ pc \notin InCall
  <2>1. Place = call.from
    BY <1>1, IdleTypes
  <2> QED
    BY <1>1, <2>1, IdleTypes
<1>3. /\ mem \in [Memory -> Int] /\ streamDataEnd \in 0 .. BufferSize /\ streamDataEnd \in Int
      /\ dataEnd \in Int /\ dataEnd0 \in Int /\ pos \in Int /\ taken \in Int
      /\ chunked \in BOOLEAN /\ chunkEnd \in Int /\ Len(wire) \in Nat
  BY StoreTypes DEF ReaderInv, StoreInv
<1>4. /\ Rest \in Nat /\ Ahead(mem, call.from, streamDataEnd, taken, pos, Rest)
      /\ \A s \in Nat : call.from + s <= dataEnd => s <= Rest
  BY <1>1, <1>2, IdleAhead DEF OrderInv
<1>5. have \in Nat /\ call.from \in Nat /\ call.from + have = dataEnd
  BY <1>2, <1>3
<1> HIDE DEF have
<1>6. Rest = (IF chunked THEN chunkEnd - call.from
              ELSE Len(wire) - (taken - streamDataEnd + call.from))
  BY <1>2 DEF Rest, At
<1>7. ASSUME NEW n \in Nat, n <= have
      PROVE  /\ Follows(Bytes(mem, call.from, n), n, pos) /\ call.from + n \in Nat
             /\ Ahead(mem, call.from + n, streamDataEnd, taken, pos + n, Rest - n)
             /\ Rest - n = (IF chunked THEN chunkEnd - (call.from + n)
                            ELSE Len(wire) - (taken - streamDataEnd + (call.from + n)))
  <2>1. n <= Rest /\ call.from + n <= streamDataEnd /\ call.from + n \in Nat
    BY <1>2, <1>3, <1>4, <1>5, <1>7
  <2>2. Follows(Bytes(mem, call.from, n), n, pos)
    BY <1>3, <1>4, <1>5, <2>1, BytesAhead
  <2>3. Ahead(mem, call.from + n, streamDataEnd, taken, pos + n, Rest - n)
    <3>1. call.from \in Int
      BY <1>5
    <3> QED
      BY <1>3, <1>4, <2>1, <3>1, AheadAdvances
  <2>4. Rest - n = (IF chunked THEN chunkEnd - (call.from + n)
                    ELSE Len(wire) - (taken - streamDataEnd + (call.from + n)))
    BY <1>3, <1>5, <1>6
  <2> QED
    BY <2>1, <2>2, <2>3, <2>4
<1>8. CASE have >= call.left
  <2>1. /\ out' = out \o Bytes(mem, call.from, call.left) /\ pos' = pos + call.left
        /\ dataPtr' = call.from + call.left /\ mem' = Live(mem, dataPtr', streamDataEnd)
        /\ pc' = "user"
    BY <1>8 DEF CopyBytes, have
  <2>2. call.left <= have
    BY <1>2, <1>5, <1>8
  <2>3. /\ Follows(Bytes(mem, call.from, call.left), call.left, pos) /\ dataPtr' \in Nat
        /\ Ahead(mem, dataPtr', streamDataEnd, taken, pos', Rest - call.left)
        /\ Rest - call.left = (IF chunked THEN chunkEnd - dataPtr'
                               ELSE Len(wire) - (taken - streamDataEnd + dataPtr'))
    BY <1>2, <1>7, <2>1, <2>2
  <2>4. OutInv'
    BY <1>2, <1>3, <2>1, <2>3, AppendedInOrder DEF OrderInv
  <2>5. Ahead(mem', dataPtr', streamDataEnd, taken, pos', Rest - call.left)
    BY <1>3, <2>1, <2>3, AheadLives
  <2>6. At' = dataPtr' /\ Had' = pos' /\ Rest' = Rest - call.left
    <3>1. Place' = dataPtr' /\ pc' \notin InCall
      BY <2>1 DEF Place, InCall
    <3>2. At' = dataPtr' /\ Had' = pos'
      BY <3>1 DEF At, Had
    <3> QED
      BY <1>1, <2>3, <3>1, <3>2 DEF Rest
  <2>7. AheadInv'
    BY <1>1, <2>5, <2>6, AheadAfter
  <2> QED
    BY <2>4, <2>7 DEF OrderInv
<1>9. CASE ~(have >= call.left)
  <2>1. /\ out' = out \o Bytes(mem, call.from, have) /\ pos' = pos + have
        /\ UNCHANGED <<mem, dataPtr>>
        /\ Cross(call.from + have, 1, FALSE, call.left - have, "copying")
    BY <1>9 DEF CopyBytes, have
  <2> DEFINE from == call.from + have
             r == Rest - have
             p == pos + have
  <2>2. /\ Follows(Bytes(mem, call.from, have), have, pos) /\ from \in Int /\ p \in Int
        /\ Ahead(mem, from, streamDataEnd, taken, p, r)
        /\ r = (IF chunked THEN chunkEnd - from ELSE Len(wire) - (taken - streamDataEnd + from))
    <3>1. have <= have
      BY <1>5
    <3> QED
      BY <1>3, <1>5, <1>7, <3>1
  <2>3. OutInv'
    BY <1>3, <1>5, <2>1, <2>2, AppendedInOrder DEF OrderInv
  <2>4. Cross(from, 1, FALSE, call.left - have, "copying") /\ pos' = p
    BY <2>1
  <2> HIDE DEF from, r, p
  <2>5. AheadInv'
    BY <1>1, <1>3, <2>1, <2>2, <2>4, CrossAhead
  <2> QED
    BY <2>3, <2>5 DEF OrderInv
<1> QED
  BY <1>8, <1>9

\* a step that does not read
LEMMA StaysInOrder ==
  ASSUME ReaderInv, OrderInv, pc \in Idle \cup {"copying"}, pc' \notin InCall, Place' = Place,
         UNCHANGED <<chunked, wire, buffers, chunkEnd, pos>>, out' \in {out, <<>>}
  PROVE  OrderInv'
<1>1. At' = At /\ Had' = Had /\ Rest' = Rest
  <2>1. pc \notin InCall
    BY DEF Idle, InCall
  <2>2. At' = At /\ Had' = Had
    BY <2>1 DEF At, Had
  <2> QED
    BY <2>1, <2>2 DEF Rest, buffers
<1>2. Ahead(mem, At, streamDataEnd, taken, Had, Rest)
  BY DEF OrderInv, AheadInv, Reading
<1>3. AheadInv'
  BY <1>1, <1>2, AheadAfter DEF buffers
<1>4. OutInv'
  <2>1. CASE out' = out
    BY <2>1 DEF OrderInv, OutInv, BytesInOrder
  <2>2. CASE out' = <<>>
    <3>1. Len(out') = 0
      BY <2>2
    <3> QED
      BY <2>2, <3>1 DEF OutInv, BytesInOrder
  <2> QED
    BY <2>1, <2>2
<1> QED
  BY <1>3, <1>4 DEF OrderInv

\* every step returns the payload in its order
LEMMA OrderKeeps ==
  ASSUME ReaderInv, OrderInv, [Next]_vars
  PROVE  OrderInv'
<1>1. CASE FillFromChunk \/ SkipRestOfChunk \/ NextChunk \/ CopyBytes
  BY <1>1, FillInOrder, SkipRestInOrder, NextChunkInOrder, CopyInOrder
<1>2. CASE EndOfStream
  <2>1. pc' = "threw" /\ out' = <<>> /\ Len(out') = 0
    BY <1>2 DEF EndOfStream
  <2> QED
    BY <2>1 DEF OrderInv, AheadInv, OutInv, BytesInOrder, Reading, Idle, InCall
<1>3. CASE ReadSize \/ SkipUnread \/ Field \/ OpenContainer \/ SkipContainer \/ CloseContainer
           \/ SkipContents
  <2>1. contentEnd \in Int /\ dataPtr \in Int
    BY StoreNumbers DEF ReaderInv
  <2>2. CASE ReadSize
    BY <2>2, AccessInOrder DEF ReadSize, Idle
  <2>3. CASE OpenContainer
    BY <2>3, AccessInOrder DEF OpenContainer, Idle
  <2>4. CASE SkipContainer
    BY <2>4, AccessInOrder DEF SkipContainer, Idle
  <2>5. CASE SkipUnread
    <3>1. pc = "unread" /\ pc \in Idle /\ "between" \in Idle /\ Access(call.want, TRUE, "between")
      BY <2>5 DEF SkipUnread, Idle
    <3>2. call.want \in Nat
      BY <3>1, IdleTypes
    <3> QED
      BY <3>1, <3>2, AccessInOrder
  <2>6. CASE Field
    <3>1. PICK n \in Fields, skip \in BOOLEAN : Access(n, skip, "user")
      BY <2>6 DEF Field
    <3>2. n \in Nat /\ pc \in Idle /\ "user" \in Idle
      BY <2>6, Parameters DEF Field, Idle
    <3> QED
      BY <3>1, <3>2, AccessInOrder
  <2>7. CASE CloseContainer \/ SkipContents
    <3>1. pc \in {"user", "skipping"}
      BY <2>7 DEF CloseContainer, SkipContents
    <3>2. dataPtr <= contentEnd
      BY <2>1, <3>1, IdleTypes, StoreNumbers DEF Idle, InContent, ReaderInv
    <3>3. /\ contentEnd - dataPtr \in Nat
          /\ \A s \in Lengths \cup {0} : Minimum(s, contentEnd - dataPtr) \in Nat
      BY <2>1, <3>2, Parameters DEF Minimum
    <3>4. pc \in Idle /\ "user" \in Idle /\ "closing" \in Idle
      BY <3>1 DEF Idle
    <3>5. CASE CloseContainer
      <4>1. Access(contentEnd - dataPtr, TRUE, "closing")
        BY <3>5 DEF CloseContainer
      <4> QED
        BY <3>3, <3>4, <4>1, AccessInOrder
    <3>6. CASE SkipContents
      <4>1. PICK s \in Lengths \cup {0} : Access(Minimum(s, contentEnd - dataPtr), TRUE, "user")
        BY <3>6 DEF SkipContents
      <4> QED
        BY <3>3, <3>4, <4>1, AccessInOrder
    <3> QED
      BY <2>7, <3>5, <3>6
  <2> QED
    BY <1>3, <2>2, <2>3, <2>4, <2>5, <2>6, <2>7
<1>4. CASE SetMessageSize \/ SetContainer \/ LeaveContainer \/ NextMessage
  <2>1. /\ pc \in Idle /\ pc' \in Idle \cup {"threw"} /\ dataPtr' = dataPtr
        /\ UNCHANGED <<chunked, wire, buffers, chunkEnd, pos>> /\ out' \in {out, <<>>}
    BY <1>4 DEF SetMessageSize, SetContainer, LeaveContainer, NextMessage, barriers, Idle
  <2>2. pc' \notin InCall /\ Place' = Place
    BY <2>1 DEF Place, Idle, InCall
  <2> QED
    BY <2>1, <2>2, StaysInOrder
<1>5. CASE ReadString
  <2>1. /\ pc = "user" /\ pc' = "copying" /\ UNCHANGED <<chunked, wire, buffers, barriers, pos>>
        /\ out' = <<>> /\ \E n : call' = [NoCall EXCEPT !.from = dataPtr, !.left = n]
    BY <1>5 DEF ReadString
  <2>2. call'.from = dataPtr
    BY <2>1 DEF NoCall
  <2>3. Place' = Place /\ pc' \notin InCall /\ pc \in Idle /\ chunkEnd' = chunkEnd
    BY <2>1, <2>2 DEF Place, Idle, InCall, barriers
  <2> QED
    BY <2>1, <2>3, StaysInOrder
<1>6. CASE Stopped \/ UNCHANGED vars
  <2>1. UNCHANGED <<chunked, wire, buffers, barriers, pc, call, history>>
    BY <1>6 DEF Stopped, vars
  <2>2. At' = At /\ Had' = Had /\ Rest' = Rest
    <3>1. At' = At /\ Had' = Had
      BY <2>1 DEF At, Had, Place, barriers, history
    <3> QED
      BY <2>1, <3>1 DEF Rest, Place, barriers, buffers
  <2>3. AheadInv'
    BY <2>1, <2>2, AheadAfter DEF OrderInv, AheadInv, buffers, Reading
  <2> QED
    BY <2>1, <2>3 DEF OrderInv, OutInv, BytesInOrder, history
<1> QED
  BY <1>1, <1>2, <1>3, <1>4, <1>5, <1>6 DEF Next, Read, Cursor, Application

\* the first bytes of the response are in the buffer
LEMMA OrderStarts ==
  ASSUME Init
  PROVE  OrderInv
<1>1. /\ mem = [a \in Memory |-> IF a \in 0 .. (taken - 1) THEN wire[a + 1] ELSE 0]
      /\ streamDataEnd = taken /\ dataPtr = 0 /\ chunkEnd = 0 /\ pc = "between" /\ pos = 0
      /\ out = <<>>
  BY DEF Init
<1>2. ReaderInv
  BY ReaderStarts
<1>3. /\ taken \in Nat /\ taken <= BufferSize /\ Len(wire) \in Nat /\ WireInv /\ chunked \in BOOLEAN
  BY <1>1, <1>2, StoreTypes DEF ReaderInv, StoreInv
<1>4. At = 0 /\ Had = 0 /\ Rest = (IF chunked THEN 0 ELSE Len(wire))
  BY <1>1, <1>3 DEF At, Had, Rest, Place, InCall
<1>5. ASSUME NEW j \in Nat PROVE View(mem, taken, taken, 0 + j) = wire[j + 1]
  <2>1. CASE j < taken
    <3>1. j \in Memory /\ j \in 0 .. (taken - 1) /\ 0 + j = j
      BY <1>3, <2>1, Parameters DEF Memory
    <3>2. mem[j] = wire[j + 1]
      BY <1>1, <3>1
    <3> QED
      BY <2>1, <3>1, <3>2 DEF View
  <2>2. CASE ~(j < taken)
    <3>1. taken - taken + (0 + j) + 1 = j + 1 /\ ~(0 + j < taken)
      BY <1>3, <2>2
    <3> QED
      BY <3>1 DEF View
  <2> QED
    BY <2>1, <2>2
<1>6. \A j \in Nat : taken - taken + 0 + j + 1 = j + 1
  BY <1>3
<1>7. CASE chunked
  <2>1. Joint(0, 0) /\ taken - taken + 0 + 0 = 0 /\ 0 + 0 = 0
    BY <1>3, <1>7, FirstTurn DEF Joint
  <2>2. Ahead(mem, 0, taken, taken, 0, 0)
    BY <1>5, <1>6, <2>1 DEF Ahead
  <2> QED
    BY <1>1, <1>4, <1>7, <2>2 DEF AheadInv, OrderInv, OutInv, BytesInOrder
<1>8. CASE ~chunked
  <2>1. Joint(taken - taken + 0 + Len(wire), 0 + Len(wire))
    BY <1>3, <1>8 DEF Joint
  <2>2. \A j \in Nat : j < Len(wire) => wire[j + 1] = 0 + j + 1
    <3>1. \A k \in 1 .. Len(wire) : wire[k] = k
      BY <1>3, <1>8, PlainWire
    <3>2. \A j \in Nat : j < Len(wire) => j + 1 \in 1 .. Len(wire) /\ 0 + j + 1 = j + 1
      BY <1>3
    <3> QED
      BY <3>1, <3>2
  <2>3. Ahead(mem, 0, taken, taken, 0, Len(wire))
    BY <1>3, <1>5, <1>6, <2>1, <2>2 DEF Ahead
  <2> QED
    BY <1>1, <1>4, <1>8, <2>3 DEF AheadInv, OrderInv, OutInv, BytesInOrder
<1> QED
  BY <1>3, <1>7, <1>8

\* What a read returns is the payload that follows what was read and skipped
\* before, for every response: no byte of a chunk's header, none twice, none left
\* out, wherever the chunks, the buffer and the socket's pieces cut it (get,
\* getBytes, getOrSkipChunked, skipStream).
THEOREM BytesComeInOrder == Spec => []BytesInOrder
<1>1. Init => OrderInv
  BY OrderStarts
<1>2. ReaderInv /\ OrderInv /\ [Next]_vars => OrderInv'
  BY OrderKeeps
<1>3. OrderInv => BytesInOrder
  BY DEF OrderInv, OutInv
<1> QED
  BY <1>1, <1>2, <1>3, ReaderInvariant, PTL DEF Spec

-----------------------------------------------------------------------------
(* The numbers of the payload in the response.                             *)

\* of the bytes s those that are payload are numbered from 1 to n, in order
Numbers(s, n) ==
    /\ \A x \in 1 .. Len(s) : s[x] > 0 => s[x] <= n
    /\ \A x, y \in 1 .. Len(s) :
          x < y /\ s[x] > 0 /\ s[y] > 0 => 0 < s[y] - s[x] /\ s[y] - s[x] <= y - x
    /\ \A t \in 1 .. n : \E x \in 1 .. Len(s) : s[x] = t

\* from one that is numbered to the end there are as many bytes as numbers
LEMMA NumbersLeft ==
  ASSUME NEW s \in Seq(Int), NEW n \in Nat, Numbers(s, n), NEW x \in 1 .. Len(s), s[x] > 0
  PROVE  s[x] \in 1 .. n /\ n - s[x] <= Len(s) - x
<1>1. s[x] \in Int /\ Len(s) \in Nat /\ s[x] <= n
  BY DEF Numbers
<1>2. PICK y \in 1 .. Len(s) : s[y] = n
  <2>1. n \in 1 .. n
    BY <1>1
  <2> QED
    BY <2>1 DEF Numbers
<1>3. ~(y < x)
  <2> SUFFICES ASSUME y < x PROVE FALSE
    OBVIOUS
  <2>1. s[y] > 0
    BY <1>1, <1>2
  <2>2. 0 < s[x] - s[y]
    BY <2>1 DEF Numbers
  <2> QED
    BY <1>1, <1>2, <2>2
<1>4. CASE x = y
  BY <1>1, <1>2, <1>4
<1>5. CASE x < y
  <2>1. s[y] > 0
    BY <1>1, <1>2
  <2>2. s[y] - s[x] <= y - x
    BY <1>5, <2>1 DEF Numbers
  <2> QED
    BY <1>1, <1>2, <2>2
<1> QED
  BY <1>3, <1>4, <1>5

\* h bytes that are no payload, and k that are, go on with the numbers
LEMMA NumbersGoOn ==
  ASSUME NEW s \in Seq(Int), NEW n \in Nat, Numbers(s, n),
         NEW t \in Seq(Int), NEW h \in Nat, NEW k \in Nat, Len(t) = h + k,
         \A j \in 1 .. h : ~(t[j] > 0), \A j \in 1 .. k : t[h + j] = n + j
  PROVE  Numbers(s \o t, n + k)
<1> DEFINE w == s \o t
           m == Len(s)
<1>1. /\ w \in Seq(Int) /\ Len(w) = m + (h + k) /\ m \in Nat
      /\ \A i \in 1 .. m : w[i] = s[i]
      /\ \A i \in 1 .. h + k : w[m + i] = t[i]
  <2>1. /\ w \in Seq(Int) /\ Len(w) = m + Len(t) /\ m \in Nat
        /\ \A i \in 1 .. m : w[i] = s[i]
        /\ \A i \in 1 .. Len(t) : w[m + i] = t[i]
    BY Joined
  <2> HIDE DEF w, m
  <2> QED
    BY <2>1
<1> HIDE DEF w
<1>2. ASSUME NEW x \in 1 .. Len(w), w[x] > 0
      PROVE  \/ x \in 1 .. m /\ w[x] = s[x] /\ w[x] \in 1 .. n /\ n - w[x] <= m - x
             \/ \E j \in 1 .. k : x = m + h + j /\ w[x] = n + j
  <2>1. CASE x <= m
    <3>1. x \in 1 .. m /\ w[x] = s[x]
      BY <1>1, <2>1
    <3> HIDE DEF m
    <3>2. s[x] > 0
      BY <1>2, <3>1
    <3> QED
      BY <3>1, <3>2, NumbersLeft DEF m
  <2>2. CASE ~(x <= m)
    <3>1. x - m \in 1 .. h + k /\ m + (x - m) = x
      BY <1>1, <2>2
    <3>2. w[x] = t[x - m]
      BY <1>1, <3>1
    <3>3. ~(x - m \in 1 .. h)
      BY <1>2, <3>2
    <3>4. x - m - h \in 1 .. k /\ h + (x - m - h) = x - m /\ x = m + h + (x - m - h)
      BY <1>1, <3>1, <3>3
    <3>5. w[x] = n + (x - m - h)
      BY <3>2, <3>4
    <3> QED
      BY <3>4, <3>5
  <2> QED
    BY <2>1, <2>2
<1>3. ASSUME NEW x \in 1 .. Len(w), w[x] > 0 PROVE w[x] <= n + k
  <2>1. CASE w[x] \in 1 .. n
    BY <2>1
  <2>2. CASE \E j \in 1 .. k : w[x] = n + j
    BY <2>2
  <2> QED
    BY <1>2, <1>3, <2>1, <2>2
<1>4. ASSUME NEW x \in 1 .. Len(w), NEW y \in 1 .. Len(w), x < y, w[x] > 0, w[y] > 0
      PROVE  0 < w[y] - w[x] /\ w[y] - w[x] <= y - x
  <2>1. CASE x \in 1 .. m /\ y \in 1 .. m
    <3>1. w[x] = s[x] /\ w[y] = s[y]
      BY <1>1, <2>1
    <3> QED
      BY <1>4, <2>1, <3>1 DEF Numbers
  <2>2. ASSUME NEW j \in 1 .. k, x = m + h + j, w[x] = n + j PROVE 0 < w[y] - w[x] /\ w[y] - w[x] <= y - x
    <3>1. ~(y \in 1 .. m)
      BY <1>1, <1>4, <2>2
    <3>2. PICK i \in 1 .. k : y = m + h + i /\ w[y] = n + i
      BY <1>2, <1>4, <3>1
    <3> QED
      BY <1>1, <1>4, <2>2, <3>2
  <2>3. ASSUME x \in 1 .. m, w[x] \in 1 .. n, n - w[x] <= m - x, NEW i \in 1 .. k, y = m + h + i, w[y] = n + i
        PROVE  0 < w[y] - w[x] /\ w[y] - w[x] <= y - x
    <3>0. m \in Nat /\ n \in Nat /\ h \in Nat /\ i \in Nat /\ 0 < i
      BY <1>1
    <3> HIDE DEF m
    <3>1. x \in Int /\ w[x] \in Int /\ w[x] <= n /\ n - w[x] <= m - x
      BY <2>3
    <3> QED
      <4>1. \A a, u \in Int : a <= n /\ n - a <= m - u
                              => 0 < (n + i) - a /\ (n + i) - a <= (m + h + i) - u
        BY ONLY <3>0
      <4> QED
        BY ONLY <2>3, <3>1, <4>1
  <2> QED
    BY <1>2, <1>4, <2>1, <2>2, <2>3
<1>5. ASSUME NEW i \in 1 .. n + k PROVE \E x \in 1 .. Len(w) : w[x] = i
  <2>1. CASE i <= n
    <3>1. i \in 1 .. n
      BY <2>1
    <3>2. PICK x \in 1 .. m : s[x] = i
      BY <3>1 DEF Numbers
    <3>3. x \in 1 .. Len(w) /\ w[x] = i
      BY <1>1, <3>2
    <3> QED
      BY <3>3
  <2>2. CASE ~(i <= n)
    <3>1. /\ i - n \in 1 .. k /\ h + (i - n) \in 1 .. h + k /\ n + (i - n) = i
          /\ m + (h + (i - n)) \in 1 .. Len(w)
      BY <1>1, <2>2
    <3>2. w[m + (h + (i - n))] = i
      BY <1>1, <3>1
    <3> QED
      BY <3>1, <3>2
  <2> QED
    BY <2>1, <2>2
<1>6. Numbers(w, n + k)
  BY <1>3, <1>4, <1>5 DEF Numbers
<1> QED
  BY <1>6 DEF w

\* nothing of a header is payload
LEMMA HeaderIsNoPayload ==
  ASSUME NEW n \in Nat, NEW z \in Nat
  PROVE  \A j \in 1 .. z + 5 : ~(Header(n, z)[j] > 0)
<1> SUFFICES ASSUME NEW j \in 1 .. z + 5 PROVE ~(Header(n, z)[j] > 0)
  OBVIOUS
<1> DEFINE h == Header(n, z)
<1>1. /\ h[1] = CR /\ h[2] = LF /\ \A i \in 1 .. z : h[i + 2] = Digit(0)
      /\ h[z + 3] = Digit(n) /\ h[z + 4] = CR /\ h[z + 5] = LF
  BY HeaderBytes
<1> HIDE DEF h
<1>2. ~(CR > 0) /\ ~(LF > 0) /\ ~(Digit(0) > 0) /\ ~(Digit(n) > 0)
  BY DEF CR, LF, Digit
<1>3. CASE j \in {1, 2, z + 3, z + 4, z + 5}
  BY <1>1, <1>2, <1>3 DEF h
<1>4. CASE j \notin {1, 2, z + 3, z + 4, z + 5}
  <2>1. j - 2 \in 1 .. z /\ (j - 2) + 2 = j
    BY <1>4
  <2> QED
    BY <1>1, <1>2, <2>1 DEF h
<1> QED
  BY <1>3, <1>4

\* the first chunks of a response are numbered
LEMMA ChunksAreNumbered ==
  ASSUME NEW cs \in Chunks, NEW i \in 0 .. Len(cs)
  PROVE  Numbers(BytesOf(cs)[i], PayloadOf(cs)[i])
<1> DEFINE S == {m \in Nat : m <= Len(cs) => Numbers(BytesOf(cs)[m], PayloadOf(cs)[m])}
<1>0. Len(cs) \in Nat
  BY ChunkOf
<1>1. 0 \in S
  <2>1. BytesOf(cs)[0] = <<>> /\ PayloadOf(cs)[0] = 0
    BY BytesOfChunks, PayloadAddsUp
  <2>2. Numbers(<<>>, 0)
    BY DEF Numbers
  <2> QED
    BY <2>1, <2>2
<1>2. ASSUME NEW m \in Nat, m \in S PROVE m + 1 \in S
  <2> SUFFICES ASSUME m + 1 <= Len(cs)
               PROVE  Numbers(BytesOf(cs)[m + 1], PayloadOf(cs)[m + 1])
    BY <1>2
  <2> DEFINE c == m + 1
             s == BytesOf(cs)[m]
             n == PayloadOf(cs)[m]
             t == Piece(cs, c)
             h == cs[c].zeros + 5
             k == cs[c].size
  <2>1. c \in 1 .. Len(cs) /\ c - 1 = m /\ m \in 0 .. Len(cs) /\ m <= Len(cs)
    BY <1>0
  <2>2. /\ s \in Seq(Int) /\ n \in Nat /\ Numbers(s, n)
        /\ BytesOf(cs)[c] = s \o t /\ PayloadOf(cs)[c] = n + k
    BY <1>2, <2>1, BytesOfChunks, PayloadAddsUp
  <2>3. cs[c].zeros \in Nat /\ k \in Nat
    BY <2>1, ChunkOf
  <2>4. /\ t \in Seq(Int) /\ Len(t) = cs[c].zeros + 5 + k
        /\ \A j \in 1 .. h : t[j] = Header(k, cs[c].zeros)[j]
        /\ \A j \in 1 .. k : t[cs[c].zeros + 5 + j] = PayloadOf(cs)[c - 1] + j
    BY <2>1, PieceBytes
  <2>5. \A j \in 1 .. h : ~(Header(k, cs[c].zeros)[j] > 0)
    BY <2>3, HeaderIsNoPayload
  <2>6. h \in Nat /\ Len(t) = h + k
    BY <2>3, <2>4
  <2>7. (\A j \in 1 .. h : ~(t[j] > 0)) /\ \A j \in 1 .. k : t[h + j] = n + j
    BY <2>1, <2>4, <2>5
  <2> HIDE DEF s, n, t, h, k
  <2>8. Numbers(s \o t, n + k)
    BY <2>2, <2>3, <2>4, <2>6, <2>7, NumbersGoOn DEF k
  <2> QED
    BY <2>2, <2>8 DEF c
<1>3. i \in S
  <2> HIDE DEF S
  <2> QED
    BY <1>0, <1>1, <1>2, InductionOnNat
<1> QED
  BY <1>0, <1>3

\* the payload of the response
Total == IF chunked THEN Whole ELSE Len(wire)

\* is numbered
LEMMA WireIsNumbered ==
  ASSUME WireInv
  PROVE  wire \in Seq(Int) /\ Total \in Nat /\ Numbers(wire, Total)
<1>1. CASE ~chunked
  <2>1. wire \in Seq(Int) /\ \A k \in 1 .. Len(wire) : wire[k] = k
    BY <1>1, PlainWire
  <2>2. Numbers(wire, Len(wire))
    BY <2>1 DEF Numbers
  <2> QED
    BY <1>1, <2>1, <2>2 DEF Total
<1>2. CASE chunked
  <2> DEFINE cs == Response.chunks
             b == BytesOf(cs)[Len(cs)]
             h == Header(0, 0)
             e == <<CR, LF>>
  <2>1. cs \in Chunks /\ Len(cs) \in 0 .. Len(cs) /\ wire = b \o h \o e
    <3>1. cs \in Chunks /\ wire = b \o h \o e
      BY <1>2, ResponseChunks DEF Responds, Body, ChunkedBytes
    <3>2. Len(cs) \in Nat
      BY <3>1, ChunkOf
    <3> QED
      BY <3>1, <3>2
  <2>2. b \in Seq(Int) /\ Whole \in Nat /\ Numbers(b, Whole)
    BY <2>1, BytesOfChunks, PayloadAddsUp, ChunksAreNumbered DEF Whole
  <2>3. h \in Seq(Int) /\ Len(h) = 5 /\ \A j \in 1 .. 5 : ~(h[j] > 0)
    <3>1. 0 \in Nat /\ 0 + 5 = 5
      OBVIOUS
    <3> QED
      BY <3>1, HeaderBytes, HeaderIsNoPayload
  <2>4. e \in Seq(Int) /\ Len(e) = 2 /\ \A j \in 1 .. 2 : ~(e[j] > 0)
    BY DEF CR, LF
  <2> HIDE DEF b, h, e
  <2>5. Numbers(b \o h, Whole)
    <3>1. 5 = 5 + 0 /\ \A j \in 1 .. 0 : h[5 + j] = Whole + j
      OBVIOUS
    <3>2. Numbers(b \o h, Whole + 0)
      BY <2>2, <2>3, <3>1, 5 \in Nat, 0 \in Nat, NumbersGoOn
    <3> QED
      BY <2>2, <3>2
  <2>6. b \o h \in Seq(Int)
    BY <2>2, <2>3
  <2> DEFINE bh == b \o h
  <2> HIDE DEF bh
  <2>7. Numbers(bh \o e, Whole)
    <3>1. 2 = 2 + 0 /\ \A j \in 1 .. 0 : e[2 + j] = Whole + j
      OBVIOUS
    <3>2. Numbers(bh \o e, Whole + 0)
      BY <2>2, <2>4, <2>5, <2>6, <3>1, 2 \in Nat, 0 \in Nat, NumbersGoOn DEF bh
    <3> QED
      BY <2>2, <3>2
  <2> QED
    BY <1>2, <2>1, <2>2, <2>7, WireBytes DEF Total, bh
<1> QED
  BY <1>1, <1>2

\* and counted
LEMMA PayloadIsTotal ==
  ASSUME WireInv
  PROVE  Payload \in Nat /\ Payload <= Total
<1> DEFINE S == {i \in 1 .. Len(wire) : wire[i] > 0}
           T == 1 .. Total
           f == [i \in S |-> wire[i]]
<1>1. wire \in Seq(Int) /\ Total \in Nat /\ Numbers(wire, Total) /\ Len(wire) \in Nat
  BY WireIsNumbered
<1>2. f \in [S -> T]
  <2> SUFFICES ASSUME NEW i \in S PROVE wire[i] \in T
    OBVIOUS
  <2> QED
    BY <1>1, NumbersLeft
<1>3. ASSUME NEW i \in S, NEW j \in S, f[i] = f[j] PROVE i = j
  <2>1. wire[i] = wire[j] /\ wire[i] > 0 /\ wire[i] \in Int
    BY <1>1, <1>3
  <2>2. ~(i < j)
    <3> SUFFICES ASSUME i < j PROVE FALSE
      OBVIOUS
    <3>1. 0 < wire[j] - wire[i]
      BY <1>1, <2>1 DEF Numbers
    <3> QED
      BY <2>1, <3>1
  <2>3. ~(j < i)
    <3> SUFFICES ASSUME j < i PROVE FALSE
      OBVIOUS
    <3>1. 0 < wire[i] - wire[j]
      BY <1>1, <2>1 DEF Numbers
    <3> QED
      BY <2>1, <3>1
  <2> QED
    BY <1>1, <2>2, <2>3
<1>4. IsFiniteSet(T) /\ Cardinality(T) = Total
  <2>1. 1 \in Int /\ Total \in Int
    BY <1>1
  <2> QED
    BY <1>1, <2>1, FS_Interval
<1>5. f \in Injection(S, T)
  BY <1>2, <1>3 DEF Injection, IsInjective
<1>6. IsFiniteSet(S) /\ Cardinality(S) <= Cardinality(T)
  <2>1. f \in Injection(S, T)
    BY <1>5
  <2> HIDE DEF S, T, f
  <2> QED
    BY <1>4, <2>1, FS_Injection
<1>7. Cardinality(S) \in Nat
  BY <1>6, FS_CardinalityType
<1> QED
  BY <1>4, <1>6, <1>7 DEF Payload

-----------------------------------------------------------------------------
(* No header that the server wrote is refused.                             *)

\* the data from start on is the response behind q, where the header of a chunk
\* of n bytes is, and is long enough for the shortest header
HeaderBehind(m, start, end, q, n, z) ==
    /\ m \in [Memory -> Int] /\ start \in Nat /\ end \in 0 .. BufferSize
    /\ HeaderMin <= end - start
    /\ q \in Nat /\ n \in 0 .. 9 /\ z \in 0 .. 2 /\ HeaderAt(q, n, z)
    /\ \A k \in Nat : start + k < end => m[start + k] = wire[q + k + 1]

\* the header at q is read, unless some of it is not in the data yet
LEMMA HeaderComes ==
  ASSUME NEW m, NEW start, NEW end, NEW q, NEW c, NEW z, HeaderBehind(m, start, end, q, c, z),
         NEW h, h = ParseChunkHeader(m, start, end)
  PROVE  h.is # "malformed" /\ (h.is = "more" => end - start < z + 5)
<1> SUFFICES ASSUME m \in [Memory -> Int] /\ start \in Nat /\ end \in 0 .. BufferSize
      /\ HeaderMin <= end - start
      /\ q \in Nat /\ c \in 0 .. 9 /\ z \in 0 .. 2 /\ HeaderAt(q, c, z)
      /\ \A k \in Nat : start + k < end => m[start + k] = wire[q + k + 1]
             PROVE  h.is # "malformed" /\ (h.is = "more" => end - start < z + 5)
  BY DEF HeaderBehind
<1> DEFINE digits == {k \in 0 .. (end - start - 2) : \A i \in 1 .. k : IsDigit(m[start + 1 + i])}
           n == CHOOSE k \in digits : \A j \in digits : j <= k
           stop == start + 2 + n
           number == CHOOSE number : number = [k \in 0 .. n |-> IF k = 0 THEN 0
                         ELSE number[k - 1] * 10 + (Digit(0) - m[start + 1 + k])]
           lines(a) == m[a] = CR /\ m[a + 1] = LF
<1>0. end \in Nat /\ end - start - 2 \in Nat
  BY Parameters DEF HeaderMin
<1>1. h = IF end - start < HeaderMin \/ ~lines(start) THEN [is |-> "malformed"]
          ELSE IF Unfinished(m, stop, end) THEN [is |-> "more"]
          ELSE IF ~lines(stop) THEN [is |-> "malformed"]
          ELSE [is |-> "header", size |-> number[n], end |-> stop + 2]
  BY DEF ParseChunkHeader
<1>2. n \in digits /\ \A j \in digits : j <= n
  <2>1. 0 \in digits /\ digits \subseteq Nat /\ \A x \in digits : x <= end - start - 2
    BY <1>0
  <2> HIDE DEF digits
  <2>2. \E k \in digits : \A j \in digits : j <= k
    BY <1>0, <2>1, GreatestNatural
  <2> QED
    BY <2>2
<1>3. ASSUME NEW i \in 1 .. z + 1, start + 1 + i < end PROVE IsDigit(m[start + 1 + i])
  <2>1. 1 + i \in Nat /\ start + (1 + i) = start + 1 + i /\ q + (1 + i) + 1 = q + 2 + i
    BY <1>0
  <2>2. m[start + 1 + i] = wire[q + 2 + i]
    BY <1>3, <2>1
  <2>3. CASE i \in 1 .. z
    <3>1. wire[q + 2 + i] = Digit(0)
      BY <2>3 DEF HeaderAt
    <3> QED
      BY <2>2, <3>1 DEF IsDigit, Digit
  <2>4. CASE i = z + 1
    <3>1. wire[q + 2 + i] = Digit(c)
      <4>1. q + 2 + i = q + z + 3
        BY <2>4
      <4> QED
        BY <4>1 DEF HeaderAt
    <3> QED
      BY <2>2, <3>1 DEF IsDigit, Digit
  <2> QED
    BY <2>3, <2>4
<1>4. ASSUME NEW a \in {start, start + z + 3}, a < end
      PROVE  m[a] = CR /\ (a + 1 < end => m[a + 1] = LF)
  <2>1. CASE a = start
    <3>1. start + 0 < end => m[start + 0] = wire[q + 0 + 1]
      OBVIOUS
    <3>2. start + 1 < end => m[start + 1] = wire[q + 1 + 1]
      OBVIOUS
    <3>3. start + 0 = start /\ q + 0 + 1 = q + 1 /\ q + 1 + 1 = q + 2
      OBVIOUS
    <3> QED
      BY <1>4, <2>1, <3>1, <3>2, <3>3 DEF HeaderAt
  <2>2. CASE a = start + z + 3
    <3>1. /\ z + 3 \in Nat /\ start + (z + 3) = a /\ q + (z + 3) + 1 = q + z + 4
          /\ z + 4 \in Nat /\ start + (z + 4) = a + 1 /\ q + (z + 4) + 1 = q + z + 5
      BY <2>2
    <3>2. start + (z + 3) < end => m[start + (z + 3)] = wire[q + (z + 3) + 1]
      BY <3>1
    <3>3. start + (z + 4) < end => m[start + (z + 4)] = wire[q + (z + 4) + 1]
      BY <3>1
    <3> QED
      BY <1>4, <3>1, <3>2, <3>3 DEF HeaderAt
  <2> QED
    BY <1>4, <2>1, <2>2
<1>5. ~(end - start < HeaderMin) /\ lines(start)
  <2>1. start < end /\ start + 1 < end
    BY <1>0
  <2> QED
    BY <1>4, <2>1 DEF HeaderMin
<1>6. n \in Nat /\ n <= end - start - 2
  BY <1>0, <1>2
<1>7. CASE end - start - 2 < z + 1
  <2>1. end - start - 2 \in digits
    BY <1>0, <1>3, <1>7
  <2>2. end - start - 2 <= n
    BY <1>2, <2>1
  <2> HIDE DEF n
  <2>3. stop = end
    BY <1>0, <1>6, <2>2
  <2>4. Unfinished(m, stop, end)
    BY <2>3 DEF Unfinished
  <2>5. h = [is |-> "more"]
    BY <1>1, <1>5, <2>4
  <2> QED
    BY <1>0, <1>7, <2>5
<1>8. CASE ~(end - start - 2 < z + 1)
  <2>1. z + 1 \in digits
    BY <1>0, <1>3, <1>8
  <2>2. z + 1 <= n
    BY <1>2, <2>1
  <2>3. n <= z + 1
    <3> SUFFICES ASSUME z + 1 < n PROVE FALSE
      BY <1>6
    <3>1. z + 2 \in 1 .. n
      BY <1>6
    <3>2. IsDigit(m[start + 1 + (z + 2)])
      BY <1>2, <3>1
    <3>3. start + 1 + (z + 2) = start + z + 3 /\ start + z + 3 < end
      BY <1>0, <1>6
    <3>4. m[start + z + 3] = CR
      BY <1>4, <3>3
    <3> QED
      BY <3>2, <3>3, <3>4 DEF IsDigit, Digit, CR
  <2> HIDE DEF n
  <2>4. stop = start + z + 3
    BY <1>6, <2>2, <2>3
  <2>5. CASE end - start < z + 5
    <3>1. stop = end \/ stop + 1 = end
      BY <1>0, <1>8, <2>4, <2>5
    <3>2. stop # end => m[stop] = CR
      BY <1>0, <1>4, <1>8, <2>4
    <3>3. Unfinished(m, stop, end)
      BY <3>1, <3>2 DEF Unfinished
    <3>4. h = [is |-> "more"]
      BY <1>1, <1>5, <3>3
    <3> QED
      BY <2>5, <3>4
  <2>6. CASE ~(end - start < z + 5)
    <3>1. stop < end /\ stop + 1 < end /\ stop # end /\ stop + 1 # end
      BY <1>0, <2>4, <2>6
    <3>2. lines(stop)
      BY <1>4, <2>4, <3>1
    <3>3. ~Unfinished(m, stop, end)
      BY <3>1 DEF Unfinished
    <3>4. h = [is |-> "header", size |-> number[n], end |-> stop + 2]
      BY <1>1, <1>5, <3>2, <3>3
    <3> QED
      BY <3>4
  <2> QED
    BY <2>5, <2>6
<1> QED
  BY <1>7, <1>8


-----------------------------------------------------------------------------
(* A call waits for no more than it returns.                               *)

\* what is called byte i of the response is number t of the payload
Arrives(i, t) == IF chunked THEN IsPayload(i, t) ELSE i = t

\* up to where what is ahead goes, in the response and in the payload
JointAt == taken - streamDataEnd + At + Rest
JointNumber == Had + Rest

\* of what is ahead, the bytes from this one on follow each other in the response
\* as they do in the payload: the header before them is gone
First == IF pc = "fill" THEN call.size ELSE 1

OnePiece ==
    pc \in Idle \cup {"copying", "fill"} =>
        \A k \in 0 .. Rest - First : Arrives(JointAt - k, JointNumber - k)

\* where the header that is being read starts
HeaderStart == taken - streamDataEnd + call.from + call.remaining

\* a call under way asks for a byte it returns, and for no more of a header than
\* there is of it
CallsAsk ==
    pc \in InCall =>
        /\ 1 <= call.size /\ call.size <= call.want
        /\ call.then = "copying" => call.want = 1
        /\ pc = "chunk" => call.hdr = HeaderMin
        /\ pc = "header" => \A n \in 0 .. 9, z \in 0 .. 2 :
                               HeaderAt(HeaderStart, n, z) => call.hdr <= z + 5

WaitInv == pos \in Nat /\ pc # "malformed" /\ CallsAsk /\ OnePiece

\* what there is of one piece stays in one piece, and without chunks there is
\* nothing else
LEMMA PieceStays ==
  ASSUME ReaderInv, OrderInv, ReaderInv', OrderInv', WaitInv, UNCHANGED <<chunked, wire>>,
         chunked /\ pc' \in Idle \cup {"copying", "fill"} =>
            /\ pc \in Idle \cup {"copying", "fill"} /\ JointAt' = JointAt
            /\ JointNumber' = JointNumber /\ Rest' - First' <= Rest - First
  PROVE  OnePiece'
<1> SUFFICES ASSUME pc' \in Idle \cup {"copying", "fill"}, NEW k \in 0 .. Rest' - First'
             PROVE  (Arrives(JointAt - k, JointNumber - k))'
  BY DEF OnePiece
<1>1. CASE chunked
  <2>1. /\ pc \in Idle \cup {"copying", "fill"} /\ JointAt' = JointAt
        /\ JointNumber' = JointNumber /\ Rest' - First' <= Rest - First
    BY <1>1
  <2>2. Rest - First \in Int /\ Rest' - First' \in Int
    <3>1. ASSUME ReaderInv, OrderInv, pc \in Idle \cup {"copying", "fill"} PROVE Rest - First \in Int
      <4>1. CASE pc = "fill"
        <5>1. pc \in InCall /\ CallInv /\ AheadInv
          BY <3>1, <4>1 DEF InCall, ReaderInv, OrderInv
        <5>2. Rest \in Nat /\ call.size \in Nat
          BY <3>1, <5>1, CallAhead, CallTypes
        <5> QED
          BY <4>1, <5>2 DEF First
      <4>2. CASE pc # "fill"
        <5>1. Rest \in Nat
          BY <3>1, <4>2, IdleAhead DEF OrderInv
        <5> QED
          BY <4>2, <5>1 DEF First
      <4> QED
        BY <4>1, <4>2
    <3>2. Rest' \in Nat
      <4>1. (Ahead(mem, At, streamDataEnd, taken, Had, Rest))'
        BY DEF OrderInv, AheadInv, Reading, InCall
      <4> QED
        BY <4>1 DEF Ahead
    <3>3. First' \in Int
      <4>1. CASE pc' = "fill"
        <5>1. call' \in CallRecord
          BY <4>1 DEF ReaderInv, CallInv, InCall
        <5> QED
          BY <4>1, <5>1 DEF First, CallRecord
      <4> QED
        BY <4>1 DEF First
    <3> QED
      BY <2>1, <3>1, <3>2, <3>3
  <2>3. k \in 0 .. Rest - First
    BY <2>1, <2>2
  <2>4. Arrives(JointAt - k, JointNumber - k)
    BY <2>1, <2>3 DEF WaitInv, OnePiece
  <2> QED
    BY <2>1, <2>4 DEF Arrives, IsPayload
<1>2. CASE ~chunked
  <2>1. JointAt' = JointNumber'
    <3>1. (Ahead(mem, At, streamDataEnd, taken, Had, Rest))'
      BY DEF OrderInv, AheadInv, Reading, InCall
    <3>2. (Joint(taken - streamDataEnd + At + Rest, Had + Rest))'
      BY <3>1 DEF Ahead
    <3> QED
      BY <1>2, <3>2 DEF Joint, JointAt, JointNumber
  <2> QED
    BY <1>2, <2>1 DEF Arrives
<1> QED
  BY <1>1, <1>2

\* where a reader between two steps stands in what is ahead
LEMMA IdlePiece ==
  ASSUME ReaderInv, chunked, pc \in Idle \cup {"copying"}
  PROVE  /\ First = 1 /\ Rest = chunkEnd - Place
         /\ JointAt = taken - streamDataEnd + chunkEnd
         /\ JointNumber = pos - Place + chunkEnd
<1>1. pc \notin InCall /\ pc # "fill"
  BY DEF Idle, InCall
<1>2. At = Place /\ Had = pos /\ Rest = chunkEnd - Place /\ First = 1
  BY <1>1 DEF At, Had, Rest, First
<1>3. Place \in Int /\ chunkEnd \in Int /\ pos \in Int /\ taken \in Int /\ streamDataEnd \in Int
  <2>1. StoreInv /\ Place \in 0 .. dataEnd /\ dataEnd \in Int
    BY IdleTypes, StoreNumbers DEF ReaderInv
  <2> QED
    BY <2>1, StoreNumbers
<1> HIDE DEF Place
<1>4. JointAt = taken - streamDataEnd + Place + (chunkEnd - Place)
      /\ JointNumber = pos + (chunkEnd - Place)
  BY <1>2 DEF JointAt, JointNumber
<1> QED
  BY <1>2, <1>3, <1>4

\* a call that starts
LEMMA CrossWaits ==
  ASSUME ReaderInv, OrderInv, ReaderInv', OrderInv', WaitInv, pc \in Idle \cup {"copying"},
         NEW from \in Int, Place <= from, NEW n \in Nat, 0 < n, NEW skip, NEW left, NEW then,
         UNCHANGED <<chunked, wire, streamDataEnd, taken, chunkEnd>>,
         pos' = pos + (from - Place), pos' \in Nat, then = "copying" => n = 1,
         Cross(from, n, skip, left, then)
  PROVE  WaitInv'
<1>1. CASE from + n > contentEnd
  <2>1. pc' = "threw"
    BY <1>1 DEF Cross
  <2> QED
    BY <2>1 DEF WaitInv, CallsAsk, OnePiece, Idle, InCall
<1>2. CASE ~(from + n > contentEnd)
  <2> DEFINE rest == IF chunked THEN chunkEnd - from ELSE n
  <2>1. /\ call' = [skip |-> skip, from |-> from, size |-> n, remaining |-> rest,
                    hdr |-> HeaderMin, end |-> from + n, want |-> n, left |-> left,
                    then |-> then]
        /\ pc' = IF rest >= n THEN "fill" ELSE IF skip THEN "chunk" ELSE "header"
    BY <1>2 DEF Cross
  <2>2. /\ call'.from = from /\ call'.want = n /\ call'.size = n /\ call'.hdr = HeaderMin
        /\ call'.remaining = rest /\ call'.then = then
    BY <2>1
  <2>3. pc' \in InCall
    BY <2>1 DEF InCall
  <2>4. 1 <= n
    OBVIOUS
  <2>5. \A z \in 0 .. 2 : HeaderMin <= z + 5
    BY DEF HeaderMin
  <2>6. CallsAsk'
    BY <2>2, <2>4, <2>5 DEF CallsAsk
  <2>7. ASSUME chunked, pc' = "fill"
        PROVE  JointAt' = JointAt /\ JointNumber' = JointNumber /\ Rest' - First' <= Rest - First
    <3>1. /\ First = 1 /\ Rest = chunkEnd - Place
          /\ JointAt = taken - streamDataEnd + chunkEnd
          /\ JointNumber = pos - Place + chunkEnd
      BY <2>7, IdlePiece
    <3>2. First' = n /\ Rest' = chunkEnd - from /\ At' = from /\ Had' = pos' + n - n
      BY <2>2, <2>3, <2>7 DEF First, Rest, At, Had
    <3>3. /\ JointAt' = taken - streamDataEnd + from + (chunkEnd - from)
          /\ JointNumber' = pos' + n - n + (chunkEnd - from)
      BY <3>2 DEF JointAt, JointNumber
    <3>4. Place \in Int /\ chunkEnd \in Int /\ pos \in Int /\ taken \in Int /\ streamDataEnd \in Int
      <4>1. StoreInv /\ Place \in 0 .. dataEnd /\ dataEnd \in Int
        BY IdleTypes, StoreNumbers DEF ReaderInv
      <4> QED
        BY <4>1, StoreNumbers
    <3> QED
      BY <3>1, <3>2, <3>3, <3>4
  <2>8. pc' \in Idle \cup {"copying", "fill"} => pc' = "fill"
    BY <2>1 DEF Idle
  <2>9. OnePiece'
    BY <2>7, <2>8, PieceStays
  <2>10. pc' # "malformed"
    BY <2>3 DEF InCall
  <2> QED
    BY <2>6, <2>9, <2>10 DEF WaitInv
<1> QED
  BY <1>1, <1>2

\* the reader goes on in the bytes that it has
LEMMA GoesOnWaiting ==
  ASSUME ReaderInv, OrderInv, ReaderInv', OrderInv', WaitInv, pc \in Idle \cup {"copying"},
         pc' \in Idle \cup {"copying"}, UNCHANGED <<chunked, wire, streamDataEnd, taken, chunkEnd>>,
         NEW n \in Nat, Place' = Place + n, pos' = pos + n
  PROVE  WaitInv'
<1>1. /\ Place \in Int /\ pos \in Nat /\ taken \in Int /\ streamDataEnd \in Int
      /\ chunkEnd \in Int
  <2>1. StoreInv /\ Place \in 0 .. dataEnd /\ dataEnd \in Int /\ pos \in Nat
    BY IdleTypes, StoreNumbers DEF ReaderInv, WaitInv
  <2> QED
    BY <2>1, StoreNumbers
<1>2. pos' \in Nat /\ pc' # "malformed" /\ pc' \notin InCall
  BY <1>1 DEF Idle, InCall
<1>3. ASSUME chunked
      PROVE  JointAt' = JointAt /\ JointNumber' = JointNumber /\ Rest' - First' <= Rest - First
  <2>1. /\ First = 1 /\ Rest = chunkEnd - Place /\ JointAt = taken - streamDataEnd + chunkEnd
        /\ JointNumber = pos - Place + chunkEnd
    BY <1>3, IdlePiece
  <2>2. First' = 1 /\ Rest' = chunkEnd' - Place' /\ At' = Place' /\ Had' = pos'
    BY <1>2, <1>3 DEF First, Rest, At, Had, InCall
  <2>3. /\ JointAt' = taken - streamDataEnd + (Place + n) + (chunkEnd - (Place + n))
        /\ JointNumber' = pos + n + (chunkEnd - (Place + n))
    BY <2>2 DEF JointAt, JointNumber
  <2>4. Rest' = chunkEnd - (Place + n)
    BY <2>2
  <2> QED
    BY ONLY <1>1, <2>1, <2>2, <2>3, <2>4, n \in Nat
<1>4. OnePiece'
  BY <1>3, PieceStays
<1> QED
  BY <1>2, <1>4 DEF WaitInv, CallsAsk

\* a read or skip of n bytes
LEMMA AccessWaits ==
  ASSUME ReaderInv, OrderInv, ReaderInv', OrderInv', WaitInv, pc \in Idle, NEW n \in Nat, NEW skip,
         NEW then \in Idle, Access(n, skip, then)
  PROVE  WaitInv'
<1>1. UNCHANGED <<chunked, wire, streamDataEnd, taken, dataEnd, dataEnd0, contentEnd, chunkEnd>>
  BY DEF Access
<1>2. /\ pc \notin InCall /\ Place = dataPtr /\ dataPtr \in 0 .. dataEnd
  BY IdleTypes DEF Idle
<1>3. /\ dataPtr \in Int /\ dataEnd \in Int /\ pos \in Nat /\ taken \in Int
      /\ chunkEnd \in Int /\ streamDataEnd \in Int
  BY StoreNumbers DEF ReaderInv, WaitInv
<1>4. CASE dataPtr + n <= dataEnd
  <2>1. pos' = pos + n /\ pc' = then /\ dataPtr' = dataPtr + n
    BY <1>4 DEF Access
  <2>2. pc' \notin InCall /\ pc' # "malformed" /\ pos' \in Nat /\ pc' # "copying" /\ pc' \in Idle
    BY <1>3, <2>1 DEF Idle, InCall
  <2>3. Place' = dataPtr + n
    BY <2>1, <2>2 DEF Place
  <2> QED
    BY <1>1, <1>2, <1>3, <2>1, <2>2, <2>3, GoesOnWaiting
<1>5. CASE ~(dataPtr + n <= dataEnd)
  <2>1. pos' = pos /\ Cross(dataPtr, n, skip, 0, then)
    BY <1>5 DEF Access
  <2>2. 0 < n
    BY <1>2, <1>3, <1>5
  <2>3. pos + (dataPtr - Place) = pos /\ Place <= dataPtr /\ then # "copying"
    BY <1>2, <1>3 DEF Idle
  <2> QED
    BY <1>1, <1>3, <2>1, <2>2, <2>3, CrossWaits
<1> QED
  BY <1>4, <1>5

\* where a read leaves the buffer in the response, which is where it was
LEMMA GetFinds ==
  ASSUME streamDataEnd \in Nat, taken \in Nat, Len(wire) \in Nat,
         NEW f \in Nat, NEW n \in Nat, NEW r \in GetFromStream(f, n)
  PROVE  r.taken - r.end + r.from = taken - streamDataEnd + f
<1> DEFINE have == streamDataEnd - f
           need == n - have
<1>1. Minimum(BufferSize, Left) \in Int /\ \A e \in Int : Room(e) \in Int
  BY Parameters DEF Minimum, Left, Room
<1>2. CASE n <= have
  <2>1. r = [mem |-> mem, end |-> streamDataEnd, from |-> f, taken |-> taken]
    BY <1>2 DEF GetFromStream
  <2> QED
    BY <2>1
<1>3. CASE ~(n <= have)
  <2>1. \E m, e, to, k : /\ r = Result(m, e, to, k) /\ k \in need .. Minimum(Room(e), Left)
                         /\ e \in Int /\ to \in Int /\ e - to = have
    <3>1. CASE have = 0
      <4>1. \E k \in need .. Minimum(Room(0), Left) : r = Result(mem, 0, 0, k)
        BY <1>3, <3>1 DEF GetFromStream
      <4> QED
        BY <3>1, <4>1
    <3>2. CASE have # 0 /\ need > Room(streamDataEnd)
      <4>1. \E k \in need .. Minimum(Room(have), Left) : r = Result(Moved(mem, 0, f, have), have, 0, k)
        BY <1>3, <3>2 DEF GetFromStream
      <4>2. have \in Int /\ have - 0 = have
        OBVIOUS
      <4> QED
        BY <4>1, <4>2
    <3>3. CASE have # 0 /\ ~(need > Room(streamDataEnd))
      <4>1. \E k \in need .. Minimum(Room(streamDataEnd), Left) : r = Result(mem, streamDataEnd, f, k)
        BY <1>3, <3>3 DEF GetFromStream
      <4> QED
        BY <4>1
    <3> QED
      BY <3>1, <3>2, <3>3
  <2>2. PICK m, e, to, k : /\ r = Result(m, e, to, k) /\ k \in need .. Minimum(Room(e), Left)
                           /\ e \in Int /\ to \in Int /\ e - to = have
    BY <2>1
  <2>3. r.taken = taken + k /\ r.end = e + k /\ r.from = to
    BY <2>2 DEF Result
  <2>4. k \in Int
    BY <1>1, <2>2
  <2> QED
    BY <2>2, <2>3, <2>4
<1> QED
  BY <1>2, <1>3

\* and a skip
LEMMA SkipFinds ==
  ASSUME streamDataEnd \in Nat, taken \in Nat, Len(wire) \in Nat,
         NEW f \in Nat, NEW n \in Nat, NEW r \in SkipStream(f, n)
  PROVE  r.taken - r.end + r.from = taken - streamDataEnd + f + n
<1> DEFINE have == streamDataEnd - f
           skipped == ((n - have - 1) \div BufferSize) * BufferSize
           last == n - have - skipped
           first == taken + skipped
<1>1. CASE n <= have
  <2>1. r = [mem |-> mem, end |-> streamDataEnd, from |-> f + n, taken |-> taken]
    BY <1>1 DEF SkipStream
  <2> QED
    BY <2>1
<1>2. CASE ~(n <= have)
  <2>1. PICK k \in last .. Minimum(BufferSize, Len(wire) - first) :
          r = [mem |-> Lay(mem, 0, first, k), end |-> k, from |-> last, taken |-> first + k]
    BY <1>2 DEF SkipStream
  <2>2. skipped \in Int
    <3>1. n - have - 1 \in Nat /\ BufferSize \in Nat /\ BufferSize > 0
      BY <1>2, Parameters
    <3> HIDE DEF have
    <3>2. (n - have - 1) \div BufferSize \in Nat
      BY <3>1, Division
    <3> QED
      BY <3>1, <3>2
  <2> HIDE DEF skipped
  <2>3. last \in Int /\ first \in Int /\ k \in Int
    <3>1. last \in Int /\ first \in Int
      BY <2>2
    <3> HIDE DEF last, first
    <3>2. Minimum(BufferSize, Len(wire) - first) \in Int
      BY <3>1, Parameters DEF Minimum
    <3> QED
      BY <2>1, <3>1, <3>2
  <2>4. r.taken = first + k /\ r.end = k /\ r.from = last
    BY <2>1
  <2> HIDE DEF last, first
  <2>5. r.taken - r.end + r.from = first + last
    BY <2>3, <2>4
  <2> QED
    BY <2>2, <2>5 DEF last, first
<1> QED
  BY <1>1, <1>2

\* the call that has its bytes
LEMMA FillWaits ==
  ASSUME ReaderInv, OrderInv, ReaderInv', OrderInv', WaitInv, FillFromChunk
  PROVE  WaitInv'
<1>1. pc = "fill" /\ pc \in InCall /\ CallInv /\ StoreInv
  BY DEF FillFromChunk, InCall, ReaderInv
<1>2. /\ call.then \in Idle \cup {"copying"} /\ call.want \in Nat /\ call.size \in Nat
      /\ call.remaining \in Nat /\ call.from \in Nat /\ call.skip \in BOOLEAN
      /\ (~call.skip => call.want = call.size) /\ 1 <= call.size
      /\ (call.then = "copying" => ~call.skip /\ call.size = 1)
  BY <1>1, CallTypes DEF WaitInv, CallsAsk
<1>3. /\ pos \in Nat /\ taken \in Nat /\ streamDataEnd \in Nat /\ Len(wire) \in Nat
  BY <1>1, StoreNumbers, WireBytes DEF WaitInv, StoreInv
<1>4. PICK r, rest, place :
        /\ Finish(r, rest)
        /\ rest = (IF call.skip THEN call.remaining - call.size ELSE call.remaining)
        /\ IF call.skip THEN r \in SkipStream(call.from, call.size)
           ELSE r \in GetFromStream(call.from, call.size)
        /\ place = (IF call.then = "copying" \/ call.skip THEN r.from ELSE r.from + call.want)
  BY DEF FillFromChunk
<1> DEFINE copying == call.then = "copying"
<1>5. /\ taken' = r.taken /\ streamDataEnd' = r.end /\ UNCHANGED <<chunked, wire>>
      /\ chunkEnd' = (IF chunked THEN r.from + rest ELSE chunkEnd)
      /\ dataPtr' = place /\ pos' = (IF copying THEN pos ELSE pos + call.want)
      /\ pc' = call.then
      /\ call' = (IF copying THEN [NoCall EXCEPT !.from = r.from, !.left = call.left] ELSE NoCall)
  BY <1>4 DEF Finish
<1>6. pc' \notin InCall /\ pc' # "malformed" /\ pc' # "fill" /\ pos' \in Nat
  BY <1>2, <1>3, <1>5 DEF Idle, InCall
<1>7. Place' = place
  <2>1. CASE copying
    <3>1. call'.from = r.from
      BY <1>5, <2>1 DEF NoCall
    <3>2. place = r.from /\ pc' \notin InCall /\ pc' = "copying"
      BY <1>4, <1>5, <1>6, <2>1
    <3> QED
      BY ONLY <3>1, <3>2 DEF Place
  <2>2. CASE ~copying
    BY <1>5, <1>6, <2>2 DEF Place
  <2> QED
    BY <2>1, <2>2
<1>8. r.from \in Int /\ r.taken \in Int /\ r.end \in Int
  <2>1. call.from \in 0 .. streamDataEnd /\ streamDataEnd \in 0 .. BufferSize
        /\ taken \in Nat /\ taken <= Len(wire) /\ wire \in Seq(Int) /\ mem \in [Memory -> Int]
        /\ taken \in 0 .. Len(wire)
    BY <1>1, <1>3, CallStarts, StoreTypes DEF StoreInv
  <2>2. Buffered(r, IF call.skip THEN 0 ELSE call.size)
    BY <1>2, <1>4, <2>1, SkipStreamBuffers, GetFromStreamBuffers
  <2> QED
    BY <2>2, Parameters DEF Buffered
<1>9. /\ call.want \in Int /\ call.size \in Int /\ call.remaining \in Int /\ call.from \in Int
      /\ pos \in Int /\ taken \in Int /\ streamDataEnd \in Int /\ 1 <= call.size
  BY <1>2, <1>3
<1>10. ASSUME chunked
      PROVE  JointAt' = JointAt /\ JointNumber' = JointNumber /\ Rest' - First' <= Rest - First
  <2>1. /\ JointAt = taken - streamDataEnd + call.from + call.remaining
        /\ JointNumber = pos + call.want - call.size + call.remaining
        /\ Rest = call.remaining /\ First = call.size
    BY <1>1, <1>10 DEF JointAt, JointNumber, Rest, At, Had, First
  <2>2. Rest' = chunkEnd' - Place' /\ First' = 1 /\ At' = Place' /\ Had' = pos'
    BY <1>5, <1>6, <1>10 DEF Rest, First, At, Had
  <2>3. chunkEnd' = r.from + rest
    BY <1>5, <1>10
  <2>4. rest \in Int /\ place \in Int
    BY <1>2, <1>4, <1>8
  <2>5. /\ JointAt' = r.taken - r.end + place + (r.from + rest - place)
        /\ JointNumber' = pos' + (r.from + rest - place) /\ Rest' = r.from + rest - place
    <3>1. Rest' = r.from + rest - place
      BY ONLY <1>7, <1>8, <2>2, <2>3, <2>4
    <3>2. At' = place /\ Had' = pos'
      BY <1>7, <2>2
    <3> QED
      BY <1>5, <3>1, <3>2 DEF JointAt, JointNumber
  <2>6. JointAt' = r.taken - r.end + r.from + rest
    BY <1>8, <2>4, <2>5
  <2>7. CASE call.skip
    <3>1. r.taken - r.end + r.from = taken - streamDataEnd + call.from + call.size
      BY <1>2, <1>3, <1>4, <2>7, SkipFinds
    <3>2. rest = call.remaining - call.size /\ place = r.from /\ pos' = pos + call.want
      BY <1>2, <1>4, <1>5, <2>7
    <3>3. JointAt' = JointAt
      BY ONLY <1>9, <1>8, <2>1, <2>6, <3>1, <3>2
    <3>4. JointNumber' = JointNumber
      <4>1. JointNumber' = pos + call.want + (r.from + (call.remaining - call.size) - r.from)
        BY <2>5, <3>2
      <4> QED
        BY ONLY <1>8, <1>9, <2>1, <4>1
    <3>5. Rest' - First' = call.remaining - call.size - 1
      BY <1>2, <1>8, <2>2, <2>5, <3>2
    <3> QED
      BY <1>2, <2>1, <3>3, <3>4, <3>5
  <2>8. CASE ~call.skip
    <3>1. r.taken - r.end + r.from = taken - streamDataEnd + call.from
      BY <1>2, <1>3, <1>4, <2>8, GetFinds
    <3>2. rest = call.remaining /\ call.want = call.size
      BY <1>2, <1>4, <2>8
    <3>3. JointAt' = JointAt
      BY ONLY <1>9, <1>8, <2>1, <2>6, <3>1, <3>2
    <3>4. CASE ~copying
      <4>1. place = r.from + call.size /\ pos' = pos + call.size
        BY <1>4, <1>5, <2>8, <3>2, <3>4
      <4>2. JointNumber' = pos + call.size + (r.from + call.remaining - (r.from + call.size))
            /\ Rest' - First' = r.from + call.remaining - (r.from + call.size) - 1
        BY ONLY <1>9, <1>8, <2>2, <2>5, <3>2, <4>1
      <4> QED
        BY ONLY <1>9, <1>8, <2>1, <3>2, <3>3, <4>2
    <3>5. CASE copying
      <4>1. place = r.from /\ pos' = pos /\ call.size = 1
        BY <1>2, <1>4, <1>5, <3>5
      <4>2. JointNumber' = pos + (r.from + call.remaining - r.from)
            /\ Rest' - First' = r.from + call.remaining - r.from - 1
        BY ONLY <1>9, <1>8, <2>2, <2>5, <3>2, <4>1
      <4> QED
        BY ONLY <1>9, <1>8, <2>1, <3>2, <3>3, <4>1, <4>2
    <3> QED
      BY <3>4, <3>5
  <2> QED
    BY <2>7, <2>8
<1>11. OnePiece'
  BY <1>1, <1>5, <1>10, PieceStays
<1> QED
  BY <1>6, <1>11 DEF WaitInv, CallsAsk

\* the call that skipped its chunk
LEMMA SkipRestWaits ==
  ASSUME ReaderInv, WaitInv, SkipRestOfChunk
  PROVE  WaitInv'
<1>1. pc = "chunk" /\ pc' = "header" /\ pc \in InCall /\ CallInv /\ pos' = pos
  BY DEF SkipRestOfChunk, InCall, ReaderInv, history
<1>2. PICK r : call' = [call EXCEPT !.from = r.from, !.remaining = 0, !.size = @ - call.remaining]
  BY DEF SkipRestOfChunk
<1>3. /\ call \in CallRecord /\ call.remaining < call.size
      /\ call.size \in Nat /\ call.remaining \in Nat /\ call.want \in Nat
  BY <1>1, CallTypes DEF CallInv
<1>4. /\ call.hdr = HeaderMin /\ call.size <= call.want /\ pos \in Nat
      /\ call.then = "copying" => call.want = 1
  BY <1>1 DEF WaitInv, CallsAsk
<1>5. /\ call'.hdr = call.hdr /\ call'.want = call.want /\ call'.then = call.then
      /\ call'.size = call.size - call.remaining
  BY <1>2, <1>3 DEF CallRecord
<1>6. 1 <= call'.size /\ call'.size <= call'.want
  BY <1>3, <1>4, <1>5
<1>7. \A z \in 0 .. 2 : call'.hdr <= z + 5
  BY <1>4, <1>5 DEF HeaderMin
<1>8. CallsAsk'
  BY <1>1, <1>4, <1>5, <1>6, <1>7 DEF CallsAsk
<1> QED
  BY <1>1, <1>4, <1>8 DEF WaitInv, OnePiece, Idle

\* the call that reads a header
LEMMA NextChunkWaits ==
  ASSUME ReaderInv, OrderInv, WaitInv, NextChunk
  PROVE  WaitInv'
<1>1. pc = "header" /\ pc \in InCall /\ StoreInv /\ CallInv
  BY DEF NextChunk, InCall, ReaderInv
<1>2. /\ call \in CallRecord /\ chunked /\ (call.skip => call.remaining = 0)
      /\ call.size \in Nat /\ call.remaining \in Nat /\ call.want \in Nat
      /\ call.hdr \in Nat /\ call.hdr >= 5 /\ call.remaining < call.size
      /\ call.from \in 0 .. streamDataEnd
  <2>1. chunked /\ call \in CallRecord /\ (call.skip => call.remaining = 0) /\ call.remaining < call.size
    BY <1>1 DEF CallInv
  <2> QED
    BY <1>1, <2>1, CallTypes, CallStarts
<1>3. /\ Had = pos + call.want - call.size /\ Had \in Int
      /\ Ahead(mem, call.from, streamDataEnd, taken, Had, call.remaining)
  BY <1>1, <1>2, CallAhead DEF OrderInv
<1>4. /\ wire \in Seq(Int) /\ Len(wire) \in Nat /\ taken \in 0 .. Len(wire) /\ taken \in Nat
      /\ mem \in [Memory -> Int] /\ streamDataEnd \in 0 .. BufferSize /\ WireInv
  BY <1>1, StoreTypes DEF StoreInv
<1>5. /\ HeaderNeeds \in Nat /\ call.remaining + 5 <= HeaderNeeds
      /\ HeaderNeeds - call.remaining < 7 => call.hdr + 1 <= HeaderNeeds - call.remaining
  <2>1. SkipAhead \in Nat /\ 7 <= SkipAhead
    BY Parameters DEF HeaderMax
  <2>2. CASE call.skip
    <3>1. HeaderNeeds = Minimum(call.size + call.hdr, SkipAhead) /\ call.remaining = 0
      BY <1>2, <2>2 DEF HeaderNeeds
    <3> QED
      BY <1>2, <2>1, <3>1 DEF Minimum
  <2>3. CASE ~call.skip
    BY <1>2, <2>3 DEF HeaderNeeds
  <2> QED
    BY <2>2, <2>3
<1>6. PICK r \in GetFromStream(call.from, HeaderNeeds) :
        LET start == r.from + call.remaining
            h == ParseChunkHeader(r.mem, start, r.end)
            d == IF call.skip THEN [mem |-> r.mem, from |-> h.end, end |-> r.end]
                 ELSE DropHeader(r.mem, r.from, call.remaining, start, h.end, r.end)
            rest == call.remaining + h.size
        IN /\ taken' = r.taken
           /\ \/ h.is = "malformed"
              \/ /\ h.is = "more" /\ streamDataEnd' = r.end
                 /\ call' = [call EXCEPT !.from = r.from, !.hdr = @ + 2]
                 /\ pc' = "header"
              \/ /\ h.is \notin {"malformed", "more"} /\ streamDataEnd' = d.end
                 /\ call' = [call EXCEPT !.from = d.from, !.hdr = HeaderMin, !.remaining = rest]
                 /\ pc' = (IF rest >= call.size THEN "fill"
                           ELSE IF call.skip THEN "chunk" ELSE "header")
  BY DEF NextChunk
<1> DEFINE start == r.from + call.remaining
           h == ParseChunkHeader(r.mem, start, r.end)
           d == IF call.skip THEN [mem |-> r.mem, from |-> h.end, end |-> r.end]
                ELSE DropHeader(r.mem, r.from, call.remaining, start, h.end, r.end)
           rest == call.remaining + h.size
           q == r.taken - r.end + start
           More == /\ h.is = "more" /\ streamDataEnd' = r.end
                   /\ call' = [call EXCEPT !.from = r.from, !.hdr = @ + 2]
                   /\ pc' = "header"
           Parsed == /\ h.is \notin {"malformed", "more"} /\ streamDataEnd' = d.end
                     /\ call' = [call EXCEPT !.from = d.from, !.hdr = HeaderMin, !.remaining = rest]
                     /\ pc' = (IF rest >= call.size THEN "fill"
                               ELSE IF call.skip THEN "chunk" ELSE "header")
<1>7. taken' = r.taken /\ (h.is = "malformed" \/ More \/ Parsed)
  BY <1>6
<1>8. UNCHANGED <<chunked, wire, pos>>
  BY DEF NextChunk, history
<1>9. /\ r.mem \in [Memory -> Int] /\ r.end \in 0 .. BufferSize /\ r.end \in Nat /\ r.from \in Nat
      /\ r.taken \in 0 .. Len(wire) /\ r.taken \in Nat
      /\ start \in Nat /\ start <= r.end /\ HeaderNeeds - call.remaining <= r.end - start
  <2>1. /\ r.mem \in [Memory -> Int] /\ r.end \in 0 .. BufferSize /\ r.taken \in 0 .. Len(wire)
        /\ r.from \in Nat /\ r.from + HeaderNeeds <= r.end
    BY <1>2, <1>4, <1>5, GetFromStreamBuffers DEF Buffered
  <2>2. r.end \in Nat /\ r.taken \in Nat
    BY <1>4, <2>1, Parameters
  <2> QED
    <3> DEFINE needs == HeaderNeeds
    <3>1. /\ needs \in Nat /\ call.remaining \in Nat /\ call.remaining + 5 <= needs
          /\ r.from \in Nat /\ r.from + needs <= r.end
      BY <1>2, <1>5, <2>1
    <3> HIDE DEF needs
    <3>2. start \in Nat /\ start <= r.end /\ needs - call.remaining <= r.end - start
      BY ONLY <2>2, <3>1
    <3> QED
      BY <2>1, <2>2, <3>2 DEF needs
<1>10. Ahead(r.mem, r.from, r.end, r.taken, Had, call.remaining)
  BY <1>2, <1>3, <1>4, <1>5, GetKeepsAhead
<1>11. /\ pos \in Nat /\ 1 <= call.size /\ call.size <= call.want
       /\ call.then = "copying" => call.want = 1
  BY <1>1 DEF WaitInv, CallsAsk
<1>12. /\ q \in Int /\ q # Len(wire) - 2 /\ Joint(q, Had + call.remaining)
       /\ \A k \in Nat : start + k < r.end => r.mem[start + k] = wire[q + k + 1]
  <2>1. /\ Joint(r.taken - r.end + r.from + call.remaining, Had + call.remaining)
        /\ \A j \in Nat : View(r.mem, r.end, r.taken, r.from + j) =
              IF j < call.remaining THEN Had + j + 1 ELSE wire[r.taken - r.end + r.from + j + 1]
    BY <1>10 DEF Ahead
  <2>2. q = r.taken - r.end + r.from + call.remaining /\ q \in Int
    <3>1. /\ r.taken \in Int /\ r.end \in Int /\ r.from \in Int /\ call.remaining \in Int
      BY <1>2, <1>9
    <3> QED
      BY ONLY <3>1
  <2>3. q # Len(wire) - 2
    <3>1. start + 5 <= r.end
      <4> DEFINE needs == HeaderNeeds
      <4>1. needs \in Nat /\ call.remaining + 5 <= needs /\ needs - call.remaining <= r.end - start
        BY <1>5, <1>9
      <4> HIDE DEF needs
      <4>2. call.remaining \in Nat /\ r.end \in Nat /\ start \in Nat
        BY <1>2, <1>9
      <4> HIDE DEF start
      <4> QED
        BY ONLY <4>1, <4>2
    <3>2. r.taken \in Nat /\ r.taken <= Len(wire) /\ r.end \in Nat /\ start \in Nat
      BY <1>4, <1>9
    <3> HIDE DEF start
    <3> QED
      BY <1>4, <3>1, <3>2
  <2>4. ASSUME NEW k \in Nat, start + k < r.end PROVE r.mem[start + k] = wire[q + k + 1]
    <3>1. /\ call.remaining + k \in Nat /\ ~(call.remaining + k < call.remaining)
          /\ r.from + (call.remaining + k) = start + k
          /\ r.taken - r.end + r.from + (call.remaining + k) + 1 = q + k + 1
      <4>1. /\ r.from \in Nat /\ r.taken \in Nat /\ r.end \in Nat
            /\ call.remaining \in Nat
        BY <1>2, <1>9
      <4> QED
        BY ONLY <4>1, k \in Nat
    <3>2. View(r.mem, r.end, r.taken, start + k) = wire[q + k + 1]
      <4> HIDE DEF q, start
      <4> QED
        BY <2>1, <3>1
    <3> QED
      BY <2>4, <3>2 DEF View
  <2> QED
    BY <2>1, <2>2, <2>3, <2>4
<1> HIDE DEF q
<1>13. PICK c \in 0 .. 9, z \in 0 .. 2 : q \in Nat /\ HeaderAt(q, c, z)
  <2>1. Had + call.remaining \in Int
    BY <1>2, <1>3
  <2> QED
    BY <1>2, <1>4, <1>12, <2>1, TurnAnnounces
<1>14. ASSUME NEW n \in 0 .. 9, NEW y \in 0 .. 2, HeaderAt(q, n, y)
       PROVE  h.is # "malformed" /\ (h.is = "more" => r.end - start < y + 5)
  <2>1. HeaderMin <= r.end - start
    BY <1>2, <1>5, <1>9 DEF HeaderMin
  <2> HIDE DEF start
  <2>2. h = ParseChunkHeader(r.mem, start, r.end)
    OBVIOUS
  <2> HIDE DEF h
  <2> QED
    <3>1. /\ r.mem \in [Memory -> Int] /\ start \in Nat /\ r.end \in 0 .. BufferSize /\ q \in Nat
      BY <1>9, <1>13 DEF start
    <3>2. \A k \in Nat : start + k < r.end => r.mem[start + k] = wire[q + k + 1]
      BY <1>12 DEF start
    <3>3. n \in 0 .. 9 /\ y \in 0 .. 2 /\ HeaderAt(q, n, y)
      BY <1>14
    <3>4. HeaderBehind(r.mem, start, r.end, q, n, y)
      BY ONLY <2>1, <3>1, <3>2, <3>3 DEF HeaderBehind
    <3> QED
      BY ONLY <2>2, <3>4, HeaderComes
<1>15. h.is # "malformed"
  BY <1>13, <1>14
<1>16. CASE More
  <2>1. /\ call'.from = r.from /\ call'.remaining = call.remaining /\ call'.want = call.want
        /\ call'.size = call.size /\ call'.hdr = call.hdr + 2 /\ call'.then = call.then
    BY <1>2, <1>16 DEF CallRecord
  <2>2. HeaderStart' = q
    BY <1>2, <1>7, <1>9, <1>16, <2>1 DEF HeaderStart, q
  <2>3. ASSUME NEW n \in 0 .. 9, NEW y \in 0 .. 2, HeaderAt(q, n, y) PROVE call.hdr + 2 <= y + 5
    <3>1. r.end - start < y + 5
      BY <1>14, <1>16, <2>3
    <3>2. HeaderNeeds - call.remaining < y + 5
      BY <1>2, <1>5, <1>9, <3>1
    <3> QED
      BY <1>2, <1>5, <3>2
  <2>5. (\A n \in 0 .. 9, y \in 0 .. 2 : HeaderAt(HeaderStart, n, y) => call.hdr <= y + 5)'
    BY <1>8, <2>1, <2>2, <2>3 DEF HeaderAt
  <2>6. CallsAsk'
    BY <1>11, <1>16, <2>1, <2>5 DEF CallsAsk
  <2> QED
    BY <1>8, <1>11, <1>16, <2>6 DEF WaitInv, OnePiece, Idle
<1>17. CASE Parsed
  <2>1. /\ call'.from = d.from /\ call'.remaining = rest /\ call'.want = call.want
        /\ call'.size = call.size /\ call'.hdr = HeaderMin /\ call'.then = call.then
        /\ streamDataEnd' = d.end
        /\ h.is \notin {"malformed", "more"}
    BY <1>2, <1>17 DEF CallRecord
  <2>2. pc' \in {"fill", "chunk", "header"} /\ (pc' = "fill" => rest >= call.size)
    BY <1>17
  <2>3. \A k \in 1 .. h.size :
            IsPayload(r.taken - d.end + d.from + call.remaining + k, Had + call.remaining + k)
    <3>1. \/ call.remaining = 0 /\ d = [mem |-> r.mem, from |-> h.end, end |-> r.end]
          \/ d = DropHeader(r.mem, r.from, call.remaining, start, h.end, r.end)
      BY <1>2
    <3>2. h = ParseChunkHeader(r.mem, start, r.end) /\ start = r.from + call.remaining
      OBVIOUS
    <3>3. /\ r.mem \in [Memory -> Int] /\ r.from \in Nat /\ call.remaining \in Nat
          /\ r.end \in 0 .. BufferSize /\ start <= r.end /\ r.taken \in 0 .. Len(wire)
          /\ Had \in Int /\ WireInv /\ chunked
      BY <1>2, <1>3, <1>4, <1>9
    <3>4. h.is \notin {"malformed", "more"}
      BY <2>1
    <3> HIDE DEF d, h, start
    <3> QED
      <4>1. Joins(r.mem, r.from, call.remaining, start, r.end, r.taken, Had, h, d)
        BY ONLY <1>10, <3>1, <3>2, <3>3, <3>4 DEF Joins
      <4> QED
        BY ONLY <4>1, ChunkJoins
  <2>4. d.from \in Int /\ d.end \in Int /\ h.size \in Nat
    <3>1. h.size \in Nat /\ h.end \in Nat /\ start <= h.end /\ h.end <= r.end
      BY <1>9, <2>1, ParsedHeader
    <3>2. CASE call.skip
      BY <1>9, <3>1, <3>2
    <3>3. CASE ~call.skip
      <4>1. d = DropHeader(r.mem, r.from, call.remaining, start, h.end, r.end)
        BY <3>3
      <4>2. d.end \in 0 .. BufferSize /\ d.from \in 0 .. d.end
        <5> HIDE DEF h, d
        <5> QED
          BY <1>2, <1>9, <3>1, <4>1, DropHeaderKeeps
      <4> HIDE DEF h, d
      <4> QED
        BY <3>1, <4>2
    <3> QED
      BY <1>2, <3>2, <3>3
  <2> HIDE DEF d, h
  <2>5. ASSUME pc' = "fill", NEW k \in 0 .. Rest' - First'
        PROVE  (Arrives(JointAt - k, JointNumber - k))'
    <3>1. Rest' = call.remaining + h.size /\ First' = call.size /\ At' = d.from /\ Had' = Had
      BY <1>2, <1>3, <1>8, <2>1, <2>5 DEF Rest, First, At, Had, InCall
    <3>2. /\ JointAt' = r.taken - d.end + d.from + (call.remaining + h.size)
          /\ JointNumber' = Had + (call.remaining + h.size)
      BY <1>7, <2>1, <3>1 DEF JointAt, JointNumber
    <3>3. /\ r.taken \in Int /\ d.from \in Int /\ d.end \in Int /\ Had \in Int
          /\ call.size \in Int /\ call.remaining \in Int /\ call.remaining < call.size
          /\ h.size \in Int
      BY <1>2, <1>3, <1>9, <2>4
    <3>6. k \in 0 .. ((call.remaining + h.size) - call.size)
      BY <2>5, <3>1
    <3>4. /\ h.size - k \in 1 .. h.size
          /\ r.taken - d.end + d.from + call.remaining + (h.size - k) = JointAt' - k
          /\ Had + call.remaining + (h.size - k) = JointNumber' - k
      BY ONLY <3>2, <3>3, <3>6
    <3>5. IsPayload(JointAt' - k, JointNumber' - k)
      BY <2>3, <3>4
    <3> QED
      BY <1>2, <1>8, <3>5 DEF Arrives, IsPayload
  <2>6. OnePiece'
    BY <2>2, <2>5 DEF OnePiece, Idle
  <2>7. \A y \in 0 .. 2 : HeaderMin <= y + 5
    BY DEF HeaderMin
  <2>8. (1 <= call.size /\ call.size <= call.want)' /\ (pos \in Nat /\ pc # "malformed")'
    BY <1>8, <1>11, <2>1, <2>2
  <2>9. (pc = "chunk" => call.hdr = HeaderMin)'
    BY <2>1
  <2>10. (pc = "header" => \A n \in 0 .. 9, y \in 0 .. 2 :
                             HeaderAt(HeaderStart, n, y) => call.hdr <= y + 5)'
    BY <2>1, <2>7
  <2>11. (call.then = "copying" => call.want = 1)'
    BY <1>11, <2>1
  <2> QED
    BY <2>6, <2>8, <2>9, <2>10, <2>11 DEF WaitInv, CallsAsk
<1> QED
  BY <1>7, <1>15, <1>16, <1>17

\* the part of a string that the buffer has is copied
LEMMA CopyWaits ==
  ASSUME ReaderInv, OrderInv, ReaderInv', OrderInv', WaitInv, CopyBytes
  PROVE  WaitInv'
<1> DEFINE have == dataEnd - call.from
<1>1. /\ pc = "copying" /\ pc \in Idle \cup {"copying"}
      /\ UNCHANGED <<chunked, wire, streamDataEnd, taken, chunkEnd>>
  BY DEF CopyBytes
<1>2. Place = call.from /\ call.from \in 0 .. dataEnd /\ call.left \in Nat
  <2>1. Place = call.from
    BY <1>1, IdleTypes
  <2> QED
    BY <1>1, <2>1, IdleTypes
<1>3. dataEnd \in Int /\ pos \in Nat
  BY StoreNumbers DEF ReaderInv, WaitInv
<1>4. have \in Nat /\ call.from \in Nat
  BY <1>2, <1>3
<1> HIDE DEF have
<1>5. CASE have >= call.left
  <2>1. pos' = pos + call.left /\ dataPtr' = call.from + call.left /\ pc' = "user"
    BY <1>5 DEF CopyBytes, have
  <2>2. Place' = Place + call.left
    BY <1>2, <2>1 DEF Place, InCall
  <2>3. pc' \in Idle \cup {"copying"}
    BY <2>1 DEF Idle
  <2> QED
    BY <1>1, <1>2, <2>1, <2>2, <2>3, GoesOnWaiting
<1>6. CASE ~(have >= call.left)
  <2>1. pos' = pos + have /\ Cross(call.from + have, 1, FALSE, call.left - have, "copying")
    BY <1>6 DEF CopyBytes, have
  <2>2. /\ call.from + have \in Int /\ Place <= call.from + have /\ pos' \in Nat
        /\ pos' = pos + ((call.from + have) - Place)
    BY <1>2, <1>3, <1>4, <2>1
  <2>3. 1 \in Nat /\ 0 < 1
    OBVIOUS
  <2> QED
    BY <1>1, <2>1, <2>2, <2>3, CrossWaits
<1> QED
  BY <1>5, <1>6

\* every step
LEMMA WaitKeeps ==
  ASSUME ReaderInv, OrderInv, WaitInv, [Next]_vars
  PROVE  WaitInv'
<1>0. ReaderInv' /\ OrderInv'
  BY ReaderKeeps, OrderKeeps
<1>1. CASE FillFromChunk \/ SkipRestOfChunk \/ NextChunk \/ CopyBytes
  BY <1>0, <1>1, FillWaits, SkipRestWaits, NextChunkWaits, CopyWaits
<1>2. CASE EndOfStream
  <2>1. pc' = "threw" /\ pos' = pos
    BY <1>2 DEF EndOfStream
  <2> QED
    BY <2>1 DEF WaitInv, CallsAsk, OnePiece, Idle, InCall
<1>3. CASE ReadSize \/ SkipUnread \/ Field \/ OpenContainer \/ SkipContainer \/ CloseContainer
           \/ SkipContents
  <2>1. contentEnd \in Int /\ dataPtr \in Int
    BY StoreNumbers DEF ReaderInv
  <2>2. CASE ReadSize
    BY <1>0, <2>2, AccessWaits DEF ReadSize, Idle
  <2>3. CASE OpenContainer
    BY <1>0, <2>3, AccessWaits DEF OpenContainer, Idle
  <2>4. CASE SkipContainer
    BY <1>0, <2>4, AccessWaits DEF SkipContainer, Idle
  <2>5. CASE SkipUnread
    <3>1. pc = "unread" /\ pc \in Idle /\ "between" \in Idle /\ Access(call.want, TRUE, "between")
      BY <2>5 DEF SkipUnread, Idle
    <3>2. call.want \in Nat
      BY <3>1, IdleTypes
    <3> QED
      BY <1>0, <3>1, <3>2, AccessWaits
  <2>6. CASE Field
    <3>1. PICK n \in Fields, skip \in BOOLEAN : Access(n, skip, "user")
      BY <2>6 DEF Field
    <3>2. n \in Nat /\ pc \in Idle /\ "user" \in Idle
      BY <2>6, Parameters DEF Field, Idle
    <3> QED
      BY <1>0, <3>1, <3>2, AccessWaits
  <2>7. CASE CloseContainer \/ SkipContents
    <3>1. pc \in {"user", "skipping"}
      BY <2>7 DEF CloseContainer, SkipContents
    <3>2. dataPtr <= contentEnd
      BY <2>1, <3>1, IdleTypes, StoreNumbers DEF Idle, InContent, ReaderInv
    <3>3. /\ contentEnd - dataPtr \in Nat
          /\ \A s \in Lengths \cup {0} : Minimum(s, contentEnd - dataPtr) \in Nat
      BY <2>1, <3>2, Parameters DEF Minimum
    <3>4. pc \in Idle /\ "user" \in Idle /\ "closing" \in Idle
      BY <3>1 DEF Idle
    <3>5. CASE CloseContainer
      <4>1. Access(contentEnd - dataPtr, TRUE, "closing")
        BY <3>5 DEF CloseContainer
      <4> QED
        BY <1>0, <3>3, <3>4, <4>1, AccessWaits
    <3>6. CASE SkipContents
      <4>1. PICK s \in Lengths \cup {0} : Access(Minimum(s, contentEnd - dataPtr), TRUE, "user")
        BY <3>6 DEF SkipContents
      <4> QED
        BY <1>0, <3>3, <3>4, <4>1, AccessWaits
    <3> QED
      BY <2>7, <3>5, <3>6
  <2> QED
    BY <1>3, <2>2, <2>3, <2>4, <2>5, <2>6, <2>7
<1>4. CASE SetMessageSize \/ SetContainer \/ LeaveContainer \/ NextMessage
  <2>1. /\ pc \in Idle /\ pc' \in Idle \cup {"threw"} /\ dataPtr' = dataPtr
        /\ UNCHANGED <<chunked, wire, streamDataEnd, taken, chunkEnd, pos>>
    BY <1>4 DEF SetMessageSize, SetContainer, LeaveContainer, NextMessage, barriers, buffers, Idle
  <2>2. CASE pc' = "threw"
    BY <2>1, <2>2 DEF WaitInv, CallsAsk, OnePiece, Idle, InCall
  <2>3. CASE pc' \in Idle
    <3>1. Place' = Place + 0 /\ pos' = pos + 0
      <4>1. Place = dataPtr /\ Place' = dataPtr
        BY <2>1, <2>3 DEF Place, Idle, InCall
      <4>2. dataPtr \in Int /\ pos \in Int
        BY StoreNumbers DEF ReaderInv
      <4> QED
        BY <2>1, <4>1, <4>2
    <3>2. 0 \in Nat
      OBVIOUS
    <3> QED
      BY <1>0, <2>1, <2>3, <3>1, <3>2, GoesOnWaiting
  <2> QED
    BY <2>1, <2>2, <2>3
<1>5. CASE ReadString
  <2>1. /\ pc = "user" /\ pc' = "copying"
        /\ UNCHANGED <<chunked, wire, streamDataEnd, taken, chunkEnd, dataPtr, pos>>
        /\ \E n : call' = [NoCall EXCEPT !.from = dataPtr, !.left = n]
    BY <1>5 DEF ReadString, barriers, buffers
  <2>2. call'.from = dataPtr
    BY <2>1 DEF NoCall
  <2>3. Place' = Place + 0 /\ pos' = pos + 0
    <3>1. Place = dataPtr /\ Place' = dataPtr
      BY <2>1, <2>2 DEF Place, Idle, InCall
    <3>2. dataPtr \in Int /\ pos \in Int
      BY StoreNumbers DEF ReaderInv
    <3> QED
      BY <2>1, <3>1, <3>2
  <2>4. 0 \in Nat /\ pc \in Idle
    BY <2>1 DEF Idle
  <2> QED
    BY <1>0, <2>1, <2>3, <2>4, GoesOnWaiting
<1>6. CASE Stopped \/ UNCHANGED vars
  <2>1. UNCHANGED <<chunked, wire, taken, streamDataEnd, dataPtr, chunkEnd, pc, call, pos>>
    BY <1>6 DEF Stopped, vars, buffers, barriers, history
  <2>2. Place' = Place
    BY <2>1 DEF Place
  <2>3. At' = At /\ Had' = Had /\ First' = First
    BY <2>1, <2>2 DEF At, Had, First
  <2>4. Rest' = Rest
    BY <2>1, <2>2, <2>3 DEF Rest
  <2>5. OnePiece'
    BY <2>1, <2>3, <2>4 DEF WaitInv, OnePiece, JointAt, JointNumber, Arrives, IsPayload
  <2>6. HeaderStart' = HeaderStart /\ \A q, n, z : HeaderAt(q, n, z)' = HeaderAt(q, n, z)
    BY <2>1 DEF HeaderStart, HeaderAt
  <2>7. CallsAsk'
    BY <2>1, <2>6 DEF WaitInv, CallsAsk, HeaderStart, HeaderAt
  <2> QED
    BY <2>1, <2>5, <2>7 DEF WaitInv
<1> QED
  BY <1>1, <1>2, <1>3, <1>4, <1>5, <1>6 DEF Next, Read, Cursor, Application

\* and the first state
LEMMA WaitStarts ==
  ASSUME Init
  PROVE  WaitInv
<1>1. dataPtr = 0 /\ chunkEnd = 0 /\ pc = "between" /\ pos = 0
  BY DEF Init
<1>2. pc \notin InCall /\ pc # "malformed"
  BY <1>1 DEF InCall
<1>3. OnePiece
  <2>1. CASE chunked
    <3>1. Rest = 0 /\ First = 1
      BY <1>1, <2>1 DEF Rest, Place, First, InCall
    <3> QED
      BY <3>1 DEF OnePiece
  <2>2. CASE ~chunked
    <3>1. Ahead(mem, At, streamDataEnd, taken, Had, Rest)
      BY <1>1, OrderStarts DEF OrderInv, AheadInv, Reading, Idle
    <3>2. JointAt = JointNumber
      BY <2>2, <3>1 DEF Ahead, Joint, JointAt, JointNumber
    <3> QED
      BY <2>2, <3>2 DEF OnePiece, Arrives
  <2> QED
    BY <2>1, <2>2
<1> QED
  BY <1>1, <1>2, <1>3 DEF WaitInv, CallsAsk

\* byte number t of the payload is in one place of the response, and no earlier
\* than behind a byte that comes before it in the payload
LEMMA WireEndIs ==
  ASSUME WireInv, NEW t \in Int, 1 <= t, t <= Payload
  PROVE  /\ WireEnd(t) \in 1 .. Len(wire) /\ wire[WireEnd(t)] = t
         /\ \A i \in 1 .. Len(wire) : wire[i] = t => WireEnd(t) = i
         /\ \A i \in 1 .. Len(wire) : 1 <= wire[i] /\ wire[i] <= t
                                      => i + (t - wire[i]) <= WireEnd(t)
<1>1. wire \in Seq(Int) /\ Total \in Nat /\ Numbers(wire, Total) /\ Len(wire) \in Nat
  BY WireIsNumbered
<1>2. t \in 1 .. Total
  BY <1>1, PayloadIsTotal
<1>3. \E i \in 1 .. Len(wire) : wire[i] = t
  BY <1>1, <1>2 DEF Numbers
<1>4. WireEnd(t) \in 1 .. Len(wire) /\ wire[WireEnd(t)] = t
  BY <1>3 DEF WireEnd
<1> DEFINE e == WireEnd(t)
<1> HIDE DEF e
<1>5. ASSUME NEW i \in 1 .. Len(wire), 1 <= wire[i], wire[i] <= t
      PROVE  (wire[i] = t => e = i) /\ i + (t - wire[i]) <= e
  <2>1. e \in 1 .. Len(wire) /\ wire[e] = t /\ wire[e] > 0 /\ wire[i] > 0 /\ wire[i] \in Int
    BY <1>1, <1>2, <1>4, <1>5 DEF e
  <2>2. ~(e < i)
    <3> SUFFICES ASSUME e < i PROVE FALSE
      OBVIOUS
    <3>1. 0 < wire[i] - wire[e]
      BY <1>1, <2>1 DEF Numbers
    <3> QED
      BY <1>5, <2>1, <3>1
  <2>3. CASE i < e
    <3>1. 0 < wire[e] - wire[i] /\ wire[e] - wire[i] <= e - i
      BY <1>1, <2>1, <2>3 DEF Numbers
    <3> QED
      BY <2>1, <3>1
  <2>4. CASE i = e
    BY <2>1, <2>4
  <2> QED
    BY <2>1, <2>2, <2>3, <2>4
<1>6. ASSUME NEW i \in 1 .. Len(wire), wire[i] = t PROVE e = i
  BY <1>5, <1>6
<1> QED
  BY <1>4, <1>5, <1>6 DEF e

\* no call waits for more than the last byte that it returns
LEMMA WaitsForNoMore ==
  ASSUME ReaderInv, OrderInv, WaitInv
  PROVE  HeadersAreReadAsTheyCome
<1>1. pc # "malformed"
  BY DEF WaitInv
<1>2. ASSUME pc \in InCall, pos + call.want <= Payload
      PROVE  taken + Missing <= WireEnd(pos + call.want)
  <2> DEFINE t == pos + call.want
             q == HeaderStart
             p == Had + call.remaining
  <2>1. CallInv /\ StoreInv /\ WireInv
    BY <1>2 DEF ReaderInv, StoreInv
  <2>2. /\ call.size \in Nat /\ call.remaining \in Nat /\ call.want \in Nat /\ call.from \in Nat
        /\ call.hdr \in Nat
        /\ pos \in Nat /\ taken \in Nat /\ streamDataEnd \in Nat /\ Len(wire) \in Nat
        /\ 1 <= call.size /\ call.size <= call.want /\ chunked \in BOOLEAN
    BY <1>2, <2>1, CallTypes, StoreNumbers, WireBytes DEF WaitInv, CallsAsk
  <2>3. /\ Had = pos + call.want - call.size /\ Had \in Int /\ Rest \in Nat
        /\ Ahead(mem, call.from, streamDataEnd, taken, Had, Rest)
        /\ (chunked => Rest = call.remaining) /\ At = call.from
    BY <1>2, CallAhead DEF OrderInv, At
  <2>4. t \in Int /\ 1 <= t /\ t <= Payload
    BY <1>2, <2>2
  <2>5. /\ WireEnd(t) \in 1 .. Len(wire)
        /\ \A i \in 1 .. Len(wire) : wire[i] = t => WireEnd(t) = i
        /\ \A i \in 1 .. Len(wire) : 1 <= wire[i] /\ wire[i] <= t => i + (t - wire[i]) <= WireEnd(t)
    <3> HIDE DEF t
    <3> QED
      BY <2>1, <2>4, WireEndIs
  <2>6. /\ call.size \in Int /\ call.remaining \in Int /\ call.want \in Int /\ call.from \in Int
        /\ call.hdr \in Int /\ pos \in Int /\ taken \in Int /\ streamDataEnd \in Int
        /\ Had \in Int /\ Had = pos + call.want - call.size /\ Rest \in Int
        /\ 0 <= Had /\ 0 <= call.remaining
    BY <2>2, <2>3
  <2>7. CASE pc = "fill"
    <3> DEFINE i == taken - streamDataEnd + call.from + call.size
    <3>1. Asked = call.size
      BY <2>7 DEF Asked
    <3>2. taken + Missing = i
      BY <2>2, <3>1 DEF Missing
    <3>3. i \in 1 .. Len(wire) /\ wire[i] = t
      <4>1. CASE chunked
        <5>1. call.size <= call.remaining
          BY <2>1, <2>7 DEF CallInv, InCall
        <5>2. First = call.size /\ pc \in Idle \cup {"copying", "fill"} /\ Rest = call.remaining
          BY <2>3, <2>7, <4>1 DEF First
        <5>3. call.remaining - call.size \in 0 .. Rest - First
          BY <2>2, <5>1, <5>2
        <5>4. Arrives(JointAt - (call.remaining - call.size), JointNumber - (call.remaining - call.size))
          BY <5>2, <5>3 DEF WaitInv, OnePiece
        <5>5. /\ JointAt = taken - streamDataEnd + call.from + call.remaining
              /\ JointNumber = pos + call.want - call.size + call.remaining
          BY <2>3, <5>2 DEF JointAt, JointNumber
        <5>6. /\ JointAt - (call.remaining - call.size) = i
              /\ JointNumber - (call.remaining - call.size) = t
          BY ONLY <2>6, <5>5
        <5> QED
          BY <4>1, <5>4, <5>6 DEF Arrives, IsPayload
      <4>2. CASE ~chunked
        <5>1. taken - streamDataEnd + call.from + Rest = Had + Rest
          BY <2>3, <4>2 DEF Ahead, Joint
        <5>2. i = t
          BY ONLY <2>6, <5>1
        <5>3. t <= Len(wire) /\ t \in 1 .. Len(wire)
          <6>1. Payload \in Nat /\ Payload <= Len(wire)
            BY <2>1, <4>2, PayloadIsTotal DEF Total
          <6> QED
            BY <2>2, <2>4, <6>1
        <5>4. wire[t] = t
          BY <2>1, <4>2, <5>3, PlainWire
        <5> QED
          BY <5>2, <5>3, <5>4
      <4> QED
        BY <2>2, <4>1, <4>2
    <3> QED
      BY <2>2, <2>5, <3>2, <3>3
  <2>8. CASE pc # "fill"
    <3>1. chunked /\ call.remaining < call.size
      BY <1>2, <2>1, <2>8 DEF CallInv
    <3>2. Joint(q, p) /\ q \in Int /\ p \in Nat /\ p < t /\ t - p = call.size - call.remaining
      <4>1. Joint(taken - streamDataEnd + call.from + Rest, Had + Rest) /\ Rest = call.remaining
        BY <2>3, <3>1 DEF Ahead
      <4>2. q = taken - streamDataEnd + call.from + Rest
        BY <4>1 DEF HeaderStart
      <4>3. Had + call.remaining \in Nat /\ Had + call.remaining < t
            /\ t - (Had + call.remaining) = call.size - call.remaining
        BY ONLY <2>6, <3>1
      <4> QED
        BY <2>2, <2>3, <4>1, <4>2, <4>3
    <3> HIDE DEF q, p
    <3>3. PICK n \in 1 .. 9, z \in 0 .. 2 : q \in Nat /\ FullTurn(q, p, n, z)
      <4>1. p # Whole
        <5>1. Payload \in Nat /\ Payload <= Whole
          BY <2>1, <3>1, PayloadIsTotal DEF Total
        <5>2. Whole \in Nat
          BY <2>1, <3>1, WireIsNumbered DEF Total
        <5> QED
          BY <2>4, <3>2, <5>1, <5>2
      <4>2. Turn(q, p)
        BY <3>1, <3>2, <4>1 DEF Joint
      <4> QED
        BY <2>1, <3>1, <4>1, <4>2, TurnLeads
    <3>4. /\ HeaderAt(q, n, z) /\ q \in Int
          /\ q + z + 6 \in 1 .. Len(wire) /\ wire[q + z + 6] = p + 1
      <4> DEFINE e == q + z + 5 + n
      <4>1. Turn(e, p + n)
        BY <3>3 DEF FullTurn
      <4>2. \E m \in 0 .. 9, y \in 0 .. 2 : HeaderAt(e, m, y)
        <5>1. LastTurn(e) \/ \E m \in 1 .. 9, y \in 0 .. 2 : FullTurn(e, p + n, m, y)
          <6> HIDE DEF e
          <6> QED
            BY <2>1, <3>1, <4>1, TurnLeads
        <5> HIDE DEF e
        <5> QED
          BY <5>1 DEF LastTurn, FullTurn
      <4>3. e \in Int /\ e <= Len(wire)
        <5>1. e \in Int
          BY <3>3
        <5> HIDE DEF e
        <5> QED
          BY <2>2, <4>2, <5>1 DEF HeaderAt
      <4>4. q + z + 6 \in 1 .. Len(wire) /\ q + z + 5 + 1 = q + z + 6 /\ 1 \in 1 .. n
        BY <2>2, <3>3, <4>3
      <4>5. wire[q + z + 5 + 1] = p + 1
        BY <3>3, <4>4 DEF FullTurn
      <4> QED
        BY <3>3, <4>4, <4>5 DEF FullTurn
    <3>5. q + z + 5 + (t - p) <= WireEnd(t)
      <4> DEFINE e == WireEnd(t)
      <4>1. 1 <= p + 1 /\ p + 1 <= t
        BY <2>4, <3>2
      <4>2. q + z + 6 + (t - (p + 1)) <= e
        BY <2>5, <3>4, <4>1
      <4>3. e \in Int
        BY <2>5
      <4> HIDE DEF e, t
      <4>4. q + z + 5 + (t - p) <= e
        BY <2>4, <3>2, <3>4, <4>2, <4>3
      <4> QED
        BY <4>4 DEF e
    <3>6. q = taken - streamDataEnd + call.from + call.remaining
      BY DEF q, HeaderStart
    <3>7. CASE pc = "chunk"
      <4>1. Asked = call.remaining
        BY <3>7 DEF Asked
      <4>2. taken + Missing = q
        BY <2>2, <3>6, <4>1 DEF Missing
      <4>3. q <= WireEnd(t)
        <5> DEFINE e == WireEnd(t)
        <5>1. e \in Int /\ q + z + 5 + (call.size - call.remaining) <= e
          BY <2>5, <3>2, <3>5
        <5>2. call.remaining < call.size /\ z \in Int /\ 0 <= z
          BY <3>1
        <5> HIDE DEF e
        <5>3. q <= e
          BY ONLY <2>6, <3>4, <5>1, <5>2
        <5> QED
          BY <5>3 DEF e
      <4> QED
        BY <4>2, <4>3
    <3>8. CASE pc = "header"
      <4>1. Asked = HeaderNeeds
        BY <3>8 DEF Asked
      <4>2. call.hdr <= z + 5
        BY <3>4, <3>8 DEF WaitInv, CallsAsk, q, InCall
      <4>3. HeaderNeeds \in Int /\ HeaderNeeds <= call.size + call.hdr
        BY <2>2, Parameters DEF HeaderNeeds, Minimum
      <4> DEFINE needs == HeaderNeeds
                 e == WireEnd(t)
      <4>4. taken + Missing = taken + (needs - (streamDataEnd - call.from))
        BY <4>1 DEF Missing
      <4>5. needs \in Int /\ needs <= call.size + call.hdr /\ e \in Int
            /\ q + z + 5 + (call.size - call.remaining) <= e
        BY <2>5, <3>2, <3>5, <4>3
      <4> HIDE DEF needs, e
      <4>6. taken + Missing <= e
        <5>1. z \in Int
          OBVIOUS
        <5> QED
          BY ONLY <2>6, <3>6, <4>2, <4>4, <4>5, <5>1
      <4> QED
        BY <4>6 DEF e
    <3> QED
      BY <1>2, <2>8, <3>7, <3>8 DEF InCall
  <2> QED
    BY <2>7, <2>8
<1> QED
  BY <1>1, <1>2 DEF HeadersAreReadAsTheyCome

\* A read or skip never waits for a byte of the response beyond the last one that
\* it returns, and refuses no header that the server wrote, in however many pieces
\* the response comes and however often the bytes are moved (getOrSkipChunked,
\* getFromStream, skipStream, parseChunkHeader).
THEOREM HeadersReadAsTheyCome == Spec => []HeadersAreReadAsTheyCome
<1>1. ReaderInv /\ OrderInv /\ WaitInv /\ [Next]_vars => (ReaderInv /\ OrderInv /\ WaitInv)'
  BY ReaderKeeps, OrderKeeps, WaitKeeps
<1>2. Init => ReaderInv /\ OrderInv /\ WaitInv
  BY ReaderStarts, OrderStarts, WaitStarts
<1>3. ReaderInv /\ OrderInv /\ WaitInv => HeadersAreReadAsTheyCome
  BY WaitsForNoMore
<1> QED
  BY <1>1, <1>2, <1>3, PTL DEF Spec

=============================================================================
