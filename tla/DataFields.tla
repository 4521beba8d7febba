------------------------------ MODULE DataFields ------------------------------
(***************************************************************************)
(* The fields of a message as data_writer.cpp writes them and data_reader  *)
(* .cpp reads them back: compressed integers, intervals, timestamps,       *)
(* alphanumerics and text.  A field is a record of its kind and its value; *)
(* an encoded field is a sequence of bytes.  Integers here stay below 2^31: *)
(* the widths and the branches are the code's, the 64-bit tails are not    *)
(* reached.  Alphanumerics are sequences of codes 0..63 (a character less   *)
(* the blank), at most ten of them, which fit the 64 bits the writer        *)
(* gathers; text is a sequence of UTF-16 units.  A value is <<v>>, NULL <<>>.*)
(***************************************************************************)
EXTENDS Integers, Sequences, FiniteSets, SequencesExt

Null == <<>>

\* _bsr: the number of bits of v.
NumBits(v) == Cardinality({k \in 0..30 : 2^k <= v})
NumBytes(v) == (NumBits(v) + 7) \div 8

\* The n lowest bytes of v, the lowest one first (_storeLE, putLE).
Weight == <<1, 256, 65536, 16777216>>
LE(v, n) == [i \in 1..n |-> IF i > 4 THEN 0 ELSE (v \div Weight[i]) % 256]
BE(v, n) == Reverse(LE(v, n))
FromBE(bs) == FoldLeft(LAMBDA x, b : x * 256 + b, 0, bs)
FromLE(bs) == FromBE(Reverse(bs))

\* n bytes of bs from index p on.
At(bs, p, n) == SubSeq(bs, p, p + n - 1)

-----------------------------------------------------------------------------
\* writePackedUInt: the low bits (low values of them: 64 for a uint32, 32 for a
\* uint64) and the number of bytes that follow.
WritePackedUInt(v, low) ==
    LET n == NumBytes(v \div low)
    IN <<(v % low) + low * n>> \o LE(v \div low, n)

\* getPackedUInt30, getPackedUInt61.
GetPackedUInt(bs, p, low) ==
    LET n == bs[p] \div low
    IN [value |-> (bs[p] % low) + low * FromLE(At(bs, p + 1, n)), next |-> p + 1 + n]

\* writePUInt30 and 61, readPUInt30 and 61: zero stands for NULL.
WritePUInt(value, low) ==
    IF value = Null THEN <<0>> ELSE WritePackedUInt(value[1] + 1, low)

ReadPUInt(bs, p, low) ==
    LET r == GetPackedUInt(bs, p, low)
    IN [r EXCEPT !.value = IF @ = 0 THEN Null ELSE <<@ - 1>>]

\* writeBinaryArray, readBinary: a byte that is not zero stands for NULL.
WriteBinary(value) ==
    IF value = Null THEN <<1>>
    ELSE <<0>> \o WritePackedUInt(Len(value[1]), 64) \o value[1]

ReadBinary(bs, p) ==
    IF bs[p] # 0 THEN [value |-> Null, next |-> p + 1]
    ELSE LET r == GetPackedUInt(bs, p + 1, 64)
         IN [value |-> <<At(bs, r.next, r.value)>>, next |-> r.next + r.value]

-----------------------------------------------------------------------------
\* putInterval: the coarsest unit that divides the interval, when less than 64
\* of them make it; of the header it computes the scale and leaves it out.
INTERVAL_NULL == 0

WriteInterval(value) ==
    LET v == value[1]
        units == CASE v % 3600000 = 0 -> v \div 3600000
                   [] v % 3600000 # 0 /\ v % 60000 = 0 -> v \div 60000
                   [] v % 60000 # 0 /\ v % 1000 = 0 -> v \div 1000
                   [] OTHER -> 64
    IN IF value = Null THEN <<INTERVAL_NULL>>
       ELSE IF units < 64 THEN <<units>>
       ELSE <<3 * 64>> \o BE(v, 4)

\* getInterval.
ReadInterval(bs, p) ==
    LET unit == [s \in 0..2 |-> IF s = 0 THEN 1000 ELSE IF s = 1 THEN 60000 ELSE 3600000]
        scale == bs[p] \div 64
        v == IF scale = 3 THEN FromBE(At(bs, p + 1, 4)) ELSE (bs[p] % 64) * unit[scale]
    IN [value |-> IF v = INTERVAL_NULL THEN Null ELSE <<v>>,
        next |-> IF scale = 3 THEN p + 5 ELSE p + 1]

-----------------------------------------------------------------------------
\* Timestamps, as milliseconds from COMPRESSED_TIMESTAMP_BASE_MS.
MILLIS == 1
SECONDS == 2
TEN_SECONDS == 3
HOURS == 4
SPECIAL == 5

\* What one step of a scale is worth, and the bytes that follow the header.
Worth == [s \in {MILLIS, SECONDS, TEN_SECONDS, HOURS} |->
             CASE s = MILLIS -> 1 [] s = SECONDS -> 1000
               [] s = TEN_SECONDS -> 10000 [] OTHER -> 3600000]
compressed_timestamp_size ==
    [s \in MILLIS..SPECIAL |->
        CASE s = MILLIS -> 5 [] s = SECONDS -> 4 [] s = TEN_SECONDS -> 3
          [] s = HOURS -> 2 [] OTHER -> 0]

\* putCompressedMillisecondTime: the coarsest scale that loses nothing; a time
\* too big for its bytes is refused, not written finer.
ScaleOf(t) == IF t % 10000 = 0
              THEN IF t % 3600000 = 0 THEN HOURS ELSE TEN_SECONDS
              ELSE IF t % 1000 = 0 THEN SECONDS ELSE MILLIS

WriteTime(value) ==
    LET s == ScaleOf(value[1])
        q == (value[1] \div Worth[s])
    IN IF value = Null THEN <<SPECIAL * 32>>
       ELSE <<s * 32 + (q % 32)>> \o LE(q \div 32, compressed_timestamp_size[s])

\* getCompressedNanoTimeDividedBy.
ReadTime(bs, p) ==
    LET s == bs[p] \div 32
        n == compressed_timestamp_size[s]
    IN [value |-> IF s = SPECIAL THEN Null
                  ELSE <<(FromLE(At(bs, p + 1, n)) * 32 + (bs[p] % 32)) * Worth[s]>>,
        next |-> p + 1 + n]

-----------------------------------------------------------------------------
\* Bits of v, the highest of the n first; bits as bytes, the last one filled up.
Bits(v, n) == [i \in 1..n |-> (v \div 2^(n - i)) % 2]
FromBits(bits) == FoldLeft(LAMBDA x, b : x * 2 + b, 0, bits)
ToBytes(bits) ==
    LET n == (Len(bits) + 7) \div 8
        padded == bits \o [i \in 1..(8 * n - Len(bits)) |-> 0]
    IN [i \in 1..n |-> FromBits(SubSeq(padded, 8 * i - 7, 8 * i))]
ToBits(bs) == FlattenSeq([i \in 1..Len(bs) |-> Bits(bs[i], 8)])

\* putAlphanumeric: the length, or size + 1 for NULL, then six bits a character.
WriteAlphanumeric(size, value) ==
    LET k == NumBits(size + 1)
        str == value[1]
    IN IF value = Null THEN ToBytes(Bits(size + 1, k))
       ELSE ToBytes(Bits(Len(str), k)
                    \o FlattenSeq([i \in 1..Len(str) |-> Bits(str[i], 6)]))

\* getAlphanumeric.
ReadAlphanumeric(size, bs, p) ==
    LET k == NumBits(size + 1)
        header == (k + 7) \div 8
        len == FromBits(SubSeq(ToBits(At(bs, p, header)), 1, k))
        all == (k + 6 * len + 7) \div 8
        bits == ToBits(At(bs, p, all))
    IN IF len = size + 1 THEN [value |-> Null, next |-> p + header]
       ELSE [value |-> <<[i \in 1..len |-> FromBits(SubSeq(bits, k + 6 * i - 5, k + 6 * i))]>>,
             next |-> p + all]

-----------------------------------------------------------------------------
\* writeUTF8(wchar_t): one unit is one to three bytes, a pair of surrogates
\* four; the length is filled in afterwards.
IsHigh(c) == (c \div 1024) = 54
Pair(hi, lo) == hi * 1024 + (65536 - 55296 * 1024 - 56320) + lo
Tail6(c, shift) == 128 + ((c \div shift) % 64)

UnitUTF8(units, i) ==
    LET c == units[i]
        cc == Pair(c, units[i + 1])
    IN CASE c < 128 -> <<c>>
         [] c >= 128 /\ c < 2048 -> <<192 + ((c \div 64) % 32), Tail6(c, 1)>>
         [] IsHigh(c) -> <<240 + ((cc \div 262144) % 8), Tail6(cc, 4096),
                           Tail6(cc, 64), Tail6(cc, 1)>>
         [] i > 1 /\ IsHigh(units[i - 1]) -> <<>>
         [] OTHER -> <<224 + ((c \div 4096) % 16), Tail6(c, 64), Tail6(c, 1)>>

WriteUTF8(value) ==
    LET units == value[1]
        body == FlattenSeq([i \in 1..Len(units) |-> UnitUTF8(units, i)])
    IN IF value = Null THEN BE(65535, 2) ELSE BE(Len(body), 2) \o body

\* getUTF8.
ReadUTF8(bs, p) ==
    LET n == FromBE(At(bs, p, 2))
    IN IF n = 65535 THEN [value |-> Null, next |-> p + 2]
       ELSE [value |-> <<At(bs, p + 2, n)>>, next |-> p + 2 + n]

\* What UTF-16 and UTF-8 mean, apart from the code: the characters.
CharsOfUTF16(units) ==
    FlattenSeq([i \in 1..Len(units) |->
        CASE units[i] \in 55296..56319 ->
                <<65536 + (units[i] % 1024) * 1024 + (units[i + 1] % 1024)>>
          [] i > 1 /\ units[i] \in 56320..57343 -> <<>>
          [] OTHER -> <<units[i]>>])

CharsOfUTF8(bs) ==
    LET six(i) == bs[i] % 64
    IN FlattenSeq([i \in 1..Len(bs) |->
        CASE bs[i] < 128 -> <<bs[i]>>
          [] bs[i] \in 128..191 -> <<>>
          [] bs[i] \in 192..223 -> <<(bs[i] % 32) * 64 + six(i + 1)>>
          [] bs[i] \in 224..239 -> <<(bs[i] % 16) * 4096 + six(i + 1) * 64 + six(i + 2)>>
          [] OTHER -> <<(bs[i] % 8) * 262144 + six(i + 1) * 4096
                        + six(i + 2) * 64 + six(i + 3)>>])

-----------------------------------------------------------------------------
Write(f) == CASE f.kind = "puint30" -> WritePUInt(f.value, 64)
              [] f.kind = "puint61" -> WritePUInt(f.value, 32)
              [] f.kind = "binary" -> WriteBinary(f.value)
              [] f.kind = "interval" -> WriteInterval(f.value)
              [] f.kind = "time" -> WriteTime(f.value)
              [] f.kind = "alphanumeric" -> WriteAlphanumeric(f.size, f.value)
              [] f.kind = "text" -> WriteUTF8(f.value)

ReadField(f, bs, p) ==
    CASE f.kind = "puint30" -> ReadPUInt(bs, p, 64)
      [] f.kind = "puint61" -> ReadPUInt(bs, p, 32)
      [] f.kind = "binary" -> ReadBinary(bs, p)
      [] f.kind = "interval" -> ReadInterval(bs, p)
      [] f.kind = "time" -> ReadTime(bs, p)
      [] f.kind = "alphanumeric" -> ReadAlphanumeric(f.size, bs, p)
      [] f.kind = "text" -> ReadUTF8(bs, p)

\* The value read stands for the value written.
Means(f, value) ==
    IF f.kind = "text" /\ f.value # Null /\ value # Null
    THEN CharsOfUTF8(value[1]) = CharsOfUTF16(f.value[1])
    ELSE value = f.value
=============================================================================
