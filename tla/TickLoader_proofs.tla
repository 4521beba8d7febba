------------------------- MODULE TickLoader_proofs -------------------------
(***************************************************************************)
(* What TLC checks of TickLoader for three instruments and three messages, *)
(* proved for any instruments and any bounds: what is sent reads as what   *)
(* was written, and the loader implements LoaderPromise.                   *)
(***************************************************************************)
EXTENDS TickLoader, FiniteSetTheorems, SequenceTheorems, WellFoundedInduction, TLAPS

-----------------------------------------------------------------------------
(* Induction, from the order of the natural numbers being well founded.    *)

\* a set of numbers that is not empty has a least one
LEMMA LeastNatural ==
  ASSUME NEW T, T \subseteq Nat, T # {}
  PROVE  \E x \in T : \A y \in T : ~ (y < x)
<1>1. PICK x \in T : \A y \in T : ~ (<<y, x>> \in OpToRel(<, Nat))
  BY NatLessThanWellFounded, WFMin
<1>2. \A y \in T : y < x => <<y, x>> \in OpToRel(<, Nat)
  BY DEF OpToRel
<1> QED
  BY <1>1, <1>2

\* a set that has 0 and is closed under + 1 has every number
LEMMA InductionOnNat ==
  ASSUME NEW S, 0 \in S, \A n \in Nat : n \in S => n + 1 \in S
  PROVE  Nat \subseteq S
<1> SUFFICES ASSUME ~ (Nat \subseteq S) PROVE FALSE
  OBVIOUS
<1>1. PICK x \in Nat \ S : \A y \in Nat \ S : ~ (y < x)
  BY LeastNatural
<1>2. x # 0 /\ x - 1 \in Nat /\ x - 1 < x
  BY <1>1
<1>3. x - 1 \in S
  BY <1>1, <1>2
<1> QED
  BY <1>1, <1>2, <1>3

-----------------------------------------------------------------------------
(* The server's reader goes from token to token.                           *)

\* f is what the server knows after each of the first n tokens
ReadsUpTo(f, tokens, n) ==
    f = [i \in 0 .. n |-> IF i = 0 THEN ReadStart ELSE ReadToken(f[i - 1], tokens[i])]

\* there is a function that reads the tokens, one after the other
LEMMA ReadingExists ==
  ASSUME NEW tokens, NEW n \in Nat
  PROVE  \E f : ReadsUpTo(f, tokens, n)
<1> DEFINE S == {m \in Nat : \E f : ReadsUpTo(f, tokens, m)}
<1>1. 0 \in S
  <2>1. ReadsUpTo([i \in 0 .. 0 |-> ReadStart], tokens, 0)
    BY DEF ReadsUpTo
  <2> QED
    BY <2>1
<1>2. ASSUME NEW m \in Nat, m \in S PROVE m + 1 \in S
  <2>1. PICK f : ReadsUpTo(f, tokens, m)
    BY <1>2
  <2> DEFINE g == [i \in 0 .. m + 1 |->
                     IF i \in 0 .. m THEN f[i] ELSE ReadToken(f[m], tokens[m + 1])]
  <2>2. ASSUME NEW i \in 0 .. m + 1
        PROVE  g[i] = IF i = 0 THEN ReadStart ELSE ReadToken(g[i - 1], tokens[i])
    <3>1. CASE i \in 0 .. m
      <4>1. g[i] = f[i]
        BY <3>1
      <4>2. f[i] = IF i = 0 THEN ReadStart ELSE ReadToken(f[i - 1], tokens[i])
        BY <2>1, <3>1 DEF ReadsUpTo
      <4>3. i # 0 => i - 1 \in 0 .. m /\ i - 1 \in 0 .. m + 1
        BY <3>1
      <4>4. i # 0 => g[i - 1] = f[i - 1]
        BY <4>3
      <4> QED
        BY <4>1, <4>2, <4>4
    <3>2. CASE i = m + 1
      <4>1. i # 0 /\ i - 1 = m /\ m \in 0 .. m /\ m \in 0 .. m + 1 /\ ~(i \in 0 .. m)
        BY <3>2
      <4>2. g[i] = ReadToken(f[m], tokens[m + 1]) /\ g[m] = f[m]
        BY <4>1
      <4> QED
        BY <3>2, <4>1, <4>2
    <3> QED
      BY <3>1, <3>2
  <2> HIDE DEF g
  <2>3. g = [i \in 0 .. m + 1 |-> IF i = 0 THEN ReadStart ELSE ReadToken(g[i - 1], tokens[i])]
    <3>1. g = [i \in 0 .. m + 1 |-> g[i]]
      BY DEF g
    <3> QED
      BY <2>2, <3>1
  <2>4. ReadsUpTo(g, tokens, m + 1)
    BY <2>3 DEF ReadsUpTo
  <2> QED
    BY <2>4
<1> HIDE DEF S
<1>3. Nat \subseteq S
  BY <1>1, <1>2, InductionOnNat
<1> QED
  BY <1>3 DEF S

\* two readings agree as far as the tokens do
LEMMA ReadingsAgree ==
  ASSUME NEW s, NEW t, NEW m \in Nat, NEW n \in Nat, m <= n,
         \A i \in 1 .. m : s[i] = t[i],
         NEW f, ReadsUpTo(f, s, m), NEW g, ReadsUpTo(g, t, n)
  PROVE  f[m] = g[m]
<1> DEFINE S == {k \in Nat : k <= m => f[k] = g[k]}
<1>1. 0 \in S
  BY DEF ReadsUpTo
<1>2. ASSUME NEW k \in Nat, k \in S PROVE k + 1 \in S
  <2> SUFFICES ASSUME k + 1 <= m PROVE f[k + 1] = g[k + 1]
    OBVIOUS
  <2>1. k + 1 \in 0 .. m /\ k + 1 \in 0 .. n /\ k + 1 # 0 /\ (k + 1) - 1 = k /\ k + 1 \in 1 .. m
    OBVIOUS
  <2>2. f[k + 1] = ReadToken(f[k], s[k + 1])
    BY <2>1 DEF ReadsUpTo
  <2>3. g[k + 1] = ReadToken(g[k], t[k + 1])
    BY <2>1 DEF ReadsUpTo
  <2>4. f[k] = g[k] /\ s[k + 1] = t[k + 1]
    BY <1>2, <2>1
  <2> QED
    BY <2>2, <2>3, <2>4
<1> HIDE DEF S
<1>3. m \in S
  BY <1>1, <1>2, InductionOnNat
<1> QED
  BY <1>3 DEF S

\* ServerRead is the last value of such a function
LEMMA ServerReading ==
  ASSUME NEW tokens, Len(tokens) \in Nat
  PROVE  \E f : ReadsUpTo(f, tokens, Len(tokens)) /\ ServerRead(tokens) = f[Len(tokens)]
<1> DEFINE f == CHOOSE f : ReadsUpTo(f, tokens, Len(tokens))
<1>1. ReadsUpTo(f, tokens, Len(tokens))
  BY ReadingExists
<1>2. ServerRead(tokens) = f[Len(tokens)]
  BY DEF ServerRead, ReadsUpTo
<1> QED
  BY <1>1, <1>2

\* before it has read anything
LEMMA ServerReadsNothing == ServerRead(<<>>) = ReadStart
<1>1. Len(<<>>) = 0
  OBVIOUS
<1>2. PICK f : ReadsUpTo(f, <<>>, 0) /\ ServerRead(<<>>) = f[0]
  BY <1>1, ServerReading
<1> QED
  BY <1>2 DEF ReadsUpTo

\* one token more
LEMMA ServerReadsOn ==
  ASSUME NEW S, NEW tokens \in Seq(S), NEW t \in S
  PROVE  ServerRead(Append(tokens, t)) = ReadToken(ServerRead(tokens), t)
<1> DEFINE n == Len(tokens)
<1> DEFINE more == Append(tokens, t)
<1>1. n \in Nat /\ Len(more) = n + 1 /\ more[n + 1] = t /\ \A i \in 1 .. n : tokens[i] = more[i]
  BY AppendProperties
<1> HIDE DEF more, n
<1>2. PICK f : ReadsUpTo(f, tokens, n) /\ ServerRead(tokens) = f[n]
  BY <1>1, ServerReading DEF n
<1>3. PICK g : ReadsUpTo(g, more, n + 1) /\ ServerRead(more) = g[n + 1]
  BY <1>1, ServerReading
<1>4. f[n] = g[n]
  <2>1. n + 1 \in Nat /\ n <= n + 1
    BY <1>1
  <2> QED
    BY <1>1, <1>2, <1>3, <2>1, ReadingsAgree
<1>5. n + 1 \in 0 .. n + 1 /\ n + 1 # 0 /\ (n + 1) - 1 = n
  BY <1>1
<1>6. g[n + 1] = ReadToken(g[n], more[n + 1])
  BY <1>3, <1>5 DEF ReadsUpTo
<1> QED
  BY <1>1, <1>2, <1>3, <1>4, <1>6 DEF more
-----------------------------------------------------------------------------
(* So do the ids of the messages among tokens.                              *)

NextIds(ids, token) == IF token.tag = "message" THEN Append(ids, token.id) ELSE ids

\* f is the ids met after each of the first n tokens
IdsUpTo(f, tokens, n) ==
    f = [i \in 0 .. n |-> IF i = 0 THEN <<>> ELSE NextIds(f[i - 1], tokens[i])]

\* there is a function that collects the ids, token by token
LEMMA IdsExist ==
  ASSUME NEW tokens, NEW n \in Nat
  PROVE  \E f : IdsUpTo(f, tokens, n)
<1> DEFINE S == {m \in Nat : \E f : IdsUpTo(f, tokens, m)}
<1>1. 0 \in S
  <2>1. IdsUpTo([i \in 0 .. 0 |-> <<>>], tokens, 0)
    BY DEF IdsUpTo
  <2> QED
    BY <2>1
<1>2. ASSUME NEW m \in Nat, m \in S PROVE m + 1 \in S
  <2>1. PICK f : IdsUpTo(f, tokens, m)
    BY <1>2
  <2> DEFINE g == [i \in 0 .. m + 1 |->
                     IF i \in 0 .. m THEN f[i] ELSE NextIds(f[m], tokens[m + 1])]
  <2>2. ASSUME NEW i \in 0 .. m + 1
        PROVE  g[i] = IF i = 0 THEN <<>> ELSE NextIds(g[i - 1], tokens[i])
    <3>1. CASE i \in 0 .. m
      <4>1. g[i] = f[i]
        BY <3>1
      <4>2. f[i] = IF i = 0 THEN <<>> ELSE NextIds(f[i - 1], tokens[i])
        BY <2>1, <3>1 DEF IdsUpTo
      <4>3. i # 0 => i - 1 \in 0 .. m /\ i - 1 \in 0 .. m + 1
        BY <3>1
      <4>4. i # 0 => g[i - 1] = f[i - 1]
        BY <4>3
      <4> QED
        BY <4>1, <4>2, <4>4
    <3>2. CASE i = m + 1
      <4>1. i # 0 /\ i - 1 = m /\ m \in 0 .. m /\ m \in 0 .. m + 1 /\ ~(i \in 0 .. m)
        BY <3>2
      <4>2. g[i] = NextIds(f[m], tokens[m + 1]) /\ g[m] = f[m]
        BY <4>1
      <4> QED
        BY <3>2, <4>1, <4>2
    <3> QED
      BY <3>1, <3>2
  <2> HIDE DEF g
  <2>3. g = [i \in 0 .. m + 1 |-> IF i = 0 THEN <<>> ELSE NextIds(g[i - 1], tokens[i])]
    <3>1. g = [i \in 0 .. m + 1 |-> g[i]]
      BY DEF g
    <3> QED
      BY <2>2, <3>1
  <2>4. IdsUpTo(g, tokens, m + 1)
    BY <2>3 DEF IdsUpTo
  <2> QED
    BY <2>4
<1> HIDE DEF S
<1>3. Nat \subseteq S
  BY <1>1, <1>2, InductionOnNat
<1> QED
  BY <1>3 DEF S

\* they agree as far as the tokens do
LEMMA IdsAgree ==
  ASSUME NEW s, NEW t, NEW m \in Nat, NEW n \in Nat, m <= n,
         \A i \in 1 .. m : s[i] = t[i],
         NEW f, IdsUpTo(f, s, m), NEW g, IdsUpTo(g, t, n)
  PROVE  f[m] = g[m]
<1> DEFINE S == {k \in Nat : k <= m => f[k] = g[k]}
<1>1. 0 \in S
  BY DEF IdsUpTo
<1>2. ASSUME NEW k \in Nat, k \in S PROVE k + 1 \in S
  <2> SUFFICES ASSUME k + 1 <= m PROVE f[k + 1] = g[k + 1]
    OBVIOUS
  <2>1. k + 1 \in 0 .. m /\ k + 1 \in 0 .. n /\ k + 1 # 0 /\ (k + 1) - 1 = k /\ k + 1 \in 1 .. m
    OBVIOUS
  <2>2. f[k + 1] = NextIds(f[k], s[k + 1])
    BY <2>1 DEF IdsUpTo
  <2>3. g[k + 1] = NextIds(g[k], t[k + 1])
    BY <2>1 DEF IdsUpTo
  <2>4. f[k] = g[k] /\ s[k + 1] = t[k + 1]
    BY <1>2, <2>1
  <2> QED
    BY <2>2, <2>3, <2>4
<1> HIDE DEF S
<1>3. m \in S
  BY <1>1, <1>2, InductionOnNat
<1> QED
  BY <1>3 DEF S

\* MessagesOf is the last value of such a function
LEMMA IdsOfMessages ==
  ASSUME NEW tokens, Len(tokens) \in Nat
  PROVE  \E f : IdsUpTo(f, tokens, Len(tokens)) /\ MessagesOf(tokens) = f[Len(tokens)]
<1> DEFINE f == CHOOSE f : IdsUpTo(f, tokens, Len(tokens))
<1>1. IdsUpTo(f, tokens, Len(tokens))
  BY IdsExist
<1>2. MessagesOf(tokens) = f[Len(tokens)]
  BY DEF MessagesOf, IdsUpTo, NextIds
<1> QED
  BY <1>1, <1>2

\* of no tokens
LEMMA NoMessages == MessagesOf(<<>>) = <<>>
<1>1. Len(<<>>) = 0
  OBVIOUS
<1>2. PICK f : IdsUpTo(f, <<>>, 0) /\ MessagesOf(<<>>) = f[0]
  BY <1>1, IdsOfMessages
<1> QED
  BY <1>2 DEF IdsUpTo

\* one token more
LEMMA MoreMessages ==
  ASSUME NEW S, NEW tokens \in Seq(S), NEW t \in S
  PROVE  MessagesOf(Append(tokens, t)) = NextIds(MessagesOf(tokens), t)
<1> DEFINE n == Len(tokens)
<1> DEFINE more == Append(tokens, t)
<1>1. n \in Nat /\ Len(more) = n + 1 /\ more[n + 1] = t /\ \A i \in 1 .. n : tokens[i] = more[i]
  BY AppendProperties
<1> HIDE DEF more, n
<1>2. PICK f : IdsUpTo(f, tokens, n) /\ MessagesOf(tokens) = f[n]
  BY <1>1, IdsOfMessages DEF n
<1>3. PICK g : IdsUpTo(g, more, n + 1) /\ MessagesOf(more) = g[n + 1]
  BY <1>1, IdsOfMessages
<1>4. f[n] = g[n]
  <2>1. n + 1 \in Nat /\ n <= n + 1
    BY <1>1
  <2> QED
    BY <1>1, <1>2, <1>3, <2>1, IdsAgree
<1>5. n + 1 \in 0 .. n + 1 /\ n + 1 # 0 /\ (n + 1) - 1 = n
  BY <1>1
<1>6. g[n + 1] = NextIds(g[n], more[n + 1])
  BY <1>3, <1>5 DEF IdsUpTo
<1> QED
  BY <1>1, <1>2, <1>3, <1>4, <1>6 DEF more

-----------------------------------------------------------------------------
(* Prefixes and subsequences.                                              *)

\* what a prefix is, element by element
LEMMA PrefixIs ==
  ASSUME NEW S, NEW s \in Seq(S), NEW t \in Seq(S)
  PROVE  IsPrefix(s, t) <=> Len(s) <= Len(t) /\ \A i \in 1 .. Len(s) : s[i] = t[i]
<1>1. ASSUME Len(s) <= Len(t)
      PROVE  SubSeq(s, 1, Len(s)) = SubSeq(t, 1, Len(s)) <=> \A i \in 1 .. Len(s) : s[i] = t[i]
  <2>1. /\ SubSeq(s, 1, Len(s)) \in Seq(S) /\ SubSeq(t, 1, Len(s)) \in Seq(S)
        /\ Len(SubSeq(s, 1, Len(s))) = Len(s) /\ Len(SubSeq(t, 1, Len(s))) = Len(s)
    BY <1>1, SubSeqProperties
  <2>2. \A i \in 1 .. Len(s) : SubSeq(s, 1, Len(s))[i] = s[i] /\ SubSeq(t, 1, Len(s))[i] = t[i]
    BY <1>1, SubSeqProperties
  <2>3. ASSUME \A i \in 1 .. Len(s) : s[i] = t[i]
        PROVE  SubSeq(s, 1, Len(s)) = SubSeq(t, 1, Len(s))
    BY <2>1, <2>2, <2>3, SeqEqual
  <2> QED
    BY <2>2, <2>3
<1> QED
  BY <1>1 DEF IsPrefix

\* a sequence is a prefix of what is put after it
LEMMA PrefixOfConcat ==
  ASSUME NEW S, NEW s \in Seq(S), NEW t \in Seq(S)
  PROVE  s \o t \in Seq(S) /\ IsPrefix(s, s \o t)
<1>1. s \o t \in Seq(S) /\ Len(s) <= Len(s \o t) /\ \A i \in 1 .. Len(s) : s[i] = (s \o t)[i]
  BY ConcatProperties
<1> QED
  BY <1>1, PrefixIs

\* a prefix of a prefix is one
LEMMA PrefixTransitive ==
  ASSUME NEW S, NEW s \in Seq(S), NEW t \in Seq(S), NEW u \in Seq(S),
         IsPrefix(s, t), IsPrefix(t, u)
  PROVE  IsPrefix(s, u)
<1>1. Len(s) <= Len(t) /\ \A i \in 1 .. Len(s) : s[i] = t[i]
  BY PrefixIs
<1>2. Len(t) <= Len(u) /\ \A i \in 1 .. Len(t) : t[i] = u[i]
  BY PrefixIs
<1>3. Len(s) <= Len(u) /\ \A i \in 1 .. Len(s) : s[i] = u[i]
  BY <1>1, <1>2
<1> QED
  BY <1>3, PrefixIs

\* a sequence is a prefix of itself
LEMMA PrefixOfSelf ==
  ASSUME NEW S, NEW s \in Seq(S)
  PROVE  IsPrefix(s, s)
BY PrefixIs

\* ... and of what has one more element
LEMMA PrefixOfAppend ==
  ASSUME NEW S, NEW s \in Seq(S), NEW x \in S
  PROVE  IsPrefix(s, Append(s, x))
<1>1. /\ Append(s, x) \in Seq(S) /\ Len(s) <= Len(Append(s, x))
      /\ \A i \in 1 .. Len(s) : s[i] = Append(s, x)[i]
  BY AppendProperties
<1> QED
  BY <1>1, PrefixIs

\* a sequence is a subsequence of itself
LEMMA SubsequenceOfSelf ==
  ASSUME NEW S, NEW s \in Seq(S)
  PROVE  Promise!IsSubsequence(s, s)
<1> DEFINE f == [i \in DOMAIN s |-> i]
<1>1. f \in [DOMAIN s -> DOMAIN s] /\ \A i, j \in DOMAIN s : s[i] = s[f[i]] /\ (i < j => f[i] < f[j])
  OBVIOUS
<1> QED
  BY <1>1 DEF Promise!IsSubsequence

\* a prefix of a subsequence is a subsequence
LEMMA PrefixIsSubsequence ==
  ASSUME NEW S, NEW s \in Seq(S), NEW t \in Seq(S), NEW u \in Seq(S),
         IsPrefix(s, t), Promise!IsSubsequence(t, u)
  PROVE  Promise!IsSubsequence(s, u)
<1>1. PICK f \in [DOMAIN t -> DOMAIN u] :
        \A i, j \in DOMAIN t : t[i] = u[f[i]] /\ (i < j => f[i] < f[j])
  BY DEF Promise!IsSubsequence
<1>2. DOMAIN s \subseteq DOMAIN t /\ \A i \in DOMAIN s : s[i] = t[i]
  BY PrefixIs, LenProperties
<1> DEFINE g == [i \in DOMAIN s |-> f[i]]
<1>3. g \in [DOMAIN s -> DOMAIN u] /\ \A i, j \in DOMAIN s : s[i] = u[g[i]] /\ (i < j => g[i] < g[j])
  BY <1>1, <1>2
<1> QED
  BY <1>3 DEF Promise!IsSubsequence

\* one more element, the same in both, leaves a subsequence
LEMMA SubsequenceAppend ==
  ASSUME NEW S, NEW s \in Seq(S), NEW t \in Seq(S), NEW x \in S, Promise!IsSubsequence(s, t)
  PROVE  Promise!IsSubsequence(Append(s, x), Append(t, x))
<1> DEFINE a == Append(s, x)
<1> DEFINE b == Append(t, x)
<1>1. PICK f \in [DOMAIN s -> DOMAIN t] :
        \A i, j \in DOMAIN s : s[i] = t[f[i]] /\ (i < j => f[i] < f[j])
  BY DEF Promise!IsSubsequence
<1>2. /\ Len(s) \in Nat /\ DOMAIN s = 1 .. Len(s) /\ DOMAIN a = 1 .. Len(s) + 1
      /\ a[Len(s) + 1] = x /\ \A i \in 1 .. Len(s) : a[i] = s[i]
  BY AppendProperties
<1>3. /\ Len(t) \in Nat /\ DOMAIN t = 1 .. Len(t) /\ DOMAIN b = 1 .. Len(t) + 1
      /\ b[Len(t) + 1] = x /\ \A i \in 1 .. Len(t) : b[i] = t[i]
  BY AppendProperties
<1> HIDE DEF a, b
<1> DEFINE g == [i \in DOMAIN a |-> IF i = Len(s) + 1 THEN Len(t) + 1 ELSE f[i]]
<1>4. \A i \in DOMAIN s : f[i] \in 1 .. Len(t)
  BY <1>1, <1>3
<1>5. g \in [DOMAIN a -> DOMAIN b]
  BY <1>2, <1>3, <1>4
<1>6. ASSUME NEW i \in DOMAIN a PROVE a[i] = b[g[i]]
  BY <1>1, <1>2, <1>3, <1>4
<1>7. ASSUME NEW i \in DOMAIN a, NEW j \in DOMAIN a, i < j PROVE g[i] < g[j]
  <2>1. i \in DOMAIN s /\ g[i] = f[i]
    BY <1>2, <1>7
  <2>2. CASE j \in DOMAIN s
    BY <1>1, <1>2, <1>7, <2>1, <2>2
  <2>3. CASE j = Len(s) + 1
    BY <1>2, <1>4, <2>1, <2>3
  <2> QED
    BY <1>2, <2>2, <2>3
<1> HIDE DEF g
<1> QED
  BY <1>5, <1>6, <1>7 DEF Promise!IsSubsequence, a, b

-----------------------------------------------------------------------------
(* The messages among tokens grow with them.                               *)

\* a token adds at most its id
LEMMA OneIdMore ==
  ASSUME NEW ids \in Seq(Nat), NEW t, t.tag = "message" => t.id \in Nat
  PROVE  NextIds(ids, t) \in Seq(Nat) /\ IsPrefix(ids, NextIds(ids, t))
<1>1. CASE t.tag = "message"
  <2> DEFINE x == t.id
  <2>1. x \in Nat /\ NextIds(ids, t) = Append(ids, x)
    BY <1>1 DEF NextIds
  <2> HIDE DEF x
  <2>2. Append(ids, x) \in Seq(Nat) /\ IsPrefix(ids, Append(ids, x))
    BY <2>1, AppendProperties, PrefixOfAppend
  <2> QED
    BY <2>1, <2>2
<1>2. CASE t.tag # "message"
  BY <1>2, PrefixOfSelf DEF NextIds
<1> QED
  BY <1>1, <1>2

\* the ids of the tokens are a prefix of the ids of more tokens
LEMMA MessagesGrow ==
  ASSUME NEW T, \A t \in T : t.tag = "message" => t.id \in Nat,
         NEW s \in Seq(T), NEW u \in Seq(T)
  PROVE  /\ MessagesOf(s) \in Seq(Nat) /\ MessagesOf(s \o u) \in Seq(Nat)
         /\ IsPrefix(MessagesOf(s), MessagesOf(s \o u))
<1> DEFINE t == s \o u
<1> DEFINE upTo(k) == SubSeq(t, 1, k)
<1>1. /\ t \in Seq(T) /\ Len(s) \in Nat /\ Len(t) \in Nat /\ Len(s) \in 0 .. Len(t)
      /\ upTo(Len(s)) = s /\ upTo(Len(t)) = t
  <2>1. t \in Seq(T) /\ Len(s) \in Nat /\ Len(t) \in Nat /\ Len(s) \in 0 .. Len(t)
    BY ConcatProperties
  <2>2. upTo(Len(t)) = t
    BY <2>1, SubSeqFull
  <2>3. upTo(Len(s)) = s
    <3>1. \A i \in 1 .. Len(s) : t[i] = s[i] /\ s[i] \in T
      BY ConcatProperties
    <3> HIDE DEF t
    <3>2. /\ upTo(Len(s)) \in Seq(T) /\ Len(upTo(Len(s))) = Len(s)
          /\ \A i \in 1 .. Len(s) : upTo(Len(s))[i] = s[i]
      BY <2>1, <3>1, SubSeqProperties
    <3> QED
      BY <3>2, SeqEqual
  <2> QED
    BY <2>1, <2>2, <2>3
<1> HIDE DEF t
<1> DEFINE S == {k \in Nat : k <= Len(t) =>
                   \A j \in 0 .. k :
                     /\ MessagesOf(upTo(j)) \in Seq(Nat)
                     /\ IsPrefix(MessagesOf(upTo(j)), MessagesOf(upTo(k)))}
<1>2. 0 \in S
  <2>1. upTo(0) = <<>>
    BY SubSeqEmpty
  <2> HIDE DEF upTo
  <2>2. MessagesOf(upTo(0)) = <<>> /\ <<>> \in Seq(Nat)
    BY <2>1, NoMessages
  <2>3. IsPrefix(MessagesOf(upTo(0)), MessagesOf(upTo(0)))
    BY <2>2, PrefixOfSelf
  <2>4. \A j \in 0 .. 0 : j = 0
    OBVIOUS
  <2> QED
    BY <2>2, <2>3, <2>4
<1>3. ASSUME NEW k \in Nat, k \in S PROVE k + 1 \in S
  <2> SUFFICES ASSUME k + 1 <= Len(t), NEW j \in 0 .. k + 1
               PROVE  /\ MessagesOf(upTo(j)) \in Seq(Nat)
                      /\ IsPrefix(MessagesOf(upTo(j)), MessagesOf(upTo(k + 1)))
    OBVIOUS
  <2>1. \A i \in 0 .. k : /\ MessagesOf(upTo(i)) \in Seq(Nat)
                          /\ IsPrefix(MessagesOf(upTo(i)), MessagesOf(upTo(k)))
    BY <1>1, <1>3
  <2>2. t[k + 1] \in T /\ upTo(k) \in Seq(T) /\ upTo(k + 1) = Append(upTo(k), t[k + 1])
    <3>1. \A i \in 1 .. k + 1 : t[i] \in T
      BY <1>1, ElementOfSeq
    <3>2. /\ upTo(k) \in Seq(T) /\ Len(upTo(k)) = k
          /\ \A i \in 1 .. k : upTo(k)[i] = t[i]
      BY <3>1, SubSeqProperties
    <3>3. /\ upTo(k + 1) \in Seq(T) /\ Len(upTo(k + 1)) = k + 1
          /\ \A i \in 1 .. k + 1 : upTo(k + 1)[i] = t[i]
      BY <3>1, SubSeqProperties
    <3> HIDE DEF upTo
    <3>4. /\ Append(upTo(k), t[k + 1]) \in Seq(T) /\ Len(Append(upTo(k), t[k + 1])) = k + 1
          /\ \A i \in 1 .. k + 1 : Append(upTo(k), t[k + 1])[i] = t[i]
      BY <3>1, <3>2
    <3> QED
      BY <3>1, <3>2, <3>3, <3>4, SeqEqual
  <2> HIDE DEF upTo
  <2>3. MessagesOf(upTo(k + 1)) = NextIds(MessagesOf(upTo(k)), t[k + 1])
    BY <2>2, MoreMessages
  <2>4. MessagesOf(upTo(k)) \in Seq(Nat) /\ k \in 0 .. k
    BY <2>1
  <2>5. /\ MessagesOf(upTo(k + 1)) \in Seq(Nat)
        /\ IsPrefix(MessagesOf(upTo(k)), MessagesOf(upTo(k + 1)))
    BY <2>2, <2>3, <2>4, OneIdMore
  <2>6. CASE j \in 0 .. k
    <3>1. MessagesOf(upTo(j)) \in Seq(Nat) /\ IsPrefix(MessagesOf(upTo(j)), MessagesOf(upTo(k)))
      BY <2>1, <2>6
    <3> QED
      BY <2>4, <2>5, <3>1, PrefixTransitive
  <2>7. CASE j = k + 1
    BY <2>5, <2>7, PrefixOfSelf
  <2> QED
    BY <2>6, <2>7
<1> HIDE DEF S
<1>4. Len(t) \in S
  BY <1>1, <1>2, <1>3, InductionOnNat
<1> HIDE DEF upTo
<1>5. \A j \in 0 .. Len(t) : /\ MessagesOf(upTo(j)) \in Seq(Nat)
                             /\ IsPrefix(MessagesOf(upTo(j)), MessagesOf(upTo(Len(t))))
  BY <1>1, <1>4 DEF S
<1>6. /\ MessagesOf(upTo(Len(s))) \in Seq(Nat)
      /\ IsPrefix(MessagesOf(upTo(Len(s))), MessagesOf(upTo(Len(t))))
  BY <1>1, <1>5
<1>7. MessagesOf(upTo(Len(t))) \in Seq(Nat)
  <2>1. Len(t) \in 0 .. Len(t)
    BY <1>1
  <2> QED
    BY <1>5, <2>1
<1>8. MessagesOf(s) \in Seq(Nat) /\ MessagesOf(t) \in Seq(Nat) /\ IsPrefix(MessagesOf(s), MessagesOf(t))
  BY <1>1, <1>6, <1>7
<1> QED
  BY <1>8 DEF t

-----------------------------------------------------------------------------
(* The inductive invariant.  The first part is of a writer, in the middle  *)
(* of a call too; `names` are the instruments the server knows once it has *)
(* read all that is sent and buffered.                                     *)

States == {"not_in_block", "start", "body", "finished"}
Tokens ==
    [tag : {"block", "block_end", "terminator"}]
    \cup [tag : {"instrument"}, symbol : Symbols]
    \cup [tag : {"message"}, id : Nat, entity : Nat, whole : BOOLEAN]
Messages ==
    [id : Nat, entity : Nat, symbol : Symbols \cup {""}, whole : BOOLEAN, nested : BOOLEAN]
EndedMessages == [id : Nat, symbol : Symbols \cup {""}]
Writers ==
    [state : States, open : Messages, buf : Seq(Tokens), table : Seq(Symbols),
     sent : Seq(Tokens), begun : Nat, ended : Seq(EndedMessages),
     thrown : BOOLEAN, cut : BOOLEAN]

wire(v) == v.sent \o v.buf

\* no symbol has two ids
TableInv(table) == IsFiniteSet(Range(table)) /\ Len(table) = Cardinality(Range(table))

WriterInv(v) ==
    /\ v \in Writers /\ TableInv(v.table)
    /\ v.open.id <= v.begun /\ v.begun <= MaxMessages
    /\ IF v.state = "body" THEN v.open.id # 0 ELSE v.open = NoMessage

\* what is not lost is in order, and nothing is lost while the writer may go on
KeptInv(v) ==
    /\ Promise!IsSubsequence(MessagesOf(wire(v)), IdsOf(v.ended))
    /\ interruption = "working" \/ ~broken => MessagesOf(wire(v)) = IdsOf(v.ended)

PlaceOf(state) ==
    CASE state = "not_in_block"      -> "between"
      [] state \in {"start", "body"} -> "inside"
      [] state = "finished"          -> "end"

ReadInv(v, names) ==
    ~broken /\ ~v.cut =>
        /\ ServerRead(wire(v)) =
             [place |-> PlaceOf(v.state), names |-> names, messages |-> v.ended]
        /\ v.state = "body" => /\ v.open.whole
                               /\ v.open.entity + 1 \in DOMAIN names
                               /\ names[v.open.entity + 1] = v.open.symbol

Sound(v, names) ==
    names \in Seq(Symbols) /\ WriterInv(v) /\ KeptInv(v) /\ ReadInv(v, names)

\* between calls the server knows the whole table, unless the writer is stopped
AgreedInv(v, names) ==
    ~broken /\ ~v.cut /\ interruption = "working" => names = v.table

FlagsInv ==
    /\ interruption \in NotInterrupted \cup {"over"}
    /\ up \in BOOLEAN /\ finishing \in BOOLEAN /\ broken \in BOOLEAN
    /\ interruption = "over" \/ ~up => broken
    /\ finishing \/ ~isWriting => interruption # "working"
    /\ ~isWriting => ~finishing
    /\ ~isWriting /\ ~broken => w.buf = <<>>

LoaderInv ==
    /\ FlagsInv /\ ~w.thrown
    /\ \E names \in Seq(Symbols) : Sound(w, names) /\ AgreedInv(w, names)

-----------------------------------------------------------------------------
(* The steps of a call.                                                    *)

Grows(v, u) ==
    IsPrefix(v.sent, u.sent) /\ IsPrefix(v.ended, u.ended) /\ (v.cut => u.cut)

\* growth after growth is growth
LEMMA GrowsOn ==
  ASSUME NEW v \in Writers, NEW u \in Writers, NEW x \in Writers, Grows(v, u), Grows(u, x)
  PROVE  Grows(v, x)
<1>1. /\ v.sent \in Seq(Tokens) /\ u.sent \in Seq(Tokens) /\ x.sent \in Seq(Tokens)
      /\ v.ended \in Seq(EndedMessages) /\ u.ended \in Seq(EndedMessages)
      /\ x.ended \in Seq(EndedMessages)
  BY DEF Writers
<1>2. IsPrefix(v.sent, x.sent)
  BY <1>1, PrefixTransitive DEF Grows
<1>3. IsPrefix(v.ended, x.ended)
  BY <1>1, PrefixTransitive DEF Grows
<1> QED
  BY <1>2, <1>3 DEF Grows

\* a step that leaves what was sent and ended alone is growth, too
LEMMA GrowsNot ==
  ASSUME NEW v \in Writers, NEW u \in Writers, u.sent = v.sent, u.ended = v.ended, v.cut => u.cut
  PROVE  Grows(v, u)
<1>1. v.sent \in Seq(Tokens) /\ v.ended \in Seq(EndedMessages)
  BY DEF Writers
<1> QED
  BY <1>1, PrefixOfSelf DEF Grows

\* the tokens of messages have ids
LEMMA TokenIds == \A t \in Tokens : t.tag = "message" => t.id \in Nat
BY DEF Tokens

\* what was sent is a prefix of what is sent and buffered, and so are its ids
LEMMA WireOfWriter ==
  ASSUME NEW v \in Writers
  PROVE  /\ v.sent \in Seq(Tokens) /\ v.buf \in Seq(Tokens) /\ wire(v) \in Seq(Tokens)
         /\ MessagesOf(v.sent) \in Seq(Nat) /\ MessagesOf(wire(v)) \in Seq(Nat)
         /\ IsPrefix(MessagesOf(v.sent), MessagesOf(wire(v)))
<1>1. v.sent \in Seq(Tokens) /\ v.buf \in Seq(Tokens)
  BY DEF Writers
<1>2. wire(v) \in Seq(Tokens)
  BY <1>1, ConcatProperties DEF wire
<1>3. /\ MessagesOf(v.sent) \in Seq(Nat) /\ MessagesOf(wire(v)) \in Seq(Nat)
      /\ IsPrefix(MessagesOf(v.sent), MessagesOf(wire(v)))
  BY <1>1, TokenIds, MessagesGrow DEF wire
<1> QED
  BY <1>1, <1>2, <1>3

\* the ids of the messages that were ended, one by one
LEMMA IdsOfEnded ==
  ASSUME NEW e \in Seq(EndedMessages)
  PROVE  /\ IdsOf(e) \in Seq(Nat) /\ Len(IdsOf(e)) = Len(e)
         /\ \A i \in 1 .. Len(e) : IdsOf(e)[i] = e[i].id
<1>1. DOMAIN e = 1 .. Len(e) /\ Len(e) \in Nat /\ \A i \in 1 .. Len(e) : e[i] \in EndedMessages
  BY LenProperties, ElementOfSeq
<1>2. \A i \in 1 .. Len(e) : e[i].id \in Nat
  BY <1>1 DEF EndedMessages
<1> QED
  BY <1>1, <1>2 DEF IdsOf

\* ... and with one more message
LEMMA IdsOfAppend ==
  ASSUME NEW e \in Seq(EndedMessages), NEW m \in EndedMessages
  PROVE  IdsOf(Append(e, m)) = Append(IdsOf(e), m.id)
<1> DEFINE a == Append(e, m)
<1>1. a \in Seq(EndedMessages) /\ Len(a) = Len(e) + 1 /\ a[Len(e) + 1] = m
      /\ \A i \in 1 .. Len(e) : a[i] = e[i]
  BY AppendProperties
<1> HIDE DEF a
<1> DEFINE x == m.id
<1>2. x \in Nat
  BY DEF EndedMessages
<1>3. /\ IdsOf(e) \in Seq(Nat) /\ Len(IdsOf(e)) = Len(e)
      /\ \A i \in 1 .. Len(e) : IdsOf(e)[i] = e[i].id
  BY IdsOfEnded
<1>4. /\ IdsOf(a) \in Seq(Nat) /\ Len(IdsOf(a)) = Len(a)
      /\ \A i \in 1 .. Len(a) : IdsOf(a)[i] = a[i].id
  BY <1>1, IdsOfEnded
<1>5. a[Len(e) + 1].id = x
  BY <1>1
<1> HIDE DEF x
<1>6. /\ Append(IdsOf(e), x) \in Seq(Nat) /\ Len(Append(IdsOf(e), x)) = Len(e) + 1
      /\ Append(IdsOf(e), x)[Len(e) + 1] = x
      /\ \A i \in 1 .. Len(e) : Append(IdsOf(e), x)[i] = IdsOf(e)[i]
  BY <1>2, <1>3, AppendProperties
<1>7. Len(e) \in Nat
  BY LenProperties
<1>8. \A i \in 1 .. Len(e) + 1 : IdsOf(a)[i] = Append(IdsOf(e), x)[i]
  <2> TAKE i \in 1 .. Len(e) + 1
  <2>1. CASE i \in 1 .. Len(e)
    BY <1>1, <1>3, <1>4, <1>6, <2>1
  <2>2. CASE i = Len(e) + 1
    BY <1>1, <1>4, <1>5, <1>6, <1>7, <2>2
  <2>3. i \in 1 .. Len(e) \/ i = Len(e) + 1
    BY <1>7
  <2> QED
    BY <2>1, <2>2, <2>3
<1>9. IdsOf(a) = Append(IdsOf(e), x)
  BY <1>1, <1>4, <1>6, <1>8, SeqEqual
<1> QED
  BY <1>9 DEF a, x

\* a token put after the buffer is put after all that was sent, too
LEMMA AppendOfConcat ==
  ASSUME NEW S, NEW a \in Seq(S), NEW b \in Seq(S), NEW x \in S
  PROVE  a \o Append(b, x) = Append(a \o b, x)
<1>1. <<x>> \in Seq(S) /\ a \o b \in Seq(S)
  BY ConcatProperties
<1>2. Append(b, x) = b \o <<x>> /\ Append(a \o b, x) = (a \o b) \o <<x>>
  BY <1>1, AppendIsConcat
<1>3. (a \o b) \o <<x>> = a \o (b \o <<x>>)
  BY <1>1, ConcatAssociative
<1> QED
  BY <1>2, <1>3

\* a token more in the buffer
LEMMA PutToken ==
  ASSUME NEW v \in Writers, NEW t \in Tokens
  PROVE  /\ Put(v, t) \in Writers /\ Put(v, t).buf = Append(v.buf, t)
         /\ Put(v, t).state = v.state /\ Put(v, t).open = v.open
         /\ Put(v, t).table = v.table /\ Put(v, t).sent = v.sent
         /\ Put(v, t).begun = v.begun /\ Put(v, t).ended = v.ended
         /\ Put(v, t).thrown = v.thrown /\ Put(v, t).cut = v.cut
         /\ wire(Put(v, t)) = Append(wire(v), t)
<1>1. v.sent \in Seq(Tokens) /\ v.buf \in Seq(Tokens) /\ Append(v.buf, t) \in Seq(Tokens)
  BY AppendProperties DEF Writers
<1>2. /\ Put(v, t) \in Writers /\ Put(v, t).buf = Append(v.buf, t)
      /\ Put(v, t).state = v.state /\ Put(v, t).open = v.open
      /\ Put(v, t).table = v.table /\ Put(v, t).sent = v.sent
      /\ Put(v, t).begun = v.begun /\ Put(v, t).ended = v.ended
      /\ Put(v, t).thrown = v.thrown /\ Put(v, t).cut = v.cut
  BY <1>1 DEF Put, Writers
<1>3. v.sent \o Append(v.buf, t) = Append(v.sent \o v.buf, t)
  <2> DEFINE a == v.sent
  <2> DEFINE b == v.buf
  <2>1. a \in Seq(Tokens) /\ b \in Seq(Tokens)
    BY <1>1
  <2> HIDE DEF a, b
  <2>2. a \o Append(b, t) = Append(a \o b, t)
    BY <2>1, AppendOfConcat
  <2> QED
    BY <2>2 DEF a, b
<1> QED
  BY <1>2, <1>3 DEF wire

\* what is on the wire is read on by the token that follows
LEMMA WireGrows ==
  ASSUME NEW v \in Writers, NEW t \in Tokens
  PROVE  /\ ServerRead(Append(wire(v), t)) = ReadToken(ServerRead(wire(v)), t)
         /\ MessagesOf(Append(wire(v), t)) = NextIds(MessagesOf(wire(v)), t)
<1>1. wire(v) \in Seq(Tokens)
  BY WireOfWriter
<1> QED
  BY <1>1, ServerReadsOn, MoreMessages

\* a token that is no message
LEMMA PutMarker ==
  ASSUME NEW v \in Writers, NEW t \in Tokens, t.tag # "message", KeptInv(v)
  PROVE  KeptInv(Put(v, t)) /\ Grows(v, Put(v, t))
<1>1. /\ Put(v, t) \in Writers /\ Put(v, t).sent = v.sent /\ Put(v, t).ended = v.ended
      /\ Put(v, t).cut = v.cut /\ wire(Put(v, t)) = Append(wire(v), t)
  BY PutToken
<1>2. MessagesOf(wire(Put(v, t))) = MessagesOf(wire(v))
  BY <1>1, WireGrows DEF NextIds
<1>3. KeptInv(Put(v, t))
  BY <1>1, <1>2 DEF KeptInv
<1> QED
  BY <1>1, <1>3, GrowsNot

\* an exception, and a flag of history, change nothing that counts
LEMMA ThrowKeeps ==
  ASSUME NEW names, NEW v, Sound(v, names)
  PROVE  /\ Sound(Throw(v), names) /\ Sound([Throw(v) EXCEPT !.cut = TRUE], names)
         /\ Grows(v, Throw(v)) /\ Grows(v, [Throw(v) EXCEPT !.cut = TRUE])
<1> DEFINE c == [Throw(v) EXCEPT !.cut = TRUE]
<1>1. v \in Writers
  BY DEF Sound, WriterInv
<1>2. /\ Throw(v) \in Writers /\ Throw(v).state = v.state /\ Throw(v).open = v.open
      /\ Throw(v).table = v.table /\ Throw(v).sent = v.sent /\ Throw(v).buf = v.buf
      /\ Throw(v).begun = v.begun /\ Throw(v).ended = v.ended /\ Throw(v).cut = v.cut
  BY <1>1 DEF Writers, Throw
<1>3. /\ c \in Writers /\ c.state = v.state /\ c.open = v.open
      /\ c.table = v.table /\ c.sent = v.sent /\ c.buf = v.buf
      /\ c.begun = v.begun /\ c.ended = v.ended /\ c.cut
  BY <1>1 DEF Writers, Throw
<1> HIDE DEF c
<1>4. Sound(Throw(v), names)
  BY <1>2 DEF Sound, WriterInv, KeptInv, ReadInv, wire
<1>5. Sound(c, names)
  BY <1>3 DEF Sound, WriterInv, KeptInv, ReadInv, wire
<1>6. Grows(v, Throw(v)) /\ Grows(v, c)
  BY <1>1, <1>2, <1>3, GrowsNot
<1> QED
  BY <1>4, <1>5, <1>6 DEF c

\* the buffer is sent, or dropped when the server has ended the upload
LEMMA FlushKeeps ==
  ASSUME NEW names, NEW v, Sound(v, names), FlagsInv
  PROVE  /\ Sound(Flush(v), names) /\ Grows(v, Flush(v))
         /\ Flush(v).state = v.state /\ Flush(v).open = v.open /\ Flush(v).table = v.table
         /\ Flush(v).begun = v.begun /\ Flush(v).ended = v.ended /\ Flush(v).cut = v.cut
         /\ ~broken => Flush(v).thrown = v.thrown /\ Flush(v).buf = <<>>
<1>1. v \in Writers /\ <<>> \in Seq(Tokens)
  BY DEF Sound, WriterInv
<1>2. /\ v.sent \in Seq(Tokens) /\ v.buf \in Seq(Tokens) /\ wire(v) \in Seq(Tokens)
      /\ MessagesOf(v.sent) \in Seq(Nat) /\ MessagesOf(wire(v)) \in Seq(Nat)
      /\ IsPrefix(MessagesOf(v.sent), MessagesOf(wire(v)))
  BY <1>1, WireOfWriter
<1>3. CASE interruption \notin NotInterrupted
  <2> DEFINE f == [v EXCEPT !.buf = <<>>]
  <2>1. Flush(v) = f /\ broken /\ interruption # "working"
    BY <1>3 DEF Flush, FlagsInv, NotInterrupted
  <2>2. /\ f \in Writers /\ f.state = v.state /\ f.open = v.open /\ f.table = v.table
        /\ f.sent = v.sent /\ f.buf = <<>> /\ f.begun = v.begun /\ f.ended = v.ended
        /\ f.thrown = v.thrown /\ f.cut = v.cut
    BY <1>1 DEF Writers
  <2> HIDE DEF f
  <2>3. wire(f) = v.sent
    BY <1>2, <2>2, ConcatEmptySeq DEF wire
  <2>4. IdsOf(v.ended) \in Seq(Nat)
    BY <1>1, IdsOfEnded DEF Writers
  <2>5. Promise!IsSubsequence(MessagesOf(wire(v)), IdsOf(v.ended))
    BY DEF Sound, KeptInv
  <2>6. Promise!IsSubsequence(MessagesOf(v.sent), IdsOf(v.ended))
    BY <1>2, <2>4, <2>5, PrefixIsSubsequence
  <2>7. Sound(f, names)
    BY <2>1, <2>2, <2>3, <2>6 DEF Sound, WriterInv, KeptInv, ReadInv
  <2> QED
    BY <1>1, <2>1, <2>2, <2>7, GrowsNot
<1>4. CASE interruption \in NotInterrupted /\ up
  <2> DEFINE f == [v EXCEPT !.sent = @ \o v.buf, !.buf = <<>>]
  <2>1. Flush(v) = f
    BY <1>4 DEF Flush
  <2>2. /\ f \in Writers /\ f.state = v.state /\ f.open = v.open /\ f.table = v.table
        /\ f.sent = wire(v) /\ f.buf = <<>> /\ f.begun = v.begun /\ f.ended = v.ended
        /\ f.thrown = v.thrown /\ f.cut = v.cut
    BY <1>1, <1>2 DEF Writers, wire
  <2> HIDE DEF f
  <2>3. wire(f) = wire(v)
    <3>1. wire(f) = wire(v) \o <<>>
      BY <2>2 DEF wire
    <3> QED
      BY <1>2, <3>1, ConcatEmptySeq
  <2>4. Sound(f, names)
    BY <2>2, <2>3 DEF Sound, WriterInv, KeptInv, ReadInv
  <2>5. IsPrefix(v.sent, wire(v))
    BY <1>2, PrefixOfConcat DEF wire
  <2>6. IsPrefix(v.ended, v.ended)
    BY <1>1, PrefixOfSelf DEF Writers
  <2> QED
    BY <2>1, <2>2, <2>4, <2>5, <2>6 DEF Grows
<1>5. CASE interruption \in NotInterrupted /\ ~up
  <2>1. Flush(v) = Throw(v) /\ broken
    BY <1>5 DEF Flush, FlagsInv
  <2>2. /\ Throw(v).state = v.state /\ Throw(v).open = v.open /\ Throw(v).table = v.table
        /\ Throw(v).begun = v.begun /\ Throw(v).ended = v.ended /\ Throw(v).cut = v.cut
    BY <1>1 DEF Throw, Writers
  <2> QED
    BY <2>1, <2>2, ThrowKeeps
<1> QED
  BY <1>3, <1>4, <1>5

\* the message that is open goes to the buffer; one that is nested does not
LEMMA EndMessageKeeps ==
  ASSUME NEW names, NEW v, Sound(v, names), FlagsInv, v.state = "body", ~v.thrown
  PROVE  LET e == endMessage(v) IN
         /\ Sound(e, names) /\ Grows(v, e)
         /\ e.table = v.table /\ e.begun = v.begun
         /\ e.state = IF e.thrown THEN "body" ELSE "start"
         /\ e.thrown => e.cut \/ broken
<1> DEFINE t == MessageToken(v.open)
<1> DEFINE m == [id |-> v.open.id, symbol |-> v.open.symbol]
<1> DEFINE p == Put(v, t)
<1> DEFINE full == [p EXCEPT !.ended = Append(@, m)]
<1>1. v \in Writers /\ v.open \in Messages /\ v.ended \in Seq(EndedMessages)
  BY DEF Sound, WriterInv, Writers
<1>2. t \in Tokens /\ m \in EndedMessages /\ t.tag = "message" /\ t.id = v.open.id
      /\ t.entity = v.open.entity /\ t.whole = v.open.whole
      /\ m.id = v.open.id /\ m.symbol = v.open.symbol
  BY <1>1 DEF Tokens, Messages, EndedMessages, MessageToken
<1> HIDE DEF t, m
<1>3. /\ p \in Writers /\ p.buf = Append(v.buf, t)
      /\ p.state = v.state /\ p.open = v.open /\ p.table = v.table /\ p.sent = v.sent
      /\ p.begun = v.begun /\ p.ended = v.ended /\ p.thrown = v.thrown /\ p.cut = v.cut
      /\ wire(p) = Append(wire(v), t)
  BY <1>1, <1>2, PutToken
<1>4. Append(v.ended, m) \in Seq(EndedMessages) /\ IsPrefix(v.ended, Append(v.ended, m))
  BY <1>1, <1>2, AppendProperties, PrefixOfAppend
<1> HIDE DEF p
<1>5. /\ full \in Writers /\ full.buf = p.buf
      /\ full.state = v.state /\ full.open = v.open /\ full.table = v.table
      /\ full.sent = v.sent /\ full.begun = v.begun /\ full.ended = Append(v.ended, m)
      /\ full.thrown = v.thrown /\ full.cut = v.cut
  BY <1>1, <1>3, <1>4 DEF Writers
<1> HIDE DEF full
<1>6. wire(full) = Append(wire(v), t)
  BY <1>3, <1>5 DEF wire
<1>7. KeptInv(full)
  <2>1. MessagesOf(wire(full)) = Append(MessagesOf(wire(v)), v.open.id)
    BY <1>1, <1>2, <1>6, WireGrows DEF NextIds
  <2>2. IdsOf(full.ended) = Append(IdsOf(v.ended), v.open.id)
    BY <1>1, <1>2, <1>5, IdsOfAppend
  <2>3. MessagesOf(wire(v)) \in Seq(Nat) /\ IdsOf(v.ended) \in Seq(Nat) /\ v.open.id \in Nat
    BY <1>1, WireOfWriter, IdsOfEnded DEF Messages
  <2>4. KeptInv(v)
    BY DEF Sound
  <2>5. Promise!IsSubsequence(MessagesOf(wire(full)), IdsOf(full.ended))
    BY <2>1, <2>2, <2>3, <2>4, SubsequenceAppend DEF KeptInv
  <2> QED
    BY <2>1, <2>2, <2>4, <2>5 DEF KeptInv
<1>8. ReadInv(full, names)
  <2> SUFFICES ASSUME ~broken, ~v.cut
               PROVE  /\ ServerRead(wire(full)) =
                           [place |-> PlaceOf(full.state), names |-> names,
                            messages |-> full.ended]
                      /\ full.open.whole
                      /\ full.open.entity + 1 \in DOMAIN names
                      /\ names[full.open.entity + 1] = full.open.symbol
    BY <1>5 DEF ReadInv
  <2>1. /\ ServerRead(wire(v)) = [place |-> "inside", names |-> names, messages |-> v.ended]
        /\ v.open.whole /\ v.open.entity + 1 \in DOMAIN names
        /\ names[v.open.entity + 1] = v.open.symbol
    BY DEF Sound, ReadInv, PlaceOf
  <2> DEFINE r == [place |-> "inside", names |-> names, messages |-> v.ended]
  <2>2. ServerRead(wire(full)) = ReadToken(r, t)
    BY <1>1, <1>2, <1>6, <2>1, WireGrows
  <2>3. ReadToken(r, t) = [r EXCEPT !.messages =
                             Append(@, [id |-> t.id, symbol |-> r.names[t.entity + 1]])]
    BY <1>2, <2>1 DEF ReadToken
  <2>4. [id |-> t.id, symbol |-> r.names[t.entity + 1]] = m
    BY <1>2, <2>1 DEF m
  <2>5. ReadToken(r, t) = [place |-> "inside", names |-> names, messages |-> full.ended]
    BY <1>5, <2>3, <2>4
  <2> QED
    BY <1>5, <2>1, <2>2, <2>5 DEF PlaceOf
<1>9. Sound(full, names)
  BY <1>5, <1>7, <1>8 DEF Sound, WriterInv
<1>10. Grows(v, full)
  BY <1>1, <1>4, <1>5, PrefixOfSelf DEF Grows, Writers
<1> DEFINE tested == IF Len(full.buf) >= MinChunk THEN Flush(full) ELSE full
<1>11. /\ Sound(tested, names) /\ Grows(full, tested)
       /\ tested.state = "body" /\ tested.open = v.open /\ tested.table = v.table
       /\ tested.begun = v.begun /\ tested.ended = full.ended /\ tested.cut = v.cut
       /\ ~broken => ~tested.thrown
  <2>1. full \in Writers /\ ~full.thrown
    BY <1>5
  <2>2. CASE Len(full.buf) >= MinChunk
    <3>1. tested = Flush(full)
      BY <2>2 DEF tested
    <3>2. /\ Sound(Flush(full), names) /\ Grows(full, Flush(full))
          /\ Flush(full).state = full.state /\ Flush(full).open = full.open
          /\ Flush(full).table = full.table /\ Flush(full).begun = full.begun
          /\ Flush(full).ended = full.ended /\ Flush(full).cut = full.cut
          /\ ~broken => Flush(full).thrown = full.thrown
      BY <1>9, FlushKeeps
    <3> QED
      BY <1>5, <2>1, <3>1, <3>2
  <2>3. CASE ~(Len(full.buf) >= MinChunk)
    <3>1. tested = full
      BY <2>3 DEF tested
    <3>2. Grows(full, full)
      BY <2>1, GrowsNot
    <3> QED
      BY <1>5, <1>9, <2>1, <3>1, <3>2
  <2> QED
    BY <2>2, <2>3
<1> HIDE DEF tested
<1>12. tested \in Writers /\ Grows(v, tested)
  BY <1>1, <1>5, <1>10, <1>11, GrowsOn DEF Sound, WriterInv
<1> DEFINE done == [tested EXCEPT !.state = "start", !.open = NoMessage]
<1>13. endMessage(v) = IF v.open.nested THEN [Throw(v) EXCEPT !.cut = TRUE]
                       ELSE IF tested.thrown THEN Throw(v) ELSE done
  BY DEF endMessage, tested, full, p, t, m
<1>14. /\ Throw(v).state = "body" /\ Throw(v).table = v.table /\ Throw(v).begun = v.begun
       /\ Throw(v).thrown
       /\ LET c == [Throw(v) EXCEPT !.cut = TRUE] IN
          c.state = "body" /\ c.table = v.table /\ c.begun = v.begun /\ c.thrown /\ c.cut
  BY <1>1 DEF Throw, Writers
<1>15. CASE v.open.nested
  BY <1>13, <1>14, <1>15, ThrowKeeps
<1>16. CASE ~v.open.nested /\ tested.thrown
  BY <1>11, <1>13, <1>14, <1>16, ThrowKeeps
<1>17. CASE ~v.open.nested /\ ~tested.thrown
  <2>1. /\ done \in Writers /\ done.state = "start" /\ done.open = NoMessage
        /\ done.table = v.table /\ done.begun = v.begun /\ done.sent = tested.sent
        /\ done.buf = tested.buf /\ done.ended = tested.ended /\ done.cut = tested.cut
        /\ ~done.thrown
    BY <1>11, <1>12, <1>17 DEF Writers, NoMessage, Messages, States
  <2> HIDE DEF done
  <2>2. Sound(done, names)
    <3>1. Sound(tested, names) /\ wire(done) = wire(tested)
      BY <1>11, <2>1 DEF wire
    <3>2. WriterInv(done)
      <4>1. WriterInv(tested) /\ tested.begun \in Nat
        BY <1>12, <3>1 DEF Sound, Writers
      <4>2. done.open.id = 0
        <5>1. NoMessage.id = 0
          BY DEF NoMessage
        <5> QED
          BY <2>1, <5>1
      <4> QED
        BY <1>11, <2>1, <4>1, <4>2 DEF WriterInv
    <3>3. KeptInv(done)
      BY <2>1, <3>1 DEF Sound, KeptInv
    <3>4. ReadInv(done, names)
      BY <1>11, <2>1, <3>1 DEF Sound, ReadInv, PlaceOf
    <3> QED
      BY <3>1, <3>2, <3>3, <3>4 DEF Sound
  <2>3. Grows(v, done)
    BY <1>12, <2>1 DEF Grows
  <2> QED
    BY <1>13, <1>17, <2>1, <2>2, <2>3
<1> QED
  BY <1>15, <1>16, <1>17

\* a message is given up
LEMMA CancelKeeps ==
  ASSUME NEW names, NEW v, Sound(v, names), v.state = "body"
  PROVE  LET c == cancelMessage(v) IN
         /\ Sound(c, names) /\ Grows(v, c) /\ c.state = "start"
         /\ c.table = v.table /\ c.begun = v.begun /\ c.thrown = v.thrown /\ c.cut = v.cut
<1> DEFINE c == cancelMessage(v)
<1>1. v \in Writers
  BY DEF Sound, WriterInv
<1>2. NoMessage.id = 0 /\ NoMessage \in Messages
  BY DEF NoMessage, Messages
<1>3. /\ c \in Writers /\ c.state = "start" /\ c.open = NoMessage
      /\ c.table = v.table /\ c.begun = v.begun /\ c.sent = v.sent
      /\ c.buf = v.buf /\ c.ended = v.ended /\ c.cut = v.cut /\ c.thrown = v.thrown
  BY <1>1, <1>2 DEF Writers, States, cancelMessage
<1> HIDE DEF c
<1>4. wire(c) = wire(v)
  BY <1>3 DEF wire
<1>5. WriterInv(c)
  <2>1. WriterInv(v) /\ v.begun \in Nat
    BY <1>1 DEF Sound, Writers
  <2> QED
    BY <1>2, <1>3, <2>1 DEF WriterInv
<1>6. KeptInv(c)
  BY <1>3, <1>4 DEF Sound, KeptInv
<1>7. ReadInv(c, names)
  BY <1>3, <1>4 DEF Sound, ReadInv, PlaceOf
<1>8. Sound(c, names)
  BY <1>5, <1>6, <1>7 DEF Sound
<1> QED
  BY <1>1, <1>3, <1>8, GrowsNot DEF c

\* what ends a block of messages, and the message in it
LEMMA EndBlockKeeps ==
  ASSUME NEW names, NEW v, Sound(v, names), FlagsInv, ~v.thrown
  PROVE  LET e == endMessageBlockIfNeeded(v) IN
         /\ Sound(e, names) /\ Grows(v, e)
         /\ e.table = v.table /\ e.begun = v.begun
         /\ e.thrown => e.state = "body" /\ v.state = "body" /\ (e.cut \/ broken)
         /\ ~e.thrown => e.state = IF v.state = "finished" THEN "finished" ELSE "not_in_block"
         /\ v.state = "finished" => e = v
<1> DEFINE e == IF v.state = "body" THEN endMessage(v) ELSE v
<1>1. v \in Writers
  BY DEF Sound, WriterInv
<1>2. /\ Sound(e, names) /\ Grows(v, e) /\ e.table = v.table /\ e.begun = v.begun
      /\ e.thrown => e.state = "body" /\ v.state = "body" /\ (e.cut \/ broken)
      /\ ~e.thrown /\ e.state # "start" => e.state = v.state /\ v.state \in {"not_in_block", "finished"}
      /\ ~e.thrown /\ e.state = "start" => v.state \in {"start", "body"}
      /\ v.state = "finished" => e = v
  <2>1. v.state \in States
    BY <1>1 DEF Writers
  <2>2. CASE v.state = "body"
    BY <2>2, EndMessageKeeps
  <2>3. CASE v.state # "body"
    BY <1>1, <2>1, <2>3, GrowsNot DEF States
  <2> QED
    BY <2>2, <2>3
<1> HIDE DEF e
<1>3. e \in Writers
  BY <1>2 DEF Sound, WriterInv
<1> DEFINE s == [e EXCEPT !.state = "not_in_block"]
<1> DEFINE p == Put(s, BLOCK_END)
<1>4. endMessageBlockIfNeeded(v) = IF e.thrown \/ e.state # "start" THEN e ELSE p
  BY DEF endMessageBlockIfNeeded, e
<1>5. CASE e.thrown \/ e.state # "start"
  BY <1>2, <1>4, <1>5
<1>6. CASE ~e.thrown /\ e.state = "start"
  <2>1. /\ s \in Writers /\ s.state = "not_in_block" /\ s.open = e.open /\ s.table = e.table
        /\ s.begun = e.begun /\ s.sent = e.sent /\ s.buf = e.buf /\ s.ended = e.ended
        /\ s.cut = e.cut /\ s.thrown = e.thrown
    BY <1>3 DEF Writers, States
  <2>2. BLOCK_END \in Tokens /\ BLOCK_END.tag = "block_end"
    BY DEF BLOCK_END, Tokens
  <2> HIDE DEF s
  <2>3. /\ p \in Writers /\ p.state = "not_in_block" /\ p.open = e.open /\ p.table = e.table
        /\ p.begun = e.begun /\ p.sent = e.sent /\ p.ended = e.ended
        /\ p.cut = e.cut /\ p.thrown = e.thrown /\ wire(p) = Append(wire(s), BLOCK_END)
    BY <2>1, <2>2, PutToken
  <2>4. wire(s) = wire(e)
    BY <2>1 DEF wire
  <2>5. KeptInv(s)
    BY <1>2, <2>1, <2>4 DEF Sound, KeptInv
  <2>6. KeptInv(p)
    BY <2>1, <2>2, <2>5, PutMarker
  <2> HIDE DEF p
  <2>7. ReadInv(p, names)
    <3> SUFFICES ASSUME ~broken, ~p.cut
                 PROVE  ServerRead(wire(p)) =
                          [place |-> "between", names |-> names, messages |-> p.ended]
      BY <2>3 DEF ReadInv, PlaceOf
    <3>1. ServerRead(wire(e)) = [place |-> "inside", names |-> names, messages |-> e.ended]
      BY <1>2, <1>6, <2>3 DEF Sound, ReadInv, PlaceOf
    <3>2. ServerRead(wire(p)) = ReadToken(ServerRead(wire(e)), BLOCK_END)
      BY <2>1, <2>2, <2>3, <2>4, WireGrows
    <3> QED
      BY <2>2, <2>3, <3>1, <3>2 DEF ReadToken
  <2>8. WriterInv(p)
    BY <1>2, <1>6, <2>3 DEF Sound, WriterInv
  <2>9. Sound(p, names)
    BY <1>2, <2>6, <2>7, <2>8 DEF Sound
  <2>10. Grows(v, p)
    BY <1>2, <2>3 DEF Grows
  <2> QED
    BY <1>2, <1>4, <1>6, <2>3, <2>9, <2>10
<1> QED
  BY <1>5, <1>6

\* checkWriterInterruption leaves a writer that is sound sound
LEMMA CheckKeeps ==
  ASSUME NEW names, NEW v, Sound(v, names)
  PROVE  LET c == checkWriterInterruption(v) IN
         /\ Sound(c, names) /\ Grows(v, c)
         /\ c = IF interruption = "working" THEN v ELSE Throw(v)
         /\ c.state = v.state /\ c.open = v.open /\ c.table = v.table /\ c.begun = v.begun
         /\ c.ended = v.ended /\ c.sent = v.sent /\ c.buf = v.buf /\ c.cut = v.cut
         /\ c.thrown <=> (v.thrown \/ interruption # "working")
<1>1. v \in Writers
  BY DEF Sound, WriterInv
<1>2. CASE interruption = "working"
  BY <1>1, <1>2, GrowsNot DEF checkWriterInterruption
<1>3. CASE interruption # "working"
  <2>1. checkWriterInterruption(v) = Throw(v)
    BY <1>3 DEF checkWriterInterruption
  <2>2. /\ Throw(v).state = v.state /\ Throw(v).open = v.open /\ Throw(v).table = v.table
        /\ Throw(v).begun = v.begun /\ Throw(v).ended = v.ended /\ Throw(v).sent = v.sent
        /\ Throw(v).buf = v.buf /\ Throw(v).cut = v.cut /\ Throw(v).thrown
    BY <1>1 DEF Throw, Writers
  <2> QED
    BY <1>3, <2>1, <2>2, ThrowKeeps
<1> QED
  BY <1>2, <1>3

\* a finished writer stays as it is, and no other is finished on the way
StaysFinished(v, u) ==
    IF v.state = "finished"
    THEN u.state = "finished" /\ u.sent = v.sent /\ u.buf = v.buf /\ u.ended = v.ended
    ELSE u.state # "finished"

\* writeInstrumentBlock: the server knows one instrument more, when nothing is thrown
LEMMA InstrumentKeeps ==
  ASSUME NEW names, NEW v, Sound(v, names), FlagsInv, ~v.thrown, NEW s \in Symbols,
         v.state = "finished" => interruption # "working"
  PROVE  LET u == writeInstrumentBlock(v, s) IN
         /\ Sound(u, IF u.thrown THEN names ELSE Append(names, s))
         /\ Grows(v, u) /\ StaysFinished(v, u)
         /\ u.table = v.table /\ u.begun = v.begun
         /\ u.thrown => u.cut \/ broken \/ interruption # "working"
<1> DEFINE e == endMessageBlockIfNeeded(v)
<1>1. /\ Sound(e, names) /\ Grows(v, e)
      /\ e.table = v.table /\ e.begun = v.begun
      /\ e.thrown => e.state = "body" /\ v.state = "body" /\ (e.cut \/ broken)
      /\ ~e.thrown => e.state = IF v.state = "finished" THEN "finished" ELSE "not_in_block"
      /\ v.state = "finished" => e = v
  BY EndBlockKeeps
<1> HIDE DEF e
<1>2. StaysFinished(v, e)
  BY <1>1 DEF StaysFinished
<1> DEFINE c == IF e.thrown THEN e ELSE checkWriterInterruption(e)
<1>3. /\ Sound(c, names) /\ Grows(e, c) /\ StaysFinished(v, c)
      /\ c.table = v.table /\ c.begun = v.begun
      /\ c.thrown => c.cut \/ broken \/ interruption # "working"
      /\ ~c.thrown => c.state = "not_in_block"
  <2>1. CASE e.thrown
    <3>1. e \in Writers
      BY <1>1 DEF Sound, WriterInv
    <3> QED
      BY <1>1, <1>2, <2>1, <3>1, GrowsNot
  <2>2. CASE ~e.thrown
    <3>1. LET d == checkWriterInterruption(e) IN
          /\ Sound(d, names) /\ Grows(e, d)
          /\ d.state = e.state /\ d.table = e.table /\ d.begun = e.begun
          /\ d.ended = e.ended /\ d.sent = e.sent /\ d.buf = e.buf /\ d.cut = e.cut
          /\ d.thrown <=> (e.thrown \/ interruption # "working")
      BY <1>1, CheckKeeps
    <3> QED
      BY <1>1, <1>2, <2>2, <3>1 DEF StaysFinished
  <2> QED
    BY <2>1, <2>2
<1> HIDE DEF c
<1>4. v \in Writers /\ e \in Writers /\ c \in Writers
  BY <1>1, <1>3 DEF Sound, WriterInv
<1>5. Grows(v, c)
  BY <1>1, <1>3, <1>4, GrowsOn
<1> DEFINE t == Instrument(s)
<1> DEFINE p == Put(c, t)
<1>6. writeInstrumentBlock(v, s) = IF c.thrown THEN c ELSE p
  BY DEF writeInstrumentBlock, c, e
<1>7. CASE c.thrown
  BY <1>3, <1>5, <1>6, <1>7
<1>8. CASE ~c.thrown
  <2>1. t \in Tokens /\ t.tag = "instrument" /\ t.symbol = s
    BY DEF Instrument, Tokens
  <2> HIDE DEF t
  <2>2. /\ p \in Writers /\ p.state = c.state /\ p.open = c.open /\ p.table = c.table
        /\ p.sent = c.sent /\ p.begun = c.begun /\ p.ended = c.ended
        /\ p.thrown = c.thrown /\ p.cut = c.cut /\ wire(p) = Append(wire(c), t)
    BY <1>4, <2>1, PutToken
  <2>3. KeptInv(p) /\ Grows(c, p)
    BY <1>3, <1>4, <2>1, PutMarker DEF Sound
  <2> HIDE DEF p
  <2>4. names \in Seq(Symbols) /\ Append(names, s) \in Seq(Symbols)
    BY <1>1, AppendProperties DEF Sound
  <2>5. ReadInv(p, Append(names, s))
    <3> SUFFICES ASSUME ~broken, ~p.cut
                 PROVE  ServerRead(wire(p)) =
                          [place |-> "between", names |-> Append(names, s), messages |-> p.ended]
      BY <1>3, <1>8, <2>2 DEF ReadInv, PlaceOf
    <3>1. ServerRead(wire(c)) = [place |-> "between", names |-> names, messages |-> c.ended]
      BY <1>3, <1>8, <2>2 DEF Sound, ReadInv, PlaceOf
    <3> DEFINE r == [place |-> "between", names |-> names, messages |-> c.ended]
    <3>2. ServerRead(wire(p)) = ReadToken(r, t)
      BY <1>4, <2>1, <2>2, <3>1, WireGrows
    <3>3. ReadToken(r, t) = [r EXCEPT !.names = Append(@, s)]
      BY <2>1 DEF ReadToken
    <3> QED
      BY <2>2, <3>2, <3>3
  <2>6. WriterInv(p)
    BY <1>3, <2>2 DEF Sound, WriterInv
  <2>7. Sound(p, Append(names, s))
    BY <2>3, <2>4, <2>5, <2>6 DEF Sound
  <2>8. Grows(v, p)
    BY <1>4, <1>5, <2>2, <2>3, GrowsOn
  <2>9. StaysFinished(v, p)
    BY <1>3, <1>8, <2>2 DEF StaysFinished
  <2> QED
    BY <1>3, <1>6, <1>8, <2>2, <2>7, <2>8, <2>9
<1> QED
  BY <1>7, <1>8

\* a symbol that is new enters the table once
LEMMA TableGrows ==
  ASSUME NEW table \in Seq(Symbols), TableInv(table), NEW s \in Symbols, s \notin Range(table)
  PROVE  /\ Append(table, s) \in Seq(Symbols) /\ TableInv(Append(table, s))
         /\ s \in Range(Append(table, s))
<1> DEFINE a == Append(table, s)
<1>1. /\ a \in Seq(Symbols) /\ Len(a) = Len(table) + 1 /\ a[Len(table) + 1] = s
      /\ \A i \in 1 .. Len(table) : a[i] = table[i]
      /\ Len(table) \in Nat /\ DOMAIN table = 1 .. Len(table) /\ DOMAIN a = 1 .. Len(table) + 1
  BY AppendProperties
<1> HIDE DEF a
<1>2. Range(a) = Range(table) \cup {s}
  BY <1>1 DEF Range
<1>3. IsFiniteSet(Range(a)) /\ Cardinality(Range(a)) = Cardinality(Range(table)) + 1
  BY <1>2, FS_AddElement DEF TableInv
<1> QED
  BY <1>1, <1>2, <1>3 DEF TableInv, a

\* getInstrumentId: table and server have the symbol under the same number
LEMMA GetInstrumentKeeps ==
  ASSUME NEW names, NEW v, Sound(v, names), AgreedInv(v, names), FlagsInv, ~v.thrown,
         NEW s \in Symbols, v.state = "finished" => interruption # "working"
  PROVE  LET u == getInstrumentId(v, s) IN
         /\ \E n \in Seq(Symbols) : Sound(u, n) /\ AgreedInv(u, n)
         /\ Grows(v, u) /\ StaysFinished(v, u)
         /\ u.begun = v.begun /\ s \in Range(u.table)
<1> DEFINE a == [v EXCEPT !.table = Append(@, s)]
<1>1. v \in Writers /\ v.table \in Seq(Symbols) /\ TableInv(v.table) /\ names \in Seq(Symbols)
  BY DEF Sound, WriterInv, Writers
<1>2. CASE s \in Range(v.table)
  <2>1. getInstrumentId(v, s) = v
    BY <1>2 DEF getInstrumentId
  <2> QED
    BY <1>1, <1>2, <2>1, GrowsNot DEF StaysFinished
<1>3. CASE s \notin Range(v.table)
  <2> DEFINE u == writeInstrumentBlock(a, s)
  <2>1. getInstrumentId(v, s) = u
    BY <1>3 DEF getInstrumentId
  <2>2. /\ Append(v.table, s) \in Seq(Symbols) /\ TableInv(Append(v.table, s))
        /\ s \in Range(Append(v.table, s))
    BY <1>1, <1>3, TableGrows
  <2>3. /\ a \in Writers /\ a.state = v.state /\ a.open = v.open /\ a.table = Append(v.table, s)
        /\ a.begun = v.begun /\ a.sent = v.sent /\ a.buf = v.buf /\ a.ended = v.ended
        /\ a.cut = v.cut /\ a.thrown = v.thrown
    BY <1>1, <2>2 DEF Writers
  <2> HIDE DEF a
  <2>4. wire(a) = wire(v)
    BY <2>3 DEF wire
  <2>5. Sound(a, names)
    BY <2>2, <2>3, <2>4 DEF Sound, WriterInv, KeptInv, ReadInv
  <2>6. /\ Sound(u, IF u.thrown THEN names ELSE Append(names, s))
        /\ Grows(a, u) /\ StaysFinished(a, u)
        /\ u.table = a.table /\ u.begun = a.begun
        /\ u.thrown => u.cut \/ broken \/ interruption # "working"
    BY <2>3, <2>5, InstrumentKeeps
  <2> HIDE DEF u
  <2>7. Append(names, s) \in Seq(Symbols)
    BY <1>1, AppendProperties
  <2>8. Grows(v, u) /\ StaysFinished(v, u)
    BY <2>3, <2>6 DEF Grows, StaysFinished
  <2>9. \E n \in Seq(Symbols) : Sound(u, n) /\ AgreedInv(u, n)
    <3>1. CASE u.thrown
      BY <1>1, <2>6, <3>1 DEF AgreedInv
    <3>2. CASE ~u.thrown
      <4>1. Sound(u, Append(names, s))
        BY <2>6, <3>2
      <4>2. AgreedInv(u, Append(names, s))
        <5> SUFFICES ASSUME ~broken, ~u.cut, interruption = "working"
                     PROVE  names = v.table
          BY <2>3, <2>6 DEF AgreedInv
        <5>1. ~v.cut
          BY <2>8 DEF Grows
        <5> QED
          BY <5>1 DEF AgreedInv
      <4> QED
        BY <2>7, <4>1, <4>2
    <3> QED
      BY <3>1, <3>2
  <2> QED
    BY <2>1, <2>2, <2>3, <2>6, <2>8, <2>9
<1> QED
  BY <1>2, <1>3

\* m is a message that may be begun: its entity is in the table
Beginnable(v, m) ==
    /\ m \in Messages /\ m.id = v.begun + 1 /\ m.id <= MaxMessages /\ m.whole
    /\ m.entity + 1 \in DOMAIN v.table /\ v.table[m.entity + 1] = m.symbol

\* before the new message: a block, and the end of the message before
LEMMA BeforeNextKeeps ==
  ASSUME NEW names, NEW v, Sound(v, names), FlagsInv, ~v.thrown, NEW shouldCommit \in BOOLEAN
  PROVE  LET p == CASE v.state = "not_in_block" -> Put([v EXCEPT !.state = "start"], BLOCK)
                    [] v.state = "body" /\ shouldCommit -> endMessage(v)
                    [] v.state = "body" /\ ~shouldCommit -> cancelMessage(v)
                    [] v.state = "start" -> v
                    [] OTHER -> Throw(v)
         IN  /\ Sound(p, names) /\ Grows(v, p) /\ StaysFinished(v, p)
             /\ p.table = v.table /\ p.begun = v.begun
             /\ ~p.thrown => p.state = "start"
<1> DEFINE p == CASE v.state = "not_in_block" -> Put([v EXCEPT !.state = "start"], BLOCK)
                  [] v.state = "body" /\ shouldCommit -> endMessage(v)
                  [] v.state = "body" /\ ~shouldCommit -> cancelMessage(v)
                  [] v.state = "start" -> v
                  [] OTHER -> Throw(v)
<1>1. v \in Writers /\ v.state \in States
  BY DEF Sound, WriterInv, Writers
<1>2. CASE v.state = "not_in_block"
  <2> DEFINE s == [v EXCEPT !.state = "start"]
  <2> DEFINE u == Put(s, BLOCK)
  <2>1. p = u
    BY <1>2
  <2>2. /\ s \in Writers /\ s.state = "start" /\ s.open = v.open /\ s.table = v.table
        /\ s.begun = v.begun /\ s.sent = v.sent /\ s.buf = v.buf /\ s.ended = v.ended
        /\ s.cut = v.cut /\ s.thrown = v.thrown
    BY <1>1 DEF Writers, States
  <2>3. BLOCK \in Tokens /\ BLOCK.tag = "block"
    BY DEF BLOCK, Tokens
  <2> HIDE DEF s
  <2>4. /\ u \in Writers /\ u.state = "start" /\ u.open = v.open /\ u.table = v.table
        /\ u.begun = v.begun /\ u.sent = v.sent /\ u.ended = v.ended
        /\ u.cut = v.cut /\ u.thrown = v.thrown /\ wire(u) = Append(wire(s), BLOCK)
    BY <2>2, <2>3, PutToken
  <2>5. wire(s) = wire(v)
    BY <2>2 DEF wire
  <2>6. KeptInv(s)
    BY <2>2, <2>5 DEF Sound, KeptInv
  <2>7. KeptInv(u)
    BY <2>2, <2>3, <2>6, PutMarker
  <2> HIDE DEF u
  <2>8. ReadInv(u, names)
    <3> SUFFICES ASSUME ~broken, ~u.cut
                 PROVE  ServerRead(wire(u)) =
                          [place |-> "inside", names |-> names, messages |-> u.ended]
      BY <2>4 DEF ReadInv, PlaceOf
    <3>1. ServerRead(wire(v)) = [place |-> "between", names |-> names, messages |-> v.ended]
      BY <1>2, <2>4 DEF Sound, ReadInv, PlaceOf
    <3> DEFINE r == [place |-> "between", names |-> names, messages |-> v.ended]
    <3>2. ServerRead(wire(u)) = ReadToken(r, BLOCK)
      BY <2>2, <2>3, <2>4, <2>5, <3>1, WireGrows
    <3>3. ReadToken(r, BLOCK) = [r EXCEPT !.place = "inside"]
      BY <2>3 DEF ReadToken
    <3> QED
      BY <2>4, <3>2, <3>3
  <2>9. WriterInv(u)
    BY <1>2, <2>4 DEF Sound, WriterInv
  <2>10. Sound(u, names)
    BY <2>7, <2>8, <2>9 DEF Sound
  <2>11. Grows(v, u)
    BY <1>1, <2>4, GrowsNot
  <2> QED
    BY <1>2, <2>1, <2>4, <2>10, <2>11 DEF StaysFinished
<1>3. CASE v.state = "body" /\ shouldCommit
  <2>1. p = endMessage(v)
    BY <1>3
  <2> QED
    BY <1>3, <2>1, EndMessageKeeps DEF StaysFinished
<1>4. CASE v.state = "body" /\ ~shouldCommit
  <2>1. p = cancelMessage(v)
    BY <1>4
  <2> QED
    BY <1>4, <2>1, CancelKeeps DEF StaysFinished
<1>5. CASE v.state = "start"
  <2>1. p = v
    BY <1>5
  <2> QED
    BY <1>1, <1>5, <2>1, GrowsNot DEF StaysFinished
<1>6. CASE v.state = "finished"
  <2>1. p = Throw(v)
    BY <1>6
  <2>2. /\ Throw(v).state = v.state /\ Throw(v).table = v.table /\ Throw(v).begun = v.begun
        /\ Throw(v).ended = v.ended /\ Throw(v).sent = v.sent /\ Throw(v).buf = v.buf
        /\ Throw(v).thrown
    BY <1>1 DEF Throw, Writers
  <2> QED
    BY <1>6, <2>1, <2>2, ThrowKeeps DEF StaysFinished
<1> QED
  BY <1>1, <1>2, <1>3, <1>4, <1>5, <1>6 DEF States

\* nextInternal: a writer that is sound stays so, and begins no message when interrupted
LEMMA NextKeeps ==
  ASSUME NEW names, NEW v, Sound(v, names), AgreedInv(v, names), FlagsInv, ~v.thrown,
         NEW m, Beginnable(v, m), NEW shouldCommit \in BOOLEAN
  PROVE  LET u == nextInternal(v, m, shouldCommit) IN
         /\ Sound(u, names) /\ AgreedInv(u, names) /\ Grows(v, u) /\ StaysFinished(v, u)
         /\ interruption # "working" => u.begun = v.begun
<1> DEFINE p == CASE v.state = "not_in_block" -> Put([v EXCEPT !.state = "start"], BLOCK)
                  [] v.state = "body" /\ shouldCommit -> endMessage(v)
                  [] v.state = "body" /\ ~shouldCommit -> cancelMessage(v)
                  [] v.state = "start" -> v
                  [] OTHER -> Throw(v)
<1> DEFINE c == IF p.thrown THEN p ELSE checkWriterInterruption(p)
<1> DEFINE b == [c EXCEPT !.state = "body", !.begun = m.id, !.open = m]
<1> DEFINE x == [Throw(b) EXCEPT !.open.whole = FALSE, !.cut = TRUE]
<1> DEFINE u == IF c.thrown THEN c ELSE IF m.entity < EntityLimit THEN b ELSE x
<1>1. nextInternal(v, m, shouldCommit) = u
  BY DEF nextInternal
<1>2. /\ Sound(p, names) /\ Grows(v, p) /\ StaysFinished(v, p)
      /\ p.table = v.table /\ p.begun = v.begun
      /\ ~p.thrown => p.state = "start"
  BY BeforeNextKeeps
<1> HIDE DEF p
<1>3. /\ Sound(c, names) /\ Grows(p, c) /\ StaysFinished(v, c)
      /\ c.table = v.table /\ c.begun = v.begun
      /\ ~c.thrown => c.state = "start" /\ interruption = "working"
  <2>1. CASE p.thrown
    <3>1. p \in Writers
      BY <1>2 DEF Sound, WriterInv
    <3> QED
      BY <1>2, <2>1, <3>1, GrowsNot
  <2>2. CASE ~p.thrown
    <3>1. LET d == checkWriterInterruption(p) IN
          /\ Sound(d, names) /\ Grows(p, d)
          /\ d.state = p.state /\ d.table = p.table /\ d.begun = p.begun
          /\ d.ended = p.ended /\ d.sent = p.sent /\ d.buf = p.buf
          /\ d.thrown <=> (p.thrown \/ interruption # "working")
      BY <1>2, CheckKeeps
    <3> QED
      BY <1>2, <2>2, <3>1 DEF StaysFinished
  <2> QED
    BY <2>1, <2>2
<1> HIDE DEF c
<1>4. v \in Writers /\ p \in Writers /\ c \in Writers
  BY <1>2, <1>3 DEF Sound, WriterInv
<1>5. Grows(v, c)
  BY <1>2, <1>3, <1>4, GrowsOn
<1>6. CASE c.thrown
  <2>1. u = c
    BY <1>6
  <2>2. AgreedInv(c, names)
    BY <1>3, <1>5 DEF AgreedInv, Grows
  <2> QED
    BY <1>1, <1>3, <1>5, <2>1, <2>2
<1>7. CASE ~c.thrown
  <2>1. /\ m \in Messages /\ m.id \in Nat /\ m.id = v.begun + 1 /\ m.id <= MaxMessages
        /\ m.whole /\ m.entity + 1 \in DOMAIN v.table /\ v.table[m.entity + 1] = m.symbol
        /\ m.id # 0 /\ m.entity \in Nat
    <3>1. v.begun \in Nat
      BY <1>4 DEF Writers
    <3>2. m \in Messages
      BY DEF Beginnable
    <3>3. m.id \in Nat /\ m.entity \in Nat
      BY <3>2 DEF Messages
    <3> QED
      BY <3>1, <3>2, <3>3 DEF Beginnable
  <2>2. /\ b \in Writers /\ b.state = "body" /\ b.open = m /\ b.begun = m.id
        /\ b.table = c.table /\ b.sent = c.sent /\ b.buf = c.buf /\ b.ended = c.ended
        /\ b.cut = c.cut /\ ~b.thrown
    BY <1>4, <1>7, <2>1 DEF Writers, States
  <2>3. /\ x \in Writers /\ x.state = "body" /\ x.open.id = m.id /\ x.begun = m.id
        /\ x.table = c.table /\ x.sent = c.sent /\ x.buf = c.buf /\ x.ended = c.ended
        /\ x.cut
    <3> HIDE DEF b
    <3> DEFINE y == Throw(b)
    <3>1. /\ y \in Writers /\ y.state = "body" /\ y.open = m /\ y.begun = m.id
          /\ y.table = c.table /\ y.sent = c.sent /\ y.buf = c.buf /\ y.ended = c.ended
      BY <2>2 DEF Writers, Throw
    <3> HIDE DEF y
    <3> DEFINE o == [y.open EXCEPT !.whole = FALSE]
    <3>2. x = [y EXCEPT !.open = o, !.cut = TRUE]
      BY <3>1 DEF y, Writers
    <3>3. o \in Messages /\ o.id = m.id
      BY <2>1, <3>1 DEF Messages
    <3> HIDE DEF o, x
    <3> QED
      BY <3>1, <3>2, <3>3 DEF Writers
  <2> HIDE DEF b, x
  <2>4. wire(b) = wire(c) /\ wire(x) = wire(c)
    BY <2>2, <2>3 DEF wire
  <2>5. /\ WriterInv(b) /\ WriterInv(x) /\ KeptInv(b) /\ KeptInv(x)
    <3>1. WriterInv(c) /\ KeptInv(c)
      BY <1>3 DEF Sound
    <3>2. WriterInv(b) /\ WriterInv(x)
      BY <2>1, <2>2, <2>3, <3>1 DEF WriterInv
    <3>3. KeptInv(b) /\ KeptInv(x)
      BY <2>2, <2>3, <2>4, <3>1 DEF KeptInv
    <3> QED
      BY <3>2, <3>3
  <2>6. ReadInv(b, names)
    <3> SUFFICES ASSUME ~broken, ~b.cut
                 PROVE  /\ ServerRead(wire(b)) =
                             [place |-> "inside", names |-> names, messages |-> b.ended]
                        /\ names = v.table
      BY <2>1, <2>2 DEF ReadInv, PlaceOf
    <3>1. ServerRead(wire(c)) = [place |-> "inside", names |-> names, messages |-> c.ended]
      BY <1>3, <1>7, <2>2 DEF Sound, ReadInv, PlaceOf
    <3>2. names = v.table
      BY <1>3, <1>5, <1>7, <2>2 DEF AgreedInv, Grows
    <3> QED
      BY <2>2, <2>4, <3>1, <3>2
  <2>7. ReadInv(x, names)
    BY <2>3 DEF ReadInv
  <2>8. Sound(b, names) /\ Sound(x, names)
    BY <2>5, <2>6, <2>7 DEF Sound
  <2>9. Grows(v, b) /\ Grows(v, x)
    BY <1>5, <2>2, <2>3 DEF Grows
  <2>10. AgreedInv(b, names) /\ AgreedInv(x, names)
    BY <1>3, <2>2, <2>3, <2>9 DEF AgreedInv, Grows
  <2>11. StaysFinished(v, b) /\ StaysFinished(v, x)
    BY <1>3, <1>7, <2>2, <2>3 DEF StaysFinished
  <2> QED
    BY <1>1, <1>3, <1>7, <2>8, <2>9, <2>10, <2>11
<1> QED
  BY <1>6, <1>7

\* the rest of finish()
LEMMA EndWritingKeeps ==
  ASSUME NEW names, NEW v, Sound(v, names), FlagsInv, ~v.thrown,
         v.state \in {"not_in_block", "start"}
  PROVE  LET u == endWriting(v) IN
         /\ Sound(u, names) /\ Grows(v, u)
         /\ u.state = "finished" /\ u.begun = v.begun
         /\ ~broken => u.buf = <<>>
<1> DEFINE e == endMessageBlockIfNeeded(v)
<1>1. /\ Sound(e, names) /\ Grows(v, e) /\ e.begun = v.begun
      /\ ~e.thrown /\ e.state = "not_in_block"
  BY EndBlockKeeps
<1> HIDE DEF e
<1> DEFINE f == Flush(e)
<1>2. /\ Sound(f, names) /\ Grows(e, f)
      /\ f.state = "not_in_block" /\ f.open = e.open /\ f.begun = v.begun
      /\ ~broken => ~f.thrown
  BY <1>1, FlushKeeps
<1> HIDE DEF f
<1>3. v \in Writers /\ e \in Writers /\ f \in Writers
  BY <1>1, <1>2 DEF Sound, WriterInv
<1>4. Grows(v, f)
  BY <1>1, <1>2, <1>3, GrowsOn
<1> DEFINE p == Put(f, TERMINATOR)
<1> DEFINE u == [IF f.thrown THEN f ELSE Flush(p) EXCEPT !.state = "finished"]
<1>5. endWriting(v) = u
  BY <1>1 DEF endWriting, e, f
<1>6. CASE f.thrown
  <2> DEFINE g == [f EXCEPT !.state = "finished"]
  <2>1. u = g /\ broken
    BY <1>2, <1>6
  <2>2. /\ g \in Writers /\ g.state = "finished" /\ g.open = f.open /\ g.table = f.table
        /\ g.begun = f.begun /\ g.sent = f.sent /\ g.buf = f.buf /\ g.ended = f.ended
        /\ g.cut = f.cut
    BY <1>3 DEF Writers, States
  <2> HIDE DEF g
  <2>3. wire(g) = wire(f)
    BY <2>2 DEF wire
  <2>4. Sound(g, names)
    BY <1>2, <2>1, <2>2, <2>3 DEF Sound, WriterInv, KeptInv, ReadInv
  <2>5. Grows(v, g)
    BY <1>4, <2>2 DEF Grows
  <2> QED
    BY <1>2, <1>5, <2>1, <2>2, <2>4, <2>5
<1>7. CASE ~f.thrown
  <2> DEFINE g == [p EXCEPT !.state = "finished"]
  <2>1. TERMINATOR \in Tokens /\ TERMINATOR.tag = "terminator"
    BY DEF TERMINATOR, Tokens
  <2>2. /\ p \in Writers /\ p.state = f.state /\ p.open = f.open /\ p.table = f.table
        /\ p.sent = f.sent /\ p.begun = f.begun /\ p.ended = f.ended
        /\ p.thrown = f.thrown /\ p.cut = f.cut /\ wire(p) = Append(wire(f), TERMINATOR)
    BY <1>3, <2>1, PutToken
  <2>3. KeptInv(p)
    BY <1>2, <1>3, <2>1, PutMarker DEF Sound
  <2> HIDE DEF p
  <2>4. /\ g \in Writers /\ g.state = "finished" /\ g.open = p.open /\ g.table = p.table
        /\ g.begun = p.begun /\ g.sent = p.sent /\ g.buf = p.buf /\ g.ended = p.ended
        /\ g.cut = p.cut /\ g.thrown = p.thrown
    BY <2>2 DEF Writers, States
  <2>5. u = Flush(g)
    <3>1. Flush(p) = IF interruption \notin NotInterrupted THEN [p EXCEPT !.buf = <<>>]
                     ELSE IF up THEN [p EXCEPT !.sent = p.sent \o p.buf, !.buf = <<>>]
                     ELSE [p EXCEPT !.thrown = TRUE]
      BY <2>2 DEF Flush, Throw, Writers
    <3>2. Flush(g) = IF interruption \notin NotInterrupted THEN [g EXCEPT !.buf = <<>>]
                     ELSE IF up THEN [g EXCEPT !.sent = p.sent \o p.buf, !.buf = <<>>]
                     ELSE [g EXCEPT !.thrown = TRUE]
      BY <2>4 DEF Flush, Throw, Writers
    <3>3. u = [Flush(p) EXCEPT !.state = "finished"]
      BY <1>7
    <3> QED
      <4>1. CASE interruption \notin NotInterrupted
        <5>1. [[p EXCEPT !.buf = <<>>] EXCEPT !.state = "finished"] = [g EXCEPT !.buf = <<>>]
          BY <2>2 DEF g, Writers
        <5> QED
          BY <3>1, <3>2, <3>3, <4>1, <5>1
      <4>2. CASE interruption \in NotInterrupted /\ up
        <5> DEFINE x == p.sent \o p.buf
        <5>1. [[p EXCEPT !.sent = x, !.buf = <<>>] EXCEPT !.state = "finished"]
                = [g EXCEPT !.sent = x, !.buf = <<>>]
          <6> HIDE DEF x
          <6> QED
            BY <2>2 DEF g, Writers
        <5> QED
          BY <3>1, <3>2, <3>3, <4>2, <5>1
      <4>3. CASE interruption \in NotInterrupted /\ ~up
        <5>1. [[p EXCEPT !.thrown = TRUE] EXCEPT !.state = "finished"] = [g EXCEPT !.thrown = TRUE]
          BY <2>2 DEF g, Writers
        <5> QED
          BY <3>1, <3>2, <3>3, <4>3, <5>1
      <4> QED
        BY <4>1, <4>2, <4>3
  <2> HIDE DEF g
  <2>6. wire(g) = wire(p)
    BY <2>4 DEF wire
  <2>7. ReadInv(g, names)
    <3> SUFFICES ASSUME ~broken, ~g.cut
                 PROVE  ServerRead(wire(g)) =
                          [place |-> "end", names |-> names, messages |-> g.ended]
      BY <2>4 DEF ReadInv, PlaceOf
    <3>1. ServerRead(wire(f)) = [place |-> "between", names |-> names, messages |-> f.ended]
      BY <1>2, <2>2, <2>4 DEF Sound, ReadInv, PlaceOf
    <3> DEFINE r == [place |-> "between", names |-> names, messages |-> f.ended]
    <3>2. ServerRead(wire(g)) = ReadToken(r, TERMINATOR)
      BY <1>3, <2>1, <2>2, <2>6, <3>1, WireGrows
    <3>3. ReadToken(r, TERMINATOR) = [r EXCEPT !.place = "end"]
      BY <2>1 DEF ReadToken
    <3> QED
      BY <2>2, <2>4, <3>2, <3>3
  <2>8. WriterInv(g) /\ KeptInv(g)
    BY <1>2, <2>2, <2>3, <2>4, <2>6 DEF Sound, WriterInv, KeptInv
  <2>9. Sound(g, names)
    BY <1>2, <2>7, <2>8 DEF Sound
  <2>10. /\ Sound(Flush(g), names) /\ Grows(g, Flush(g))
         /\ Flush(g).state = "finished" /\ Flush(g).begun = g.begun
         /\ ~broken => Flush(g).buf = <<>>
    BY <2>4, <2>9, FlushKeeps
  <2>11. Grows(v, Flush(g))
    <3>1. Grows(v, g)
      BY <1>4, <2>2, <2>4 DEF Grows
    <3>2. Flush(g) \in Writers
      BY <2>10 DEF Sound, WriterInv
    <3> QED
      BY <1>3, <2>4, <2>10, <3>1, <3>2, GrowsOn
  <2> QED
    <3>1. endWriting(v) = Flush(g)
      BY <1>5, <2>5
    <3>2. g.begun = v.begun
      BY <1>2, <2>2, <2>4
    <3> QED
      BY <2>10, <2>11, <3>1, <3>2
<1> QED
  BY <1>6, <1>7

-----------------------------------------------------------------------------
(* The steps of the system.                                                *)

\* what a step may do, apart from keeping the invariant
Progress ==
    /\ Grows(w, w') /\ (broken => broken')
    /\ interruption # "working" => w'.begun = w.begun
    /\ broken' # broken => isWriting /\ w' = w
    /\ ~isWriting => w'.state = "finished" /\ w'.sent = w.sent /\ w'.ended = w.ended

\* a call that comes back has left the writer as its steps have
LEMMA CallKeeps ==
  ASSUME FlagsInv, w \in Writers, NEW v, Call(v), NEW names, Sound(v, names),
         AgreedInv(v, names), Grows(w, v), StaysFinished(w, v),
         interruption # "working" => v.begun = w.begun
  PROVE  LoaderInv' /\ Progress
<1>1. v \in Writers /\ names \in Seq(Symbols)
  BY DEF Sound, WriterInv
<1>2. /\ w' \in Writers /\ w'.state = v.state /\ w'.open = v.open /\ w'.table = v.table
      /\ w'.begun = v.begun /\ w'.sent = v.sent /\ w'.buf = v.buf /\ w'.ended = v.ended
      /\ w'.cut = v.cut /\ w'.thrown = FALSE
  BY <1>1 DEF Call, Writers
<1>3. /\ interruption' = interruption /\ up' = up /\ finishing' = finishing
      /\ broken' = broken
  BY DEF Call
<1>4. wire(w') = wire(v)
  BY <1>2 DEF wire
<1>5. Sound(w, names)'
  <2>1. WriterInv(w')
    BY <1>2 DEF Sound, WriterInv
  <2>2. KeptInv(w)'
    BY <1>2, <1>3, <1>4 DEF Sound, KeptInv, wire
  <2>3. ReadInv(w, names)'
    BY <1>2, <1>3, <1>4 DEF Sound, ReadInv, wire
  <2> QED
    BY <1>1, <2>1, <2>2, <2>3 DEF Sound, WriterInv
<1>6. AgreedInv(w, names)'
  BY <1>2, <1>3 DEF AgreedInv
<1>7. FlagsInv'
  BY <1>2, <1>3 DEF FlagsInv, isWriting, StaysFinished
<1>8. Progress
  BY <1>2, <1>3 DEF Progress, Grows, StaysFinished, isWriting
<1> QED
  BY <1>1, <1>2, <1>5, <1>6, <1>7, <1>8 DEF LoaderInv

\* the writer is as it was, only the flags have changed
LEMMA FlagsKeep ==
  ASSUME NEW names, Sound(w, names), AgreedInv(w, names), ~w.thrown, w' = w,
         FlagsInv', broken => broken', interruption' = "working" => interruption = "working",
         broken' # broken => isWriting
  PROVE  LoaderInv' /\ Progress
<1>1. w \in Writers /\ names \in Seq(Symbols)
  BY DEF Sound, WriterInv
<1>2. Sound(w, names)' /\ AgreedInv(w, names)'
  BY DEF Sound, WriterInv, KeptInv, ReadInv, AgreedInv, wire
<1>3. Grows(w, w')
  BY <1>1, GrowsNot
<1> QED
  BY <1>1, <1>2, <1>3 DEF LoaderInv, Progress, isWriting

\* what a new message is
LEMMA NewMessageIs ==
  ASSUME NEW i \in Nat, NEW e \in Nat, NEW s \in Symbols
  PROVE  LET m == NewMessage(i, e, s) IN
         m \in Messages /\ m.id = i /\ m.entity = e /\ m.symbol = s /\ m.whole
<1> DEFINE n == [id |-> 0, entity |-> 0, symbol |-> "", whole |-> TRUE, nested |-> FALSE]
<1> DEFINE a == [n EXCEPT !.id = i]
<1> DEFINE b == [a EXCEPT !.entity = e]
<1> DEFINE c == [b EXCEPT !.symbol = s]
<1>1. NewMessage(i, e, s) = c
  BY DEF NewMessage, NoMessage
<1>2. n \in Messages /\ n.whole = TRUE
  BY DEF Messages
<1> HIDE DEF n
<1>3. a \in Messages /\ a.whole = TRUE /\ a.id = i
  BY <1>2 DEF Messages
<1> HIDE DEF a
<1>4. b \in Messages /\ b.whole = TRUE /\ b.id = i /\ b.entity = e
  BY <1>3 DEF Messages
<1> HIDE DEF b
<1>5. c \in Messages /\ c.whole = TRUE /\ c.id = i /\ c.entity = e /\ c.symbol = s
  BY <1>4 DEF Messages
<1> HIDE DEF c
<1> QED
  BY <1>1, <1>5

\* a new message of a registered instrument may be begun
LEMMA NewIsBeginnable ==
  ASSUME NEW v, NEW e \in Nat, NEW s \in Symbols, v.begun \in Nat, v.begun < MaxMessages,
         e + 1 \in DOMAIN v.table, v.table[e + 1] = s
  PROVE  Beginnable(v, NewMessage(v.begun + 1, e, s))
<1> DEFINE m == NewMessage(v.begun + 1, e, s)
<1>1. MaxMessages \in Nat /\ v.begun + 1 \in Nat /\ v.begun + 1 <= MaxMessages
  BY BoundsAssumption
<1>2. /\ m \in Messages /\ m.id = v.begun + 1 /\ m.entity = e /\ m.symbol = s
      /\ m.whole
  BY <1>1, NewMessageIs
<1> HIDE DEF m
<1>3. Beginnable(v, m)
  BY <1>1, <1>2 DEF Beginnable
<1> QED
  BY <1>3 DEF m

\* next and beginMessage with an entity id
LEMMA BeginByIdKeeps ==
  ASSUME LoaderInv, NEW e \in Nat, NEW c \in BOOLEAN, BeginById(e, c)
  PROVE  LoaderInv' /\ Progress
<1>1. PICK names \in Seq(Symbols) : Sound(w, names) /\ AgreedInv(w, names)
  BY DEF LoaderInv
<1>2. FlagsInv /\ ~w.thrown /\ w \in Writers
  BY <1>1 DEF LoaderInv, Sound, WriterInv
<1> DEFINE m == NewMessage(w.begun + 1, e, w.table[e + 1])
<1> DEFINE u == nextInternal(w, m, c)
<1>3. Beginnable(w, m)
  <2>1. w.table \in Seq(Symbols) /\ w.begun \in Nat /\ w.begun < MaxMessages /\ MaxMessages \in Nat
    BY <1>2, BoundsAssumption DEF Writers, BeginById
  <2>2. e \in 0 .. Len(w.table) - 1
    BY DEF BeginById
  <2>3. e + 1 \in DOMAIN w.table /\ w.table[e + 1] \in Symbols
    BY <2>1, <2>2
  <2> QED
    BY <2>1, <2>3, NewIsBeginnable
<1> HIDE DEF m
<1>4. /\ Sound(u, names) /\ AgreedInv(u, names) /\ Grows(w, u) /\ StaysFinished(w, u)
      /\ interruption # "working" => u.begun = w.begun
  BY <1>1, <1>2, <1>3, NextKeeps
<1>5. Call(u)
  BY DEF BeginById, m
<1> HIDE DEF u
<1> QED
  BY <1>2, <1>4, <1>5, CallKeeps

\* a finished writer finds the loader interrupted
LEMMA FinishedIsInterrupted ==
  ASSUME FlagsInv, w.state = "finished"
  PROVE  interruption # "working"
BY DEF FlagsInv, isWriting

\* next and beginMessage with a symbol, which may be a new one
LEMMA BeginBySymbolKeeps ==
  ASSUME LoaderInv, NEW s \in Symbols, NEW k \in BOOLEAN, NEW c \in BOOLEAN,
         BeginBySymbol(s, k, c)
  PROVE  LoaderInv' /\ Progress
<1>1. PICK before \in Seq(Symbols) : Sound(w, before) /\ AgreedInv(w, before)
  BY DEF LoaderInv
<1>2. FlagsInv /\ ~w.thrown /\ w \in Writers
  BY <1>1 DEF LoaderInv, Sound, WriterInv
<1> DEFINE v == getInstrumentId(w, s)
<1>3. /\ \E n \in Seq(Symbols) : Sound(v, n) /\ AgreedInv(v, n)
      /\ Grows(w, v) /\ StaysFinished(w, v) /\ v.begun = w.begun /\ s \in Range(v.table)
  BY <1>1, <1>2, FinishedIsInterrupted, GetInstrumentKeeps
<1> DEFINE e == CHOOSE i \in 0 .. Len(v.table) - 1 : v.table[i + 1] = s
<1> DEFINE m == NewMessage(v.begun + 1, e, s)
<1> DEFINE u == nextInternal(v, m, c)
<1>4. w.begun < MaxMessages /\ Call(IF v.thrown \/ ~k THEN Throw(v) ELSE u)
  BY DEF BeginBySymbol
<1> HIDE DEF v
<1>5. PICK names \in Seq(Symbols) : Sound(v, names) /\ AgreedInv(v, names)
  BY <1>3
<1>6. v \in Writers
  BY <1>5 DEF Sound, WriterInv
<1>7. CASE v.thrown \/ ~k
  <2>1. /\ Throw(v).state = v.state /\ Throw(v).table = v.table /\ Throw(v).begun = v.begun
        /\ Throw(v).ended = v.ended /\ Throw(v).sent = v.sent /\ Throw(v).buf = v.buf
        /\ Throw(v).cut = v.cut
    BY <1>6 DEF Throw, Writers
  <2>2. Sound(Throw(v), names)
    BY <1>5, ThrowKeeps
  <2>3. AgreedInv(Throw(v), names) /\ Grows(w, Throw(v)) /\ StaysFinished(w, Throw(v))
    BY <1>3, <1>5, <2>1 DEF AgreedInv, Grows, StaysFinished
  <2>4. Call(Throw(v))
    BY <1>4, <1>7
  <2> QED
    BY <1>2, <1>3, <2>1, <2>2, <2>3, <2>4, CallKeeps
<1>8. CASE ~v.thrown /\ k
  <2>1. e \in 0 .. Len(v.table) - 1 /\ v.table[e + 1] = s
    <3>1. v.table \in Seq(Symbols)
      BY <1>6 DEF Writers
    <3>2. PICK j \in DOMAIN v.table : v.table[j] = s
      BY <1>3 DEF Range
    <3>3. j - 1 \in 0 .. Len(v.table) - 1 /\ v.table[(j - 1) + 1] = s
      BY <3>1, <3>2
    <3> QED
      BY <3>3
  <2> HIDE DEF e
  <2>2. Beginnable(v, m)
    <3>1. v.table \in Seq(Symbols) /\ v.begun \in Nat /\ v.begun < MaxMessages /\ MaxMessages \in Nat
      BY <1>3, <1>4, <1>6, BoundsAssumption DEF Writers
    <3>2. e \in Nat /\ e + 1 \in DOMAIN v.table
      BY <2>1, <3>1
    <3> QED
      BY <2>1, <3>1, <3>2, NewIsBeginnable
  <2> HIDE DEF m
  <2>3. /\ Sound(u, names) /\ AgreedInv(u, names) /\ Grows(v, u) /\ StaysFinished(v, u)
        /\ interruption # "working" => u.begun = v.begun
    BY <1>2, <1>5, <1>8, <2>2, NextKeeps
  <2>4. Call(u)
    BY <1>4, <1>8
  <2> HIDE DEF u
  <2>5. u \in Writers
    BY <2>3 DEF Sound, WriterInv
  <2>6. Grows(w, u)
    BY <1>2, <1>3, <1>6, <2>3, <2>5, GrowsOn
  <2>7. StaysFinished(w, u)
    BY <1>3, <2>3 DEF StaysFinished
  <2> QED
    BY <1>2, <1>3, <2>3, <2>4, <2>6, <2>7, CallKeeps
<1> QED
  BY <1>7, <1>8

\* the other calls of the application
LEMMA OtherCallsKeep ==
  ASSUME LoaderInv,
         (\E s \in Symbols : GetInstrumentId(s)) \/ WriteField \/ CommitMessage \/ FlushBuffer
  PROVE  LoaderInv' /\ Progress
<1>1. PICK names \in Seq(Symbols) : Sound(w, names) /\ AgreedInv(w, names)
  BY DEF LoaderInv
<1>2. FlagsInv /\ ~w.thrown /\ w \in Writers
  BY <1>1 DEF LoaderInv, Sound, WriterInv
<1>3. ASSUME NEW s \in Symbols, GetInstrumentId(s) PROVE LoaderInv' /\ Progress
  <2> DEFINE v == getInstrumentId(w, s)
  <2>1. /\ \E n \in Seq(Symbols) : Sound(v, n) /\ AgreedInv(v, n)
        /\ Grows(w, v) /\ StaysFinished(w, v) /\ v.begun = w.begun
    BY <1>1, <1>2, FinishedIsInterrupted, GetInstrumentKeeps
  <2>2. Call(v)
    BY <1>3 DEF GetInstrumentId
  <2> HIDE DEF v
  <2> QED
    BY <1>2, <2>1, <2>2, CallKeeps
<1>4. CASE WriteField
  <2> DEFINE o == [w.open EXCEPT !.nested = ~@]
  <2> DEFINE v == [w EXCEPT !.open.nested = ~@]
  <2>1. w.state = "body" /\ Call(v)
    BY <1>4 DEF WriteField
  <2>2. w.open \in Messages
    BY <1>2 DEF Writers
  <2>3. /\ o \in Messages /\ o.id = w.open.id /\ o.entity = w.open.entity
        /\ o.symbol = w.open.symbol /\ o.whole = w.open.whole
    BY <2>2 DEF Messages
  <2>4. v = [w EXCEPT !.open = o]
    BY <1>2 DEF Writers
  <2> HIDE DEF o, v
  <2>5. /\ v \in Writers /\ v.state = w.state /\ v.open = o /\ v.table = w.table
        /\ v.begun = w.begun /\ v.sent = w.sent /\ v.buf = w.buf /\ v.ended = w.ended
        /\ v.cut = w.cut /\ v.thrown = w.thrown
    BY <1>2, <2>3, <2>4 DEF Writers
  <2>6. wire(v) = wire(w)
    BY <2>5 DEF wire
  <2>7. Sound(v, names)
    BY <1>1, <2>1, <2>3, <2>5, <2>6 DEF Sound, WriterInv, KeptInv, ReadInv
  <2>8. AgreedInv(v, names) /\ Grows(w, v) /\ StaysFinished(w, v)
    BY <1>1, <1>2, <2>1, <2>5, GrowsNot DEF AgreedInv, StaysFinished
  <2> QED
    BY <1>2, <2>1, <2>5, <2>7, <2>8, CallKeeps
<1>5. CASE CommitMessage
  <2> DEFINE v == endMessage(w)
  <2>1. w.state = "body" /\ Call(v)
    BY <1>5 DEF CommitMessage
  <2>2. /\ Sound(v, names) /\ Grows(w, v)
        /\ v.table = w.table /\ v.begun = w.begun
        /\ v.state = IF v.thrown THEN "body" ELSE "start"
    BY <1>1, <1>2, <2>1, EndMessageKeeps
  <2> HIDE DEF v
  <2>3. AgreedInv(v, names) /\ StaysFinished(w, v)
    BY <1>1, <2>1, <2>2 DEF AgreedInv, Grows, StaysFinished
  <2> QED
    BY <1>2, <2>1, <2>2, <2>3, CallKeeps
<1>6. CASE FlushBuffer
  <2> DEFINE v == Flush(w)
  <2>1. w.state = "start" /\ Call(v)
    BY <1>6 DEF FlushBuffer
  <2>2. /\ Sound(v, names) /\ Grows(w, v)
        /\ v.state = w.state /\ v.table = w.table /\ v.begun = w.begun /\ v.cut = w.cut
    BY <1>1, <1>2, FlushKeeps
  <2> HIDE DEF v
  <2>3. AgreedInv(v, names) /\ StaysFinished(w, v)
    BY <1>1, <2>1, <2>2 DEF AgreedInv, StaysFinished
  <2> QED
    BY <1>2, <2>1, <2>2, <2>3, CallKeeps
<1> QED
  BY <1>3, <1>4, <1>5, <1>6

\* finish(), after its wait: an open message is cancelled, and the data ended
LEMMA EndFinishKeeps ==
  ASSUME LoaderInv, EndFinish
  PROVE  LoaderInv' /\ Progress
<1>1. PICK names \in Seq(Symbols) : Sound(w, names) /\ AgreedInv(w, names)
  BY DEF LoaderInv
<1>2. FlagsInv /\ ~w.thrown /\ w \in Writers /\ w.state \in States
  BY <1>1 DEF LoaderInv, Sound, WriterInv, Writers
<1>3. /\ finishing /\ w.state # "finished" /\ interruption # "working" /\ ~finishing'
      /\ interruption' = interruption /\ up' = up /\ broken' = broken
  BY <1>2 DEF EndFinish, FlagsInv, isWriting
<1> DEFINE v == IF w.state = "body" THEN cancelMessage(w) ELSE w
<1>4. /\ Sound(v, names) /\ Grows(w, v) /\ v.state \in {"not_in_block", "start"}
      /\ v.begun = w.begun /\ ~v.thrown
  <2>1. CASE w.state = "body"
    BY <1>1, <1>2, <2>1, CancelKeeps
  <2>2. CASE w.state # "body"
    BY <1>1, <1>2, <1>3, <2>2, GrowsNot DEF States
  <2> QED
    BY <2>1, <2>2
<1> DEFINE u == IF interruption \in NotInterrupted THEN endWriting(v)
                ELSE [v EXCEPT !.state = "finished"]
<1>5. w' = [u EXCEPT !.thrown = FALSE]
  BY DEF EndFinish
<1> HIDE DEF v
<1>6. /\ Sound(u, names) /\ Grows(v, u) /\ u.state = "finished" /\ u.begun = v.begun
      /\ ~broken => u.buf = <<>>
  <2>1. CASE interruption \in NotInterrupted
    BY <1>2, <1>4, <2>1, EndWritingKeeps
  <2>2. CASE interruption \notin NotInterrupted
    <3> DEFINE g == [v EXCEPT !.state = "finished"]
    <3>1. u = g /\ broken
      BY <1>2, <2>2 DEF FlagsInv
    <3>2. v \in Writers
      BY <1>4 DEF Sound, WriterInv
    <3>3. /\ g \in Writers /\ g.state = "finished" /\ g.open = v.open /\ g.table = v.table
          /\ g.begun = v.begun /\ g.sent = v.sent /\ g.buf = v.buf /\ g.ended = v.ended
          /\ g.cut = v.cut
      BY <3>2 DEF Writers, States
    <3> HIDE DEF g
    <3>4. wire(g) = wire(v)
      BY <3>3 DEF wire
    <3>5. Sound(g, names)
      BY <1>4, <3>1, <3>3, <3>4 DEF Sound, WriterInv, KeptInv, ReadInv
    <3>6. Grows(v, g)
      BY <3>2, <3>3, GrowsNot
    <3> QED
      BY <3>1, <3>3, <3>5, <3>6
  <2> QED
    BY <2>1, <2>2
<1> HIDE DEF u
<1>7. v \in Writers /\ u \in Writers
  BY <1>4, <1>6 DEF Sound, WriterInv
<1>8. /\ w' \in Writers /\ w'.state = "finished" /\ w'.open = u.open /\ w'.table = u.table
      /\ w'.begun = u.begun /\ w'.sent = u.sent /\ w'.buf = u.buf /\ w'.ended = u.ended
      /\ w'.cut = u.cut /\ w'.thrown = FALSE
  BY <1>5, <1>6, <1>7 DEF Writers
<1>9. Sound(w, names)'
  <2>1. WriterInv(w')
    BY <1>6, <1>8 DEF Sound, WriterInv
  <2>2. KeptInv(w)'
    BY <1>3, <1>6, <1>8 DEF Sound, KeptInv, wire
  <2>3. ReadInv(w, names)'
    BY <1>3, <1>6, <1>8 DEF Sound, ReadInv, wire
  <2> QED
    BY <1>6, <2>1, <2>2, <2>3 DEF Sound, WriterInv
<1>10. AgreedInv(w, names)'
  BY <1>3 DEF AgreedInv
<1>11. FlagsInv'
  <2>1. ~isWriting'
    BY <1>8 DEF isWriting
  <2>2. ~isWriting' /\ ~broken' => w'.buf = <<>>
    BY <1>3, <1>6, <1>8
  <2>3. /\ interruption' \in NotInterrupted \cup {"over"}
        /\ up' \in BOOLEAN /\ finishing' \in BOOLEAN /\ broken' \in BOOLEAN
        /\ interruption' = "over" \/ ~up' => broken'
    <3>1. /\ interruption \in NotInterrupted \cup {"over"}
          /\ up \in BOOLEAN /\ finishing \in BOOLEAN /\ broken \in BOOLEAN
          /\ interruption = "over" \/ ~up => broken
      BY <1>2 DEF FlagsInv
    <3>2. finishing' \in BOOLEAN
      BY DEF EndFinish
    <3>3. NotInterrupted' = NotInterrupted
      BY DEF NotInterrupted
    <3> QED
      BY <1>3, <3>1, <3>2, <3>3
  <2>4. finishing' \/ ~isWriting' => interruption' # "working"
    BY <1>3
  <2> QED
    BY <1>3, <2>1, <2>2, <2>3, <2>4 DEF FlagsInv
<1>12. Grows(w, u)
  BY <1>2, <1>4, <1>6, <1>7, GrowsOn
<1>13. Progress
  BY <1>3, <1>4, <1>6, <1>8, <1>12 DEF Progress, Grows, isWriting
<1> QED
  BY <1>1, <1>8, <1>9, <1>10, <1>11, <1>13 DEF LoaderInv

\* what changes the flags, and leaves the writer alone
LEMMA FlagStepsKeep ==
  ASSUME LoaderInv, BeginFinish \/ Interrupt \/ Break \/ UNCHANGED vars
  PROVE  LoaderInv' /\ Progress
<1>1. PICK names \in Seq(Symbols) : Sound(w, names) /\ AgreedInv(w, names)
  BY DEF LoaderInv
<1>2. FlagsInv /\ ~w.thrown
  BY DEF LoaderInv
<1>3. /\ w' = w /\ (broken => broken') /\ (interruption' = "working" => interruption = "working")
      /\ broken' # broken => isWriting
  BY <1>2 DEF BeginFinish, Interrupt, Break, vars, FlagsInv
<1>4. FlagsInv'
  <2>1. w' = w /\ isWriting' = isWriting
    BY <1>3 DEF isWriting
  <2>2. CASE BeginFinish
    BY <1>2, <2>1, <2>2 DEF FlagsInv, BeginFinish, NotInterrupted
  <2>3. CASE Interrupt
    BY <1>2, <2>1, <2>3 DEF FlagsInv, Interrupt, NotInterrupted
  <2>4. CASE Break
    BY <1>2, <2>1, <2>4 DEF FlagsInv, Break, NotInterrupted
  <2>5. CASE UNCHANGED vars
    BY <1>2, <2>1, <2>5 DEF FlagsInv, vars, NotInterrupted
  <2> QED
    BY <2>2, <2>3, <2>4, <2>5
<1> QED
  BY <1>1, <1>2, <1>3, <1>4, FlagsKeep

\* every step of the loader keeps the invariant
LEMMA LoaderStep ==
  ASSUME LoaderInv, [Next]_vars
  PROVE  LoaderInv' /\ Progress
<1>1. ASSUME NEW e \in 0 .. MaxMessages, NEW c \in BOOLEAN, BeginById(e, c)
      PROVE  LoaderInv' /\ Progress
  <2>1. e \in Nat
    BY BoundsAssumption
  <2> QED
    BY <1>1, <2>1, BeginByIdKeeps
<1>2. ASSUME NEW s \in Symbols, NEW k \in BOOLEAN, NEW c \in BOOLEAN, BeginBySymbol(s, k, c)
      PROVE  LoaderInv' /\ Progress
  BY <1>2, BeginBySymbolKeeps
<1>3. CASE (\E s \in Symbols : GetInstrumentId(s)) \/ WriteField \/ CommitMessage \/ FlushBuffer
  BY <1>3, OtherCallsKeep
<1>4. CASE EndFinish
  BY <1>4, EndFinishKeeps
<1>5. CASE BeginFinish \/ Interrupt \/ Break \/ UNCHANGED vars
  BY <1>5, FlagStepsKeep
<1> QED
  BY <1>1, <1>2, <1>3, <1>4, <1>5 DEF Next

-----------------------------------------------------------------------------
(* The theorems.                                                           *)

\* the loader that open() returns: nothing is written, and nothing is read
LEMMA LoaderInit ==
  ASSUME Init
  PROVE  LoaderInv
<1> DEFINE none == <<>>
<1>1. /\ w = Opened /\ interruption = "working" /\ up = TRUE
      /\ finishing = FALSE /\ broken = FALSE
  BY DEF Init
<1>2. /\ w.state = "not_in_block" /\ w.open = NoMessage /\ w.buf = none /\ w.table = none
      /\ w.sent = none /\ w.begun = 0 /\ w.ended = none /\ w.thrown = FALSE /\ w.cut = FALSE
  BY <1>1 DEF Opened
<1>3. FlagsInv
  BY <1>1, <1>2 DEF FlagsInv, isWriting, NotInterrupted
<1>4. w \in Writers /\ w.open.id = 0
  <2>1. NoMessage \in Messages /\ NoMessage.id = 0
    BY DEF NoMessage, Messages
  <2>2. Opened \in Writers
    BY <2>1 DEF Opened, Writers, States
  <2> QED
    BY <1>1, <1>2, <2>1, <2>2
<1>5. TableInv(w.table)
  <2>1. Range(none) = {} /\ Len(none) = 0
    BY DEF Range
  <2> QED
    BY <1>2, <2>1, FS_EmptySet DEF TableInv
<1>6. WriterInv(w)
  BY <1>2, <1>4, <1>5, BoundsAssumption DEF WriterInv
<1>7. wire(w) = none
  BY <1>2 DEF wire
<1>8. KeptInv(w)
  <2>1. IdsOf(w.ended) = none
    BY <1>2 DEF IdsOf
  <2>2. MessagesOf(wire(w)) = none
    BY <1>7, NoMessages
  <2>3. Promise!IsSubsequence(none, none)
    <3>1. none \in Seq(Nat)
      OBVIOUS
    <3> QED
      BY <3>1, SubsequenceOfSelf
  <2> QED
    BY <2>1, <2>2, <2>3 DEF KeptInv
<1>9. ReadInv(w, none)
  <2>1. ServerRead(wire(w)) = [place |-> "between", names |-> none, messages |-> none]
    BY <1>7, ServerReadsNothing DEF ReadStart
  <2>2. PlaceOf(w.state) = "between"
    BY <1>2 DEF PlaceOf
  <2> QED
    BY <1>2, <2>1, <2>2 DEF ReadInv
<1>10. AgreedInv(w, none) /\ none \in Seq(Symbols)
  BY <1>2 DEF AgreedInv
<1> HIDE DEF none
<1>11. Sound(w, none)
  BY <1>6, <1>8, <1>9, <1>10 DEF Sound
<1> QED
  BY <1>2, <1>3, <1>10, <1>11 DEF LoaderInv

\* the inductive invariant of a writer between its calls
THEOREM LoaderInvariant == Spec => []LoaderInv
<1>1. Init => LoaderInv
  BY LoaderInit
<1>2. LoaderInv /\ [Next]_vars => LoaderInv'
  BY LoaderStep
<1> QED
  BY <1>1, <1>2, PTL DEF Spec

\* The types of the loader's state; a message is open exactly in the body of
\* one (state_), and no instrument has two entity ids (tables_.instruments)
THEOREM TypeCorrect == Spec => []TypeOK
<1>1. LoaderInv => TypeOK
  <2> SUFFICES ASSUME LoaderInv PROVE TypeOK
    OBVIOUS
  <2>1. FlagsInv /\ ~w.thrown /\ w \in Writers /\ WriterInv(w)
    BY DEF LoaderInv, Sound, WriterInv
  <2>2. /\ w.state \in States /\ w.open \in Messages /\ w.table \in Seq(Symbols)
        /\ w.begun \in Nat /\ w.cut \in BOOLEAN /\ w.thrown \in BOOLEAN
    BY <2>1 DEF Writers
  <2>3. w.open.id \in 0 .. w.begun /\ w.begun \in 0 .. MaxMessages
    <3>1. w.open.id \in Nat
      BY <2>2 DEF Messages
    <3> QED
      BY <2>1, <2>2, <3>1, BoundsAssumption DEF WriterInv
  <2>4. w.open # NoMessage <=> w.state = "body"
    <3>1. NoMessage.id = 0
      BY DEF NoMessage
    <3> QED
      BY <2>1, <3>1 DEF WriterInv
  <2>5. Range(w.table) \subseteq Symbols /\ Len(w.table) = Cardinality(Range(w.table))
    BY <2>1, <2>2 DEF WriterInv, TableInv, Range
  <2>6. w.thrown = FALSE
    BY <2>1, <2>2
  <2>7. /\ interruption \in NotInterrupted \cup {"over"}
        /\ up \in BOOLEAN /\ finishing \in BOOLEAN /\ broken \in BOOLEAN
    BY <2>1 DEF FlagsInv
  <2> QED
    BY <2>2, <2>3, <2>4, <2>5, <2>6, <2>7 DEF TypeOK, States
<1> QED
  BY <1>1, LoaderInvariant, PTL

\* What is sent and buffered reads, on the server's side, as exactly the
\* messages that were ended, in their order and each under its symbol, for any
\* number of instruments and messages (getInstrumentId, writeInstrumentBlock)
THEOREM ReadsAsWritten == Spec => []ServerReadsWhatWasWritten
<1>1. LoaderInv => ServerReadsWhatWasWritten
  <2> SUFFICES ASSUME LoaderInv, ~broken, ~w.cut
               PROVE  LET r == ServerRead(w.sent \o w.buf) IN
                      r.place # "error" /\ r.messages = w.ended
    BY DEF ServerReadsWhatWasWritten
  <2>1. PICK names \in Seq(Symbols) : WriterInv(w) /\ ReadInv(w, names)
    BY DEF LoaderInv, Sound
  <2> DEFINE r == ServerRead(w.sent \o w.buf)
  <2>2. r = [place |-> PlaceOf(w.state), names |-> names, messages |-> w.ended]
    BY <2>1 DEF ReadInv, wire
  <2>3. PlaceOf(w.state) # "error"
    BY <2>1 DEF WriterInv, Writers, States, PlaceOf
  <2> QED
    BY <2>2, <2>3
<1> QED
  BY <1>1, LoaderInvariant, PTL

\* A message that was ended and is neither sent nor buffered any more stops the
\* writer: no message is begun after it (flushOutputInternal drops, and
\* checkWriterInterruption throws)
THEOREM LossIsNoticed == Spec => LossStopsTheWriter
<1>1. LoaderInv /\ [Next]_vars => [Lost => w'.begun = w.begun]_vars
  <2> SUFFICES ASSUME LoaderInv, [Next]_vars, Lost
               PROVE  w'.begun = w.begun
    OBVIOUS
  <2>1. Progress
    BY LoaderStep
  <2>2. CASE interruption # "working"
    BY <2>1, <2>2 DEF Progress
  <2>3. CASE interruption = "working"
    <3>1. w \in Writers /\ KeptInv(w)
      BY DEF LoaderInv, Sound, WriterInv
    <3> DEFINE e == w.ended
    <3> DEFINE ids == MessagesOf(w.sent \o w.buf)
    <3>2. ids = IdsOf(e)
      BY <2>3, <3>1 DEF KeptInv, wire
    <3>3. PICK i \in DOMAIN e : e[i].id \notin Range(ids)
      BY DEF Lost
    <3>4. e \in Seq(EndedMessages)
      BY <3>1 DEF Writers
    <3> HIDE DEF e, ids
    <3>5. i \in DOMAIN ids /\ ids[i] = e[i].id
      BY <3>2, <3>3 DEF IdsOf
    <3>6. e[i].id \in Range(ids)
      BY <3>5 DEF Range
    <3> QED
      BY <3>3, <3>6
  <2> QED
    BY <2>2, <2>3
<1> QED
  BY <1>1, LoaderInvariant, PTL DEF Spec, LossStopsTheWriter

-----------------------------------------------------------------------------
(* The loader implements LoaderPromise.                                    *)

\* a sequence is its prefix and the rest
LEMMA PrefixRest ==
  ASSUME NEW S, NEW s \in Seq(S), NEW t \in Seq(S), IsPrefix(s, t)
  PROVE  \E u \in Seq(S) : t = s \o u
<1>1. Len(s) \in Nat /\ Len(t) \in Nat /\ Len(s) <= Len(t) /\ \A i \in 1 .. Len(s) : s[i] = t[i]
  BY PrefixIs, LenProperties
<1> DEFINE u == [i \in 1 .. Len(t) - Len(s) |-> t[Len(s) + i]]
<1>2. \A i \in 1 .. Len(t) : t[i] \in S
  BY ElementOfSeq
<1>3. u \in Seq(S) /\ Len(u) = Len(t) - Len(s)
  <2>1. Len(t) - Len(s) \in Nat
    BY <1>1
  <2>2. \A i \in 1 .. Len(t) - Len(s) : t[Len(s) + i] \in S
    BY <1>1, <1>2
  <2> QED
    BY <2>1, <2>2
<1>4. \A i \in 1 .. Len(t) - Len(s) : u[i] = t[Len(s) + i]
  OBVIOUS
<1> HIDE DEF u
<1>5. /\ s \o u \in Seq(S) /\ Len(s \o u) = Len(t)
      /\ \A i \in 1 .. Len(s) : (s \o u)[i] = s[i]
      /\ \A i \in Len(s) + 1 .. Len(t) : (s \o u)[i] = u[i - Len(s)]
  BY <1>1, <1>3, ConcatProperties
<1>6. \A i \in 1 .. Len(t) : (s \o u)[i] = t[i]
  <2> TAKE i \in 1 .. Len(t)
  <2>1. CASE i <= Len(s)
    <3>1. i \in 1 .. Len(s)
      BY <1>1, <2>1
    <3> QED
      BY <1>1, <1>5, <3>1
  <2>2. CASE i > Len(s)
    <3>1. i - Len(s) \in 1 .. Len(t) - Len(s) /\ Len(s) + (i - Len(s)) = i
      BY <1>1, <2>2
    <3> QED
      BY <1>1, <1>4, <1>5, <2>2, <3>1
  <2>3. i <= Len(s) \/ i > Len(s)
    BY <1>1
  <2> QED
    BY <2>1, <2>2, <2>3
<1>7. t = s \o u
  BY <1>5, <1>6, SeqEqual
<1> QED
  BY <1>3, <1>7

\* what a writer has sent and ended only grows, as the messages of it do
LEMMA PromisedGrows ==
  ASSUME NEW v \in Writers, NEW u \in Writers, Grows(v, u)
  PROVE  /\ IsPrefix(MessagesOf(v.sent), MessagesOf(u.sent))
         /\ IsPrefix(IdsOf(v.ended), IdsOf(u.ended))
<1> DEFINE a == v.sent
<1> DEFINE b == u.sent
<1> DEFINE d == v.ended
<1> DEFINE e == u.ended
<1>1. /\ a \in Seq(Tokens) /\ b \in Seq(Tokens) /\ IsPrefix(a, b)
      /\ d \in Seq(EndedMessages) /\ e \in Seq(EndedMessages) /\ IsPrefix(d, e)
  BY DEF Writers, Grows
<1> HIDE DEF a, b, d, e
<1>2. IsPrefix(MessagesOf(a), MessagesOf(b))
  <2>1. PICK x \in Seq(Tokens) : b = a \o x
    BY <1>1, PrefixRest
  <2> QED
    BY <1>1, <2>1, TokenIds, MessagesGrow
<1>3. IsPrefix(IdsOf(d), IdsOf(e))
  <2>1. Len(d) <= Len(e) /\ \A i \in 1 .. Len(d) : d[i] = e[i]
    BY <1>1, PrefixIs
  <2>2. /\ IdsOf(d) \in Seq(Nat) /\ Len(IdsOf(d)) = Len(d)
        /\ \A i \in 1 .. Len(d) : IdsOf(d)[i] = d[i].id
    BY <1>1, IdsOfEnded
  <2>3. /\ IdsOf(e) \in Seq(Nat) /\ Len(IdsOf(e)) = Len(e)
        /\ \A i \in 1 .. Len(e) : IdsOf(e)[i] = e[i].id
    BY <1>1, IdsOfEnded
  <2>4. Len(d) \in Nat /\ Len(e) \in Nat
    BY <1>1, LenProperties
  <2>5. Len(IdsOf(d)) <= Len(IdsOf(e)) /\ \A i \in 1 .. Len(IdsOf(d)) : IdsOf(d)[i] = IdsOf(e)[i]
    BY <2>1, <2>2, <2>3, <2>4
  <2> QED
    BY <2>2, <2>3, <2>5, PrefixIs
<1> QED
  BY <1>2, <1>3 DEF a, b, d, e

\* where the loader stands: delivered is a part of accepted, a prefix of it
\* while nothing is broken, and all of it once the loader is finished
Standing ==
    /\ w \in Writers /\ MessagesOf(w.sent) \in Seq(Nat) /\ IdsOf(w.ended) \in Seq(Nat)
    /\ Promise!IsSubsequence(MessagesOf(w.sent), IdsOf(w.ended))
    /\ ~broken => IsPrefix(MessagesOf(w.sent), IdsOf(w.ended))
    /\ ~broken /\ ~isWriting => MessagesOf(w.sent) = IdsOf(w.ended)

\* the invariant says so
LEMMA WhereItStands ==
  ASSUME LoaderInv
  PROVE  Standing
<1>1. w \in Writers /\ KeptInv(w) /\ FlagsInv
  BY DEF LoaderInv, Sound, WriterInv
<1>2. w.ended \in Seq(EndedMessages) /\ w.sent \in Seq(Tokens)
  BY <1>1 DEF Writers
<1> DEFINE a == MessagesOf(w.sent)
<1> DEFINE b == MessagesOf(wire(w))
<1> DEFINE c == IdsOf(w.ended)
<1>3. a \in Seq(Nat) /\ b \in Seq(Nat) /\ IsPrefix(a, b)
  BY <1>1, WireOfWriter
<1>4. c \in Seq(Nat)
  BY <1>2, IdsOfEnded
<1>5. Promise!IsSubsequence(b, c) /\ (~broken => b = c)
  BY <1>1 DEF KeptInv
<1>6. ~broken /\ ~isWriting => a = b
  <2>1. ASSUME ~broken, ~isWriting PROVE w.buf = <<>>
    BY <1>1, <2>1 DEF FlagsInv
  <2>2. w.buf = <<>> => wire(w) = w.sent
    BY <1>2 DEF wire
  <2> QED
    BY <2>1, <2>2
<1> HIDE DEF a, b, c
<1>7. Promise!IsSubsequence(a, c)
  BY <1>3, <1>4, <1>5, PrefixIsSubsequence
<1> QED
  BY <1>1, <1>3, <1>4, <1>5, <1>6, <1>7 DEF a, b, c, Standing

\* the promise means the same prefixes
LEMMA SamePrefix == \A s, t : Promise!IsPrefix(s, t) <=> IsPrefix(s, t)
BY DEF Promise!IsPrefix, IsPrefix

\* a step of the loader is one that the promise allows, or none
LEMMA StepKeepsPromise ==
  ASSUME Standing, Standing', Progress
  PROVE  [Promise!Next]_(Promise!vars)
<1> DEFINE accepted == IdsOf(w.ended)
<1> DEFINE delivered == MessagesOf(w.sent)
<1> DEFINE status == CASE broken -> "failed"
                       [] ~broken /\ isWriting -> "open"
                       [] ~broken /\ ~isWriting -> "complete"
<1>1. /\ w \in Writers /\ delivered \in Seq(Nat) /\ accepted \in Seq(Nat)
  BY DEF Standing
<1>2. /\ w' \in Writers /\ delivered' \in Seq(Nat) /\ accepted' \in Seq(Nat)
      /\ Promise!IsSubsequence(delivered', accepted')
      /\ ~broken' => IsPrefix(delivered', accepted')
      /\ ~broken' /\ ~isWriting' => delivered' = accepted'
  BY DEF Standing
<1>3. Promise!IsPrefix(accepted, accepted') /\ Promise!IsPrefix(delivered, delivered')
  BY <1>1, <1>2, PromisedGrows, SamePrefix DEF Progress
<1>4. CASE broken
  <2>1. broken'
    BY <1>4 DEF Progress
  <2>2. status = "failed" /\ status' = "failed"
    BY <1>4, <2>1
  <2> QED
    BY <1>2, <1>3, <2>2 DEF Promise!Next, Promise!WriteFailed
<1>5. CASE ~broken /\ broken'
  <2>1. isWriting /\ w' = w
    BY <1>5 DEF Progress
  <2>2. status = "open" /\ status' = "failed" /\ delivered' = delivered /\ accepted' = accepted
    BY <1>5, <2>1
  <2> QED
    BY <2>2 DEF Promise!Next, Promise!Fail
<1>6. CASE ~broken /\ ~broken' /\ isWriting
  <2>1. /\ status = "open" /\ status' \in {"open", "complete"}
        /\ status' = "complete" => ~isWriting'
    BY <1>6
  <2>2. Promise!IsPrefix(delivered', accepted')
    BY <1>2, <1>6, SamePrefix
  <2> QED
    BY <1>2, <1>3, <1>6, <2>1, <2>2 DEF Promise!Next, Promise!Write
<1>7. CASE ~broken /\ ~broken' /\ ~isWriting
  <2>1. ~isWriting' /\ w'.sent = w.sent /\ w'.ended = w.ended
    BY <1>7 DEF Progress, isWriting
  <2>2. status' = status /\ delivered' = delivered /\ accepted' = accepted
    BY <1>7, <2>1
  <2> QED
    BY <2>2 DEF Promise!vars
<1> QED
  BY <1>4, <1>5, <1>6, <1>7

\* The loader keeps the promise: messages reach the server once, in order and
\* without a gap, all of them when finish() succeeds; after a failure a part
\* may be lost, and nothing is repeated, reordered or invented
THEOREM PromiseKept == Spec => KeepsPromise
<1>1. Init => Promise!Init
  <2> SUFFICES ASSUME Init PROVE Promise!Init
    OBVIOUS
  <2>1. w.sent = <<>> /\ w.ended = <<>> /\ broken = FALSE /\ isWriting
    BY DEF Init, Opened, isWriting
  <2>2. IdsOf(w.ended) = <<>>
    BY <2>1 DEF IdsOf
  <2>3. MessagesOf(w.sent) = <<>>
    BY <2>1, NoMessages
  <2> QED
    BY <2>1, <2>2, <2>3 DEF Promise!Init
<1>2. LoaderInv => Standing
  BY WhereItStands
<1>3. LoaderInv /\ Standing /\ Standing' /\ [Next]_vars => [Promise!Next]_(Promise!vars)
  BY LoaderStep, StepKeepsPromise
<1> QED
  BY <1>1, <1>2, <1>3, LoaderInvariant, PTL DEF Spec, KeepsPromise, Promise!Spec
=============================================================================
