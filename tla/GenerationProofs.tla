--------------------------- MODULE GenerationProofs ---------------------------
(***************************************************************************)
(* Proofs about the requests of one process: for every vocabulary, context *)
(* size, backend, chunk, window and threshold, and any faults.             *)
(*                                                                         *)
(* What the model's texts are built with comes first: FlattenSeq is a      *)
(* recursive function, and the lemmas about it are inductions on the       *)
(* length of a sequence.  Then the invariants: types and where a request   *)
(* stands (TypeInv), the live states (LiveInv), what tokens spell          *)
(* (TextInv), and the logits (LogitsInv).                                  *)
(***************************************************************************)
EXTENDS Generation, SequenceTheorems, WellFoundedInduction, TLAPS

-----------------------------------------------------------------------------
(* Sequences.                                                              *)

LEMMA Least ==
  ASSUME NEW V, V \subseteq Nat, V # {}
  PROVE  \E v \in V : \A w \in V : v <= w
<1>1. IsWellFoundedOn(OpToRel(<, Nat), Nat)
  BY NatLessThanWellFounded
<1>2. PICK v \in V : \A w \in V : ~(<<w, v>> \in OpToRel(<, Nat))
  BY <1>1, WFMin
<1>3. \A w \in V : w \in Nat /\ v \in Nat /\ ~(w < v)
  BY <1>2 DEF OpToRel
<1> QED BY <1>3

\* Induction, stated for a set of numbers.
LEMMA Induct ==
  ASSUME NEW P, 0 \in P, \A n \in Nat : n \in P => n + 1 \in P
  PROVE  Nat \subseteq P
<1> DEFINE V == Nat \ P
<1>1. SUFFICES ASSUME V # {} PROVE FALSE
  OBVIOUS
<1>2. PICK v \in V : \A w \in V : v <= w
  BY <1>1, Least
<1>3. v # 0 /\ v \in Nat /\ v \notin P
  OBVIOUS
<1>4. v - 1 \in Nat /\ v - 1 \notin V
  BY <1>2, <1>3
<1> QED BY <1>3, <1>4

\* sum[i] is the concatenation of the first i sequences of ss, for i up to n.
SumsTo(n, sum, ss) ==
  sum = [i \in 1..n |-> IF i = 1 THEN ss[i] ELSE sum[i - 1] \o ss[i]]

Sums(sum, ss) == SumsTo(Len(ss), sum, ss)

LEMMA SumsStep ==
  ASSUME NEW ss, NEW sum, Sums(sum, ss), NEW i \in 1..Len(ss)
  PROVE  sum[i] = IF i = 1 THEN ss[i] ELSE sum[i - 1] \o ss[i]
<1> DEFINE rhs == [k \in 1..Len(ss) |-> IF k = 1 THEN ss[k] ELSE sum[k - 1] \o ss[k]]
<1>1. rhs[i] = IF i = 1 THEN ss[i] ELSE sum[i - 1] \o ss[i]
  OBVIOUS
<1>2. sum = rhs
  BY Zenon DEF Sums, SumsTo
<1> HIDE DEF rhs
<1> QED BY <1>1, <1>2

\* The recursive function of FlattenSeq exists.
LEMMA SumsExist ==
  ASSUME NEW ss, Len(ss) \in Nat
  PROVE  \E sum : Sums(sum, ss)
<1> DEFINE P == {n \in Nat : \E f : SumsTo(n, f, ss)}
<1>1. 0 \in P
  <2> DEFINE e == [i \in 1..0 |-> IF i = 1 THEN ss[i] ELSE <<>>]
  <2>1. SumsTo(0, e, ss)
    BY DEF SumsTo
  <2> QED BY <2>1
<1>2. ASSUME NEW n \in Nat, n \in P PROVE n + 1 \in P
  <2>1. PICK f : SumsTo(n, f, ss)
    BY <1>2
  <2> DEFINE g == [i \in 1..(n + 1) |-> IF i <= n THEN f[i]
                                         ELSE IF i = 1 THEN ss[i] ELSE f[i - 1] \o ss[i]]
  <2>2. \A i \in 1..n : g[i] = f[i]
    OBVIOUS
  <2>3. \A i \in 1..n : f[i] = IF i = 1 THEN ss[i] ELSE f[i - 1] \o ss[i]
    BY <2>1 DEF SumsTo
  <2>4. \A i \in 1..(n + 1) : g[i] = IF i = 1 THEN ss[i] ELSE f[i - 1] \o ss[i]
    BY <2>3
  <2>5. \A i \in 1..(n + 1) : i # 1 => g[i - 1] = f[i - 1]
    BY <2>2
  <2>6. \A i \in 1..(n + 1) : g[i] = IF i = 1 THEN ss[i] ELSE g[i - 1] \o ss[i]
    BY <2>4, <2>5
  <2>7. g = [i \in 1..(n + 1) |-> g[i]]
    OBVIOUS
  <2> HIDE DEF g
  <2>8. SumsTo(n + 1, g, ss)
    BY <2>6, <2>7 DEF SumsTo
  <2> QED BY <2>8
<1> HIDE DEF P
<1>3. Len(ss) \in P
  BY <1>1, <1>2, Induct
<1> QED BY <1>3 DEF P, Sums

LEMMA FlattenIsSum ==
  ASSUME NEW ss, Len(ss) \in Nat \ {0}
  PROVE  \E sum : Sums(sum, ss) /\ FlattenSeq(ss) = sum[Len(ss)]
<1> DEFINE c == CHOOSE sum : Sums(sum, ss)
<1>1. Sums(c, ss)
  BY SumsExist
<1>2. FlattenSeq(ss) = c[Len(ss)]
  BY DEF FlattenSeq, Sums, SumsTo
<1> QED BY <1>1, <1>2

LEMMA SumsTyped ==
  ASSUME NEW S, NEW ss \in Seq(Seq(S)), NEW sum, Sums(sum, ss)
  PROVE  \A i \in 1..Len(ss) : sum[i] \in Seq(S)
<1> DEFINE P == {n \in Nat : n \in 1..Len(ss) => sum[n] \in Seq(S)}
<1>1. 0 \in P
  OBVIOUS
<1>2. ASSUME NEW n \in Nat, n \in P PROVE n + 1 \in P
  <2>1. SUFFICES ASSUME n + 1 \in 1..Len(ss) PROVE sum[n + 1] \in Seq(S)
    OBVIOUS
  <2>2. sum[n + 1] = IF n + 1 = 1 THEN ss[n + 1] ELSE sum[n] \o ss[n + 1]
    <3>1. n + 1 - 1 = n
      OBVIOUS
    <3> QED BY <2>1, <3>1, SumsStep
  <2>3. ss[n + 1] \in Seq(S)
    BY <2>1
  <2>4. CASE n = 0
    BY <2>2, <2>3, <2>4
  <2>5. CASE n # 0
    <3>1. sum[n] \in Seq(S)
      BY <1>2, <2>1, <2>5
    <3>2. sum[n + 1] = sum[n] \o ss[n + 1]
      <4>1. n + 1 # 1
        BY <2>5
      <4> QED BY <2>2, <4>1
    <3> QED BY <2>3, <3>1, <3>2, ConcatProperties
  <2> QED BY <2>4, <2>5
<1> HIDE DEF P
<1>3. Nat \subseteq P
  BY <1>1, <1>2, Induct
<1> QED BY <1>3 DEF P

LEMMA FlattenTyped ==
  ASSUME NEW S, NEW ss \in Seq(Seq(S))
  PROVE  FlattenSeq(ss) \in Seq(S)
<1>1. CASE Len(ss) = 0
  BY <1>1 DEF FlattenSeq
<1>2. CASE Len(ss) # 0
  <2>1. PICK sum : Sums(sum, ss) /\ FlattenSeq(ss) = sum[Len(ss)]
    BY <1>2, FlattenIsSum
  <2> QED BY <1>2, <2>1, SumsTyped
<1> QED BY <1>1, <1>2

\* A sum of a longer sequence begins as that of a shorter one.
LEMMA SumsAgree ==
  ASSUME NEW ss, NEW tt, Len(ss) \in Nat, Len(tt) \in Nat, Len(ss) <= Len(tt),
         \A i \in 1..Len(ss) : tt[i] = ss[i],
         NEW sum, Sums(sum, ss), NEW total, Sums(total, tt)
  PROVE  \A i \in 1..Len(ss) : total[i] = sum[i]
<1> DEFINE P == {n \in Nat : n \in 1..Len(ss) => total[n] = sum[n]}
<1>1. 0 \in P
  OBVIOUS
<1>2. ASSUME NEW n \in Nat, n \in P PROVE n + 1 \in P
  <2>1. SUFFICES ASSUME n + 1 \in 1..Len(ss) PROVE total[n + 1] = sum[n + 1]
    OBVIOUS
  <2>2. sum[n + 1] = IF n + 1 = 1 THEN ss[n + 1] ELSE sum[n] \o ss[n + 1]
    <3>1. n + 1 - 1 = n
      OBVIOUS
    <3> QED BY <2>1, <3>1, SumsStep
  <2>3. total[n + 1] = IF n + 1 = 1 THEN tt[n + 1] ELSE total[n] \o tt[n + 1]
    <3>1. n + 1 - 1 = n /\ n + 1 \in 1..Len(tt)
      BY <2>1
    <3> QED BY <3>1, SumsStep
  <2>4. n # 0 => total[n] = sum[n]
    BY <1>2, <2>1
  <2>5. tt[n + 1] = ss[n + 1]
    BY <2>1
  <2> QED BY <2>2, <2>3, <2>4, <2>5
<1> HIDE DEF P
<1>3. Nat \subseteq P
  BY <1>1, <1>2, Induct
<1> QED BY <1>3 DEF P

LEMMA FlattenAppend ==
  ASSUME NEW S, NEW ss \in Seq(Seq(S)), NEW x \in Seq(S)
  PROVE  FlattenSeq(Append(ss, x)) = FlattenSeq(ss) \o x
<1> DEFINE tt == Append(ss, x)
<1>1. /\ tt \in Seq(Seq(S)) /\ Len(tt) = Len(ss) + 1 /\ tt[Len(ss) + 1] = x
      /\ \A i \in 1..Len(ss) : tt[i] = ss[i]
  OBVIOUS
<1> HIDE DEF tt
<1>2. PICK total : Sums(total, tt) /\ FlattenSeq(tt) = total[Len(tt)]
  BY <1>1, FlattenIsSum
<1>3. total[Len(tt)] = IF Len(tt) = 1 THEN x ELSE total[Len(ss)] \o x
  <2>1. Len(tt) \in 1..Len(tt) /\ Len(tt) - 1 = Len(ss) /\ tt[Len(tt)] = x
    BY <1>1
  <2>2. total[Len(tt)] = IF Len(tt) = 1 THEN tt[Len(tt)]
                         ELSE total[Len(tt) - 1] \o tt[Len(tt)]
    BY <1>2, <2>1, SumsStep
  <2> QED BY <2>1, <2>2
<1>4. CASE Len(ss) = 0
  <2>1. ss = <<>> /\ FlattenSeq(ss) = <<>>
    BY <1>4 DEF FlattenSeq
  <2>2. FlattenSeq(tt) = x
    BY <1>1, <1>2, <1>3, <1>4
  <2> QED BY <2>1, <2>2 DEF tt
<1>5. CASE Len(ss) # 0
  <2>1. PICK sum : Sums(sum, ss) /\ FlattenSeq(ss) = sum[Len(ss)]
    BY <1>5, FlattenIsSum
  <2>2. total[Len(ss)] = sum[Len(ss)]
    <3>1. Len(ss) \in 1..Len(ss) /\ Len(ss) <= Len(tt) /\ Len(tt) \in Nat
      BY <1>1, <1>5
    <3>2. \A i \in 1..Len(ss) : tt[i] = ss[i]
      BY <1>1
    <3>3. Len(ss) \in Nat /\ Sums(sum, ss) /\ Sums(total, tt)
      BY <1>2, <2>1
    <3>4. \A i \in 1..Len(ss) : total[i] = sum[i]
      BY <3>1, <3>2, <3>3, SumsAgree
    <3> QED BY <3>1, <3>4
  <2>3. FlattenSeq(tt) = total[Len(ss)] \o x
    <3>1. Len(tt) # 1
      BY <1>1, <1>5
    <3> QED BY <1>2, <1>3, <3>1
  <2> QED BY <2>1, <2>2, <2>3 DEF tt
<1> QED BY <1>4, <1>5

LEMMA ConcatAppend ==
  ASSUME NEW T, NEW s \in Seq(T), NEW a \in Seq(T), NEW x \in T
  PROVE  s \o Append(a, x) = Append(s \o a, x) /\ s \o a \in Seq(T)
<1>1. Append(a, x) \in Seq(T) /\ s \o a \in Seq(T)
  OBVIOUS
<1>2. Len(s \o Append(a, x)) = Len(Append(s \o a, x))
  BY <1>1
<1>3. \A i \in 1..Len(s \o Append(a, x)) : (s \o Append(a, x))[i] = Append(s \o a, x)[i]
  BY <1>1
<1> QED BY <1>1, <1>2, <1>3

LEMMA FlattenConcat ==
  ASSUME NEW S, NEW ss \in Seq(Seq(S)), NEW tt \in Seq(Seq(S))
  PROVE  FlattenSeq(ss \o tt) = FlattenSeq(ss) \o FlattenSeq(tt)
<1> DEFINE first(n) == SubSeq(tt, 1, n)
           P == {n \in Nat : n <= Len(tt) =>
                   FlattenSeq(ss \o first(n)) = FlattenSeq(ss) \o FlattenSeq(first(n))}
<1>1. 0 \in P
  <2>1. first(0) = <<>> /\ FlattenSeq(<<>>) = <<>>
    BY DEF FlattenSeq
  <2>2. ss \o <<>> = ss /\ FlattenSeq(ss) \o <<>> = FlattenSeq(ss)
    BY FlattenTyped, ConcatEmptySeq
  <2> QED BY <2>1, <2>2
<1>2. ASSUME NEW n \in Nat, n \in P PROVE n + 1 \in P
  <2>1. SUFFICES ASSUME n + 1 <= Len(tt)
                 PROVE  FlattenSeq(ss \o first(n + 1))
                          = FlattenSeq(ss) \o FlattenSeq(first(n + 1))
    OBVIOUS
  <2> DEFINE a == first(n)
             x == tt[n + 1]
  <2>2. a \in Seq(Seq(S)) /\ x \in Seq(S) /\ first(n + 1) = Append(a, x)
    BY <2>1
  <2>3. FlattenSeq(ss \o a) = FlattenSeq(ss) \o FlattenSeq(a)
    BY <1>2, <2>1
  <2> HIDE DEF a, x, first, P
  <2>4. ss \o Append(a, x) = Append(ss \o a, x) /\ ss \o a \in Seq(Seq(S))
    BY <2>2, ConcatAppend
  <2>5. FlattenSeq(ss \o first(n + 1)) = FlattenSeq(ss \o a) \o x
    BY <2>2, <2>4, FlattenAppend
  <2>6. FlattenSeq(first(n + 1)) = FlattenSeq(a) \o x
    BY <2>2, FlattenAppend
  <2>7. (FlattenSeq(ss) \o FlattenSeq(a)) \o x = FlattenSeq(ss) \o (FlattenSeq(a) \o x)
    <3>1. FlattenSeq(ss) \in Seq(S) /\ FlattenSeq(a) \in Seq(S) /\ x \in Seq(S)
      BY <2>2, FlattenTyped
    <3> HIDE DEF a
    <3> QED BY <3>1, ConcatAssociative
  <2> QED BY <2>3, <2>5, <2>6, <2>7
<1>3. first(Len(tt)) = tt
  BY SubSeqFull
<1> HIDE DEF P, first
<1>4. Nat \subseteq P
  BY <1>1, <1>2, Induct
<1>5. Len(tt) \in P
  BY <1>4
<1>6. FlattenSeq(ss \o first(Len(tt))) = FlattenSeq(ss) \o FlattenSeq(first(Len(tt)))
  BY <1>5 DEF P
<1> QED BY <1>3, <1>6

LEMMA FlattenEmpty == FlattenSeq(<<>>) = <<>>
BY DEF FlattenSeq

LEMMA FlattenOne ==
  ASSUME NEW S, NEW x \in Seq(S)
  PROVE  FlattenSeq(<<x>>) = x
<1>1. <<>> \in Seq(Seq(S)) /\ Append(<<>>, x) = <<x>>
  OBVIOUS
<1>2. FlattenSeq(<<x>>) = FlattenSeq(<<>>) \o x
  BY <1>1, FlattenAppend
<1> QED BY <1>2, FlattenEmpty, ConcatEmptySeq

\* What is left of a text after its prefix.
LEMMA PrefixSplit ==
  ASSUME NEW S, NEW key \in Seq(S), NEW text \in Seq(S), IsPrefix(key, text)
  PROVE  /\ TextAfter(key, text) \in Seq(S)
         /\ text = key \o TextAfter(key, text)
         /\ key # text => TextAfter(key, text) # <<>>
<1> DEFINE n == Len(key)
<1>1. n \in 0..Len(text) /\ Len(text) \in Nat
  BY DEF IsPrefix
<1>2. key = SubSeq(text, 1, n)
  BY SubSeqFull DEF IsPrefix
<1>3. SubSeq(text, 1, n) \o SubSeq(text, n + 1, Len(text)) = SubSeq(text, 1, Len(text))
  <2>1. /\ 1 \in 1..(Len(text) + 1) /\ n \in (1 - 1)..Len(text) /\ Len(text) \in n..Len(text)
    BY <1>1
  <2> QED BY <2>1, ConcatAdjacentSubSeq
<1>4. text = key \o TextAfter(key, text)
  BY <1>2, <1>3, SubSeqFull DEF TextAfter
<1>5. TextAfter(key, text) \in Seq(S)
  <2>1. \A i \in (n + 1)..Len(text) : text[i] \in S
    BY <1>1
  <2> QED BY <1>1, <2>1, SubSeqProperties DEF TextAfter
<1> QED BY <1>4, <1>5, ConcatEmptySeq

Texts == Seq(Chars)
Plain == Seq(Chars \ {Hidden})

LEMMA PlainTexts == Plain \subseteq Texts
BY DEF Plain, Texts

LEMMA RenderEmpty == Render(<<>>) = <<>>
<1>1. [i \in DOMAIN <<>> |-> Piece(<<>>[i])] = <<>>
  OBVIOUS
<1> QED BY <1>1, FlattenEmpty DEF Render

LEMMA Pieces ==
  ASSUME NEW toks \in Seq(Tokens)
  PROVE  /\ [i \in DOMAIN toks |-> Piece(toks[i])] \in Seq(Texts)
         /\ Len([i \in DOMAIN toks |-> Piece(toks[i])]) = Len(toks)
         /\ \A k \in 1..Len(toks) : [i \in DOMAIN toks |-> Piece(toks[i])][k] = Piece(toks[k])
<1> DEFINE p == [i \in DOMAIN toks |-> Piece(toks[i])]
<1>1. \A t \in Tokens : Piece(t) \in Texts
  BY GenerationAssumption DEF Texts
<1>2. DOMAIN toks = 1..Len(toks) /\ Len(toks) \in Nat /\ \A i \in 1..Len(toks) : toks[i] \in Tokens
  OBVIOUS
<1>3. p = [i \in 1..Len(toks) |-> Piece(toks[i])]
  BY <1>2
<1>4. \A k \in 1..Len(toks) : p[k] = Piece(toks[k]) /\ p[k] \in Texts
  BY <1>1, <1>2, <1>3
<1>5. p \in [1..Len(toks) -> Texts]
  BY <1>1, <1>2, <1>3
<1> HIDE DEF p
<1>6. p \in Seq(Texts) /\ Len(p) = Len(toks)
  BY <1>2, <1>5
<1> QED BY <1>4, <1>6 DEF p

LEMMA RenderTyped ==
  ASSUME NEW toks \in Seq(Tokens)
  PROVE  Render(toks) \in Texts
BY Pieces, FlattenTyped DEF Render, Texts

LEMMA RenderConcat ==
  ASSUME NEW a \in Seq(Tokens), NEW b \in Seq(Tokens)
  PROVE  Render(a \o b) = Render(a) \o Render(b)
<1> DEFINE p(s) == [i \in DOMAIN s |-> Piece(s[i])]
<1>1. /\ p(a) \in Seq(Texts) /\ Len(p(a)) = Len(a) /\ \A k \in 1..Len(a) : p(a)[k] = Piece(a[k])
      /\ p(b) \in Seq(Texts) /\ Len(p(b)) = Len(b) /\ \A k \in 1..Len(b) : p(b)[k] = Piece(b[k])
  BY Pieces
<1>2. a \o b \in Seq(Tokens) /\ Len(a \o b) = Len(a) + Len(b)
  OBVIOUS
<1>3. /\ p(a \o b) \in Seq(Texts) /\ Len(p(a \o b)) = Len(a) + Len(b)
      /\ \A k \in 1..(Len(a) + Len(b)) : p(a \o b)[k] = Piece((a \o b)[k])
  BY <1>2, Pieces
<1> HIDE DEF p
<1>4. \A k \in 1..(Len(a) + Len(b)) : p(a \o b)[k] = (p(a) \o p(b))[k]
  <2> TAKE k \in 1..(Len(a) + Len(b))
  <2>1. CASE k <= Len(a)
    BY <1>1, <1>3, <2>1
  <2>2. CASE ~(k <= Len(a))
    <3>1. (p(a) \o p(b))[k] = p(b)[k - Len(a)] /\ (a \o b)[k] = b[k - Len(a)]
      BY <1>1, <2>2, ConcatProperties
    <3>2. k - Len(a) \in 1..Len(b)
      BY <2>2
    <3> QED BY <1>1, <1>3, <3>1, <3>2
  <2> QED BY <2>1, <2>2
<1>5. p(a \o b) = p(a) \o p(b)
  <2>1. p(a) \o p(b) \in Seq(Texts) /\ Len(p(a) \o p(b)) = Len(a) + Len(b)
    <3>1. PICK u \in Seq(Texts), v \in Seq(Texts) : u = p(a) /\ v = p(b)
      BY <1>1
    <3>2. Len(u) = Len(a) /\ Len(v) = Len(b)
      BY <1>1, <3>1
    <3>3. u \o v \in Seq(Texts) /\ Len(u \o v) = Len(u) + Len(v)
      BY ConcatProperties
    <3> QED BY <3>1, <3>2, <3>3
  <2> QED BY <1>3, <1>4, <2>1, SeqEqual
<1>6. FlattenSeq(p(a) \o p(b)) = FlattenSeq(p(a)) \o FlattenSeq(p(b))
  BY <1>1, FlattenConcat DEF Texts
<1> QED BY <1>5, <1>6 DEF Render, p

LEMMA RenderAppend ==
  ASSUME NEW toks \in Seq(Tokens), NEW t \in Tokens
  PROVE  Render(Append(toks, t)) = Render(toks) \o Piece(t)
<1>1. <<t>> \in Seq(Tokens) /\ Append(toks, t) = toks \o <<t>>
  OBVIOUS
<1>2. [i \in DOMAIN <<t>> |-> Piece(<<t>>[i])] = <<Piece(t)>>
  OBVIOUS
<1>3. Piece(t) \in Texts
  BY GenerationAssumption DEF Texts
<1>4. Render(<<t>>) = Piece(t)
  BY <1>2, <1>3, FlattenOne DEF Render, Texts
<1> QED BY <1>1, <1>4, RenderConcat
-----------------------------------------------------------------------------
(* What a client sees of a text.                                           *)

Shown(text) == [i \in DOMAIN text |-> IF text[i] = Hidden THEN <<>> ELSE <<text[i]>>]

LEMMA ShownTyped ==
  ASSUME NEW text \in Texts
  PROVE  /\ Shown(text) \in Seq(Plain)
         /\ Len(Shown(text)) = Len(text)
         /\ \A k \in 1..Len(text) :
              Shown(text)[k] = IF text[k] = Hidden THEN <<>> ELSE <<text[k]>>
<1> DEFINE p == Shown(text)
<1>1. /\ DOMAIN text = 1..Len(text) /\ Len(text) \in Nat
      /\ \A i \in 1..Len(text) : text[i] \in Chars
  BY DEF Texts
<1>2. p = [i \in 1..Len(text) |-> IF text[i] = Hidden THEN <<>> ELSE <<text[i]>>]
  BY <1>1 DEF Shown
<1>3. \A k \in 1..Len(text) : p[k] = IF text[k] = Hidden THEN <<>> ELSE <<text[k]>>
  BY <1>2
<1>4. \A k \in 1..Len(text) : p[k] \in Plain
  <2> TAKE k \in 1..Len(text)
  <2>1. text[k] # Hidden => text[k] \in Chars \ {Hidden}
    BY <1>1
  <2>2. <<>> \in Plain /\ (text[k] # Hidden => <<text[k]>> \in Plain)
    BY <2>1 DEF Plain
  <2> HIDE DEF p
  <2> QED BY <1>3, <2>2
<1>5. p \in [1..Len(text) -> Plain]
  BY <1>2, <1>4
<1> HIDE DEF p
<1>6. p \in Seq(Plain) /\ Len(p) = Len(text)
  BY <1>1, <1>5
<1> QED BY <1>3, <1>6 DEF p

LEMMA VisibleTyped ==
  ASSUME NEW text \in Texts
  PROVE  Visible(text) \in Plain
<1>1. Visible(text) = FlattenSeq(Shown(text))
  BY DEF Visible, Shown
<1> QED BY <1>1, ShownTyped, FlattenTyped DEF Plain

LEMMA VisibleConcat ==
  ASSUME NEW a \in Texts, NEW b \in Texts
  PROVE  Visible(a \o b) = Visible(a) \o Visible(b)
<1> DEFINE p(s) == Shown(s)
<1>1. /\ p(a) \in Seq(Plain) /\ Len(p(a)) = Len(a)
      /\ \A k \in 1..Len(a) : p(a)[k] = IF a[k] = Hidden THEN <<>> ELSE <<a[k]>>
      /\ p(b) \in Seq(Plain) /\ Len(p(b)) = Len(b)
      /\ \A k \in 1..Len(b) : p(b)[k] = IF b[k] = Hidden THEN <<>> ELSE <<b[k]>>
  BY ShownTyped
<1>2. /\ a \o b \in Texts /\ Len(a \o b) = Len(a) + Len(b)
      /\ \A i \in 1..(Len(a) + Len(b)) :
           (a \o b)[i] = IF i <= Len(a) THEN a[i] ELSE b[i - Len(a)]
      /\ Len(a) \in Nat /\ Len(b) \in Nat
  BY ConcatProperties DEF Texts
<1>3. /\ p(a \o b) \in Seq(Plain) /\ Len(p(a \o b)) = Len(a) + Len(b)
      /\ \A k \in 1..(Len(a) + Len(b)) :
           p(a \o b)[k] = IF (a \o b)[k] = Hidden THEN <<>> ELSE <<(a \o b)[k]>>
  BY <1>2, ShownTyped
<1> HIDE DEF p
<1>4. /\ p(a) \o p(b) \in Seq(Plain) /\ Len(p(a) \o p(b)) = Len(a) + Len(b)
      /\ \A k \in 1..(Len(a) + Len(b)) :
           (p(a) \o p(b))[k] = IF k <= Len(a) THEN p(a)[k] ELSE p(b)[k - Len(a)]
  <2>1. PICK u : u = p(a)
    OBVIOUS
  <2>2. PICK v : v = p(b)
    OBVIOUS
  <2>3. u \in Seq(Plain) /\ v \in Seq(Plain) /\ Len(u) = Len(a) /\ Len(v) = Len(b)
    BY <1>1, <2>1, <2>2
  <2>4. /\ u \o v \in Seq(Plain) /\ Len(u \o v) = Len(u) + Len(v)
        /\ \A k \in 1..(Len(u) + Len(v)) :
             (u \o v)[k] = IF k <= Len(u) THEN u[k] ELSE v[k - Len(u)]
    BY <2>3, ConcatProperties
  <2> QED BY <2>1, <2>2, <2>3, <2>4
<1>5. \A k \in 1..(Len(a) + Len(b)) : p(a \o b)[k] = (p(a) \o p(b))[k]
  <2> TAKE k \in 1..(Len(a) + Len(b))
  <2>1. CASE k <= Len(a)
    <3>1. k \in 1..Len(a)
      BY <1>2, <2>1
    <3> QED BY <1>1, <1>2, <1>3, <1>4, <2>1, <3>1
  <2>2. CASE ~(k <= Len(a))
    <3>1. k - Len(a) \in 1..Len(b)
      BY <1>2, <2>2
    <3> QED BY <1>1, <1>2, <1>3, <1>4, <2>2, <3>1
  <2> QED BY <2>1, <2>2
<1>6. p(a \o b) = p(a) \o p(b)
  BY <1>3, <1>4, <1>5, SeqEqual
<1>7. FlattenSeq(p(a) \o p(b)) = FlattenSeq(p(a)) \o FlattenSeq(p(b))
  BY <1>1, FlattenConcat DEF Plain
<1> QED BY <1>6, <1>7 DEF Visible, Shown, p

\* A client sends no reasoning: it sees all of its text.
LEMMA VisiblePlain ==
  ASSUME NEW text \in Plain
  PROVE  Visible(text) = text
<1> DEFINE first(n) == SubSeq(text, 1, n)
           P == {n \in Nat : n <= Len(text) => Visible(first(n)) = first(n)}
<1>1. 0 \in P
  <2>1. first(0) = <<>> /\ Shown(<<>>) = <<>>
    BY DEF Shown
  <2>2. Visible(<<>>) = <<>>
    BY <2>1, FlattenEmpty DEF Visible, Shown
  <2> QED BY <2>1, <2>2
<1>2. ASSUME NEW n \in Nat, n \in P PROVE n + 1 \in P
  <2>1. SUFFICES ASSUME n + 1 <= Len(text) PROVE Visible(first(n + 1)) = first(n + 1)
    OBVIOUS
  <2> DEFINE a == first(n)
             c == text[n + 1]
  <2>2. a \in Plain /\ c \in Chars \ {Hidden} /\ first(n + 1) = a \o <<c>>
    BY <2>1 DEF Plain
  <2>3. Visible(a) = a
    BY <1>2, <2>1
  <2> HIDE DEF a, c, first, P
  <2>4. <<c>> \in Texts /\ <<c>> \in Plain /\ Shown(<<c>>) = <<<<c>>>>
    BY <2>2 DEF Texts, Plain, Shown
  <2>5. Visible(<<c>>) = <<c>>
    BY <2>4, FlattenOne DEF Visible, Shown, Plain
  <2> QED BY <2>2, <2>3, <2>4, <2>5, PlainTexts, VisibleConcat
<1>3. first(Len(text)) = text /\ Len(text) \in Nat
  BY SubSeqFull DEF Plain
<1> HIDE DEF P, first
<1>4. Len(text) \in P
  BY <1>1, <1>2, <1>3, Induct
<1>5. Visible(first(Len(text))) = first(Len(text))
  BY <1>3, <1>4 DEF P
<1> QED BY <1>3, <1>5
-----------------------------------------------------------------------------
(* The session's prefix functions.                                         *)

\* A bounded set of numbers that is not empty has a greatest one.
LEMMA Greatest ==
  ASSUME NEW V, V # {}, NEW b \in Nat, \A v \in V : v \in Nat /\ v <= b
  PROVE  \E v \in V : \A w \in V : w <= v
<1> DEFINE W == {b - v : v \in V}
<1>1. W \subseteq Nat /\ W # {}
  OBVIOUS
<1> HIDE DEF W
<1>2. PICK x \in W : \A w \in W : x <= w
  BY <1>1, Least
<1>3. PICK v \in V : x = b - v
  BY DEF W
<1>4. \A w \in V : b - v <= b - w
  BY <1>2, <1>3 DEF W
<1> QED BY <1>4

\* The common prefix of two sequences is a prefix of both.
LEMMA CommonIsPrefix ==
  ASSUME NEW S, NEW a \in Seq(S), NEW b \in Seq(S)
  PROVE  \E n \in 0..Len(a) : /\ n <= Len(b)
                              /\ LongestCommonPrefix({a, b}) = SubSeq(a, 1, n)
                              /\ SubSeq(a, 1, n) = SubSeq(b, 1, n)
                              /\ Len(LongestCommonPrefix({a, b})) = n
<1> DEFINE CP == CommonPrefixes({a, b})
           V == {Len(x) : x \in CP}
<1>1. \A x \in CP : IsPrefix(x, a) /\ IsPrefix(x, b)
  BY DEF CommonPrefixes
<1>2. \A x \in CP : \E n \in Nat : x = SubSeq(a, 1, n) \/ x = SubSeq(b, 1, n)
  BY DEF CommonPrefixes, Prefixes
<1>3. \A x \in CP : x \in Seq(S)
  <2> TAKE x \in CP
  <2>1. PICK s \in {a, b} : x \in Prefixes(s)
    BY DEF CommonPrefixes
  <2>2. PICK n \in 0..Len(s) : x = SubSeq(s, 1, n)
    BY <2>1 DEF Prefixes
  <2> QED BY <2>2
<1>4. <<>> \in CP
  <2>1. <<>> \in Prefixes(a)
    <3>1. SubSeq(a, 1, 0) = <<>> /\ 0 \in 0..Len(a)
      OBVIOUS
    <3> QED BY <3>1 DEF Prefixes
  <2>2. IsPrefix(<<>>, a) /\ IsPrefix(<<>>, b)
    <3>1. /\ Len(<<>>) = 0 /\ SubSeq(<<>>, 1, 0) = <<>>
          /\ SubSeq(a, 1, 0) = <<>> /\ SubSeq(b, 1, 0) = <<>>
      OBVIOUS
    <3> QED BY <3>1 DEF IsPrefix
  <2> QED BY <2>1, <2>2 DEF CommonPrefixes
<1> HIDE DEF CP
<1>5. \A x \in CP : Len(x) \in Nat /\ Len(x) <= Len(a) /\ Len(x) <= Len(b)
  BY <1>1, <1>3 DEF IsPrefix
<1>6. PICK v \in V : \A w \in V : w <= v
  <2>1. V # {}
    BY <1>4
  <2>2. Len(a) \in Nat /\ \A v \in V : v \in Nat /\ v <= Len(a)
    BY <1>5
  <2> HIDE DEF V
  <2> QED BY <2>1, <2>2, Greatest
<1>7. \E x \in CP : \A y \in CP : Len(y) <= Len(x)
  BY <1>6
<1> DEFINE l == LongestCommonPrefix({a, b})
<1>8. l \in CP
  BY <1>7 DEF LongestCommonPrefix, CP
<1>9. Len(l) \in 0..Len(a) /\ Len(l) <= Len(b) /\ l = SubSeq(l, 1, Len(l))
  BY <1>3, <1>5, <1>8, SubSeqFull
<1>10. l = SubSeq(a, 1, Len(l)) /\ l = SubSeq(b, 1, Len(l))
  BY <1>1, <1>8, <1>9 DEF IsPrefix
<1> HIDE DEF l
<1> QED BY <1>9, <1>10 DEF l
-----------------------------------------------------------------------------
(* The inductive invariant: types, and where a request stands.             *)

\* What is said of the tokenizer: it answers tokens of the vocabulary that
\* spell the text.
Tokenizer ==
  \A text \in Texts : Tokenize(text) \in Seq(Tokens) /\ Render(Tokenize(text)) = text

Prompted == Seq(Tokens) \ {<<>>}
Written == Plain \ {<<>>}

Sessions == [toks : Seq(Tokens), valid : BOOLEAN, logits : Seq(Tokens)]
Payloads == [toks : Seq(Tokens), logits : Seq(Tokens)]
LiveStates == [valid : BOOLEAN, pos : 0..Ctx, text : Plain, ids : SUBSET Nat, of : Seq(Tokens)]
Transcripts == [text : Written, calls : BOOLEAN]
Asked == [history : Written, text : Written, ids : SUBSET Nat, tail : Plain,
          api : Apis, tools : Tools, greedy : Greedy]
WayNames == {"visible", "ids", "tokens", "thinking", "text", "none"}

Looking == [pc : {"evict", "load", "check"}, req : Asked, way : WayNames, cached : Nat,
            prompt : Prompted]
Syncing == [pc : {"sync", "prefill", "prefilled", "synced", "cold", "start"}, req : Asked,
            way : WayNames, cached : Nat, prompt : Prompted, cold : Nat, target : Nat,
            suppressed : (-1)..Ctx, batch : BOOLEAN]
Answering == [pc : {"decode", "finish"}, req : Asked, prompt : Prompted, raw : Texts,
              n : Nat, finish : {"none", "tool", "stop", "length", "error"}]

SessOK(s) == s \in Sessions /\ Len(s.toks) <= Ctx

DiskOK(d) ==
  \A t \in DOMAIN d : /\ t \in Texts /\ d[t] \in Payloads
                      /\ MinTokens <= Len(d[t].toks) /\ Len(d[t].toks) <= Ctx

\* A live state remembers a session that is not empty.
LiveOK(l) ==
  /\ l \in [LiveKinds -> LiveStates]
  /\ \A k \in LiveKinds : l[k].valid => l[k].pos = Len(l[k].of) /\ l[k].pos > 0

\* Every answer is one of a request that has ended.
SaidOK(ss, count, idle) ==
  /\ ss \in Seq(Transcripts) /\ count \in 0..MaxTurns
  /\ Len(ss) + (IF idle THEN 0 ELSE 1) <= count

\* A tool answer is that of a transcript, and its text is not empty.
ReqOK(q, ss) ==
  /\ q \in Asked
  /\ ~TailOnly => q.text = q.history
  /\ q.ids # {} => /\ q.tail # <<>>
                   /\ \E i \in DOMAIN ss : q.ids = {i} /\ q.history = ss[i].text \o q.tail

\* The session s while a prompt is evaluated and answered.
SyncOK(j, s) ==
  /\ j.target \in 1..Len(j.prompt) /\ j.cold \in 0..Len(j.prompt) /\ Len(j.prompt) < Ctx
  /\ j.pc = "prefill" => /\ Len(s.toks) < j.target
                         /\ s.toks = SubSeq(j.prompt, 1, Len(s.toks))
  /\ j.pc \in {"prefilled", "synced"} => s.toks = SubSeq(j.prompt, 1, j.target)
  /\ j.pc \in {"cold", "start"} => s.toks = j.prompt

AnswerOK(j, s) ==
  /\ Len(s.toks) > 0
  /\ j.pc = "decode" => Len(s.toks) < Ctx
  /\ j.pc = "decode" /\ j.n = 0 => s.toks = j.prompt /\ j.raw = <<>>

JobOK(j, s, ss) ==
  \/ j = Idle
  \/ /\ j \in Looking /\ ReqOK(j.req, ss)
     /\ j.pc \in {"evict", "load"} => j.way = "none" /\ j.cached = 0
  \/ j \in Syncing /\ ReqOK(j.req, ss) /\ SyncOK(j, s)
  \/ j \in Answering /\ ReqOK(j.req, ss) /\ AnswerOK(j, s)

TypeInv ==
  /\ SessOK(sess)
  /\ DiskOK(disk)
  /\ LiveOK(live)
  /\ last \in 0..Ctx /\ stop \in BOOLEAN
  /\ SaidOK(said, asked, job = Idle)
  /\ JobOK(job, sess, said)
-----------------------------------------------------------------------------
(* What can be continued.                                                  *)

LEMMA TokensLeft ==
  ASSUME Tokenizer, NEW text \in Texts, text # <<>>
  PROVE  Tokenize(text) \in Seq(Tokens) /\ Tokenize(text) # <<>>
BY RenderEmpty DEF Tokenizer

\* The tokens a sync keeps begin the prompt.
KeptBegins(p) ==
  /\ Kept(p) \in Seq(Tokens) /\ Len(Kept(p)) <= Len(p)
  /\ Kept(p) = SubSeq(p, 1, Len(Kept(p)))
  /\ Kept(p) # p => Len(Kept(p)) < Len(p)

LEMMA KeptPrefix ==
  ASSUME SessOK(sess), NEW p \in Seq(Tokens)
  PROVE  KeptBegins(p)
<1>1. sess.toks \in Seq(Tokens)
  BY DEF SessOK, Sessions
<1>2. PICK n \in 0..Len(sess.toks) :
        /\ n <= Len(p)
        /\ SubSeq(sess.toks, 1, n) = SubSeq(p, 1, n)
        /\ Len(LongestCommonPrefix({sess.toks, p})) = n
  BY <1>1, CommonIsPrefix
<1>3. CASE sess.valid /\ CommonPrefix(p) = Pos
  <2>1. n = Len(sess.toks) /\ Kept(p) = sess.toks
    BY <1>2, <1>3 DEF CommonPrefix, Pos, Kept
  <2>2. sess.toks = SubSeq(p, 1, Len(sess.toks))
    BY <1>1, <1>2, <2>1, SubSeqFull
  <2>3. sess.toks # p => Len(sess.toks) < Len(p)
    BY <1>1, <1>2, <2>1, <2>2, SubSeqFull
  <2> QED BY <1>1, <1>2, <2>1, <2>2, <2>3 DEF KeptBegins
<1>4. CASE ~(sess.valid /\ CommonPrefix(p) = Pos)
  <2>1. Kept(p) = <<>>
    BY <1>4 DEF Kept
  <2>2. <<>> = SubSeq(p, 1, 0) /\ Len(<<>>) = 0 /\ (<<>> # p => 0 < Len(p)) /\ 0 <= Len(p)
    OBVIOUS
  <2> QED BY <2>1, <2>2 DEF KeptBegins
<1> QED BY <1>3, <1>4

LEMMA ReusableTyped ==
  ASSUME SessOK(sess), NEW p \in Seq(Tokens)
  PROVE  ReusablePrefix(p) \in Nat /\ (ReusablePrefix(p) > 0 => p # <<>>)
<1>1. sess.toks \in Seq(Tokens)
  BY DEF SessOK, Sessions
<1>2. PICK n \in 0..Len(sess.toks) : n <= Len(p) /\ Len(LongestCommonPrefix({sess.toks, p})) = n
  BY <1>1, CommonIsPrefix
<1>3. CommonPrefix(p) \in Nat /\ CommonPrefix(p) <= Len(p)
  BY <1>2 DEF CommonPrefix
<1>4. ReusablePrefix(p) \in {0, CommonPrefix(p)}
  BY DEF ReusablePrefix
<1> QED BY <1>3, <1>4

\* A way to go on from the live session appends to it.
Appends(p) == \E x \in Written : p = sess.toks \o Tokenize(x)

LEMMA AppendsMore ==
  ASSUME Tokenizer, SessOK(sess), NEW p, Appends(p)
  PROVE  p \in Prompted /\ Len(p) > Pos
<1>1. PICK x \in Written : p = sess.toks \o Tokenize(x)
  BY DEF Appends
<1>2. Tokenize(x) \in Seq(Tokens) /\ Tokenize(x) # <<>>
  BY TokensLeft, PlainTexts DEF Written
<1>3. sess.toks \in Seq(Tokens)
  BY DEF SessOK, Sessions
<1> QED BY <1>1, <1>2, <1>3 DEF Prompted, Pos

\* What is tried before the disk.
WayOK(way, q) == way \in WayNames /\ (way # "none" => Usable(way, q))

LEMMA VisibleLeaves ==
  ASSUME LiveOK(live), NEW q \in Asked, NEW k \in LiveKinds, VisibleMatch(k, q)
  PROVE  /\ TextAfter(live[k].text, q.text) \in Written
         /\ q.text = live[k].text \o TextAfter(live[k].text, q.text)
<1>1. live[k].text \in Plain /\ q.text \in Plain
  BY DEF LiveOK, LiveStates, Asked, Written
<1>2. IsPrefix(live[k].text, q.text) /\ live[k].text # q.text
  BY DEF VisibleMatch, IsStrictPrefix
<1> QED BY <1>1, <1>2, PrefixSplit DEF Plain, Written

LEMMA LiveWays ==
  ASSUME LiveOK(live), NEW ss, NEW q, ReqOK(q, ss), NEW way \in {"visible", "ids", "thinking"},
         Usable(way, q)
  PROVE  Appends(EffectivePrompt(way, q))
<1>1. q \in Asked
  BY DEF ReqOK
<1>2. CASE way = "visible"
  <2>1. VisibleMatch("responses", q)
    BY <1>2 DEF Usable
  <2>2. TextAfter(live["responses"].text, q.text) \in Written
    BY <1>1, <2>1, VisibleLeaves DEF LiveKinds
  <2>3. EffectivePrompt(way, q) = sess.toks \o Tokenize(TextAfter(live["responses"].text, q.text))
    BY <1>2 DEF EffectivePrompt, Continue
  <2> QED BY <2>2, <2>3 DEF Appends
<1>3. CASE way = "thinking"
  <2>1. VisibleMatch("thinking", q)
    BY <1>3 DEF Usable
  <2>2. TextAfter(live["thinking"].text, q.text) \in Written
    BY <1>1, <2>1, VisibleLeaves DEF LiveKinds
  <2>3. EffectivePrompt(way, q) = sess.toks \o Tokenize(TextAfter(live["thinking"].text, q.text))
    BY <1>3 DEF EffectivePrompt, Continue
  <2> QED BY <2>2, <2>3 DEF Appends
<1>4. CASE way = "ids"
  <2>1. IdsMatch(q.api, q)
    BY <1>4 DEF Usable
  <2>2. q.tail \in Written
    BY <1>1, <2>1 DEF IdsMatch, ReqOK, Asked, Written
  <2>3. EffectivePrompt(way, q) = sess.toks \o Tokenize(q.tail)
    BY <1>4 DEF EffectivePrompt, Continue
  <2> QED BY <2>2, <2>3 DEF Appends
<1> QED BY <1>2, <1>3, <1>4

LEMMA PromptTyped ==
  ASSUME Tokenizer, SessOK(sess), LiveOK(live), NEW ss, NEW q, ReqOK(q, ss),
         NEW way, WayOK(way, q)
  PROVE  EffectivePrompt(way, q) \in Prompted
<1>1. q.text \in Written /\ q.text \in Texts
  BY PlainTexts DEF ReqOK, Asked, Written
<1>2. CASE way \in {"visible", "ids", "thinking"}
  <2>1. Usable(way, q)
    BY <1>2 DEF WayOK
  <2> QED BY <1>2, <2>1, LiveWays, AppendsMore
<1>3. CASE way \in {"tokens", "none"}
  <2>1. EffectivePrompt(way, q) = Tokenize(q.text)
    BY <1>3 DEF EffectivePrompt
  <2> QED BY <1>1, <2>1, TokensLeft DEF Prompted, Written
<1>4. CASE way = "text"
  <2>1. Pos > 0 /\ IsPrefix(Render(sess.toks), q.text)
    BY <1>4 DEF Usable, WayOK
  <2>2. sess.toks \in Seq(Tokens) /\ sess.toks # <<>>
    BY <2>1 DEF SessOK, Sessions, Pos
  <2>3. TextAfter(Render(sess.toks), q.text) \in Texts
    BY <1>1, <2>1, <2>2, RenderTyped, PrefixSplit DEF Texts
  <2>4. Tokenize(TextAfter(Render(sess.toks), q.text)) \in Seq(Tokens)
    BY <2>3 DEF Tokenizer
  <2>5. EffectivePrompt(way, q) = sess.toks \o Tokenize(TextAfter(Render(sess.toks), q.text))
    BY <1>4 DEF EffectivePrompt, Continue
  <2> QED BY <2>2, <2>4, <2>5 DEF Prompted
<1> QED BY <1>2, <1>3, <1>4 DEF WayOK, WayNames

CachedBy(way, q) ==
  CASE way = "none" -> 0
    [] way = "tokens" -> ReusablePrefix(Tokenize(q.text))
    [] OTHER -> Pos

Found(way, q) ==
  [pc |-> IF CachedBy(way, q) = 0 THEN "evict" ELSE "check", req |-> q, way |-> way,
   cached |-> CachedBy(way, q), prompt |-> EffectivePrompt(way, q)]

\* What Receive answers: the first way that is usable, if any.
Received(q) == \E way : WayOK(way, q) /\ job' = Found(way, q)

LEMMA ReceiveFinds ==
  ASSUME NEW r, NEW api, NEW tools, NEW greedy, Receive(r, api, tools, greedy)
  PROVE  Received([history |-> r.history, text |-> r.text, ids |-> r.ids, tail |-> r.tail,
                   api |-> api, tools |-> tools, greedy |-> greedy])
<1> DEFINE req == [history |-> r.history, text |-> r.text, ids |-> r.ids, tail |-> r.tail,
                   api |-> api, tools |-> tools, greedy |-> greedy]
           ways == {w \in 1..Len(Ways) : Usable(Ways[w], req)}
           way == IF ways = {} THEN "none" ELSE Ways[CHOOSE w \in ways : \A v \in ways : w <= v]
<1>1. Len(Ways) = 5 /\ \A w \in 1..5 : Ways[w] \in WayNames /\ Ways[w] # "none"
  BY DEF Ways, WayNames
<1>2. ways \subseteq 1..5
  BY <1>1
<1>3. r.text = req.text
  OBVIOUS
<1>4. job' = Found(way, req)
  BY <1>3 DEF Receive, Found, CachedBy
<1>5. CASE ways = {}
  BY <1>4, <1>5 DEF Received, WayOK, WayNames
<1>6. CASE ways # {}
  <2>3. \E w \in ways : \A u \in ways : w <= u
    <3>1. ways \subseteq Nat
      BY <1>2
    <3> HIDE DEF ways
    <3> QED BY <1>6, <3>1, Least
  <2> DEFINE w == CHOOSE w \in ways : \A u \in ways : w <= u
  <2>4. w \in ways
    <3> HIDE DEF ways
    <3> QED BY <2>3
  <2>5. way = Ways[w]
    BY <1>6
  <2>6. Usable(way, req) /\ way \in WayNames /\ way # "none"
    <3>1. w \in 1..5 /\ Usable(Ways[w], req)
      BY <1>2, <2>4
    <3> HIDE DEF w, req
    <3> QED BY <1>1, <2>5, <3>1
  <2>7. Received(req)
    <3> HIDE DEF way, ways, req
    <3> QED BY <1>4, <2>6 DEF Received, WayOK
  <2> QED BY <2>7
<1> QED BY <1>5, <1>6

LEMMA WrittenMore ==
  ASSUME NEW a \in Written, NEW b \in Plain
  PROVE  a \o b \in Written
BY DEF Written, Plain

\* A client asks what it has the text for.
LEMMA RequestTyped ==
  ASSUME NEW count, NEW idle, SaidOK(said, count, idle), NEW r \in Requests
  PROVE  /\ r.history \in Written /\ r.text \in Written /\ r.ids \in SUBSET Nat /\ r.tail \in Plain
         /\ ~TailOnly => r.text = r.history
         /\ r.ids # {} => /\ r.tail # <<>>
                          /\ \E i \in DOMAIN said : /\ r.ids = {i}
                                                    /\ r.history = said[i].text \o r.tail
<1>1. /\ Prompts \subseteq Written /\ Turns \subseteq Plain /\ ToolResult \in Written
      /\ <<>> \in Plain /\ Written \subseteq Plain
  BY GenerationAssumption DEF Plain, Written
<1>2. DOMAIN said \subseteq Nat /\ \A i \in DOMAIN said : said[i].text \in Written
  <2>1. said \in Seq(Transcripts)
    BY DEF SaidOK
  <2>2. DOMAIN said = 1..Len(said) /\ \A i \in 1..Len(said) : said[i] \in Transcripts
    BY <2>1
  <2> QED BY <2>1, <2>2 DEF Transcripts
<1>3. CASE \E p \in Prompts : r = [history |-> p, text |-> p, ids |-> {}, tail |-> <<>>]
  BY <1>1, <1>3
<1>4. CASE \E i \in DOMAIN said, u \in Turns :
             r = [history |-> said[i].text \o u, text |-> said[i].text \o u,
                  ids |-> {}, tail |-> <<>>]
  <2>1. PICK i \in DOMAIN said, u \in Turns :
             r = [history |-> said[i].text \o u, text |-> said[i].text \o u,
                  ids |-> {}, tail |-> <<>>]
    BY <1>4
  <2>2. said[i].text \o u \in Written
    BY <1>1, <1>2, WrittenMore
  <2> QED BY <1>1, <2>1, <2>2
<1>5. CASE \E i \in DOMAIN said :
             \E t \in IF TailOnly THEN {ToolResult} ELSE {said[i].text \o ToolResult} :
               r = [history |-> said[i].text \o ToolResult, text |-> t, ids |-> {i},
                    tail |-> ToolResult]
  <2>1. PICK i \in DOMAIN said :
             \E t \in IF TailOnly THEN {ToolResult} ELSE {said[i].text \o ToolResult} :
               r = [history |-> said[i].text \o ToolResult, text |-> t, ids |-> {i},
                    tail |-> ToolResult]
    BY <1>5
  <2>2. said[i].text \o ToolResult \in Written
    BY <1>1, <1>2, WrittenMore
  <2>3. {i} \in SUBSET Nat
    BY <1>2
  <2>4. /\ r.history = said[i].text \o ToolResult /\ r.ids = {i} /\ r.tail = ToolResult
        /\ r.text \in {ToolResult, r.history} /\ (~TailOnly => r.text = r.history)
    BY <2>1
  <2>5. ToolResult # <<>>
    BY <1>1 DEF Written
  <2> QED BY <1>1, <2>2, <2>3, <2>4, <2>5
<1>6. \/ \E p \in Prompts : r = [history |-> p, text |-> p, ids |-> {}, tail |-> <<>>]
      \/ \E i \in DOMAIN said, u \in Turns :
           r = [history |-> said[i].text \o u, text |-> said[i].text \o u,
                ids |-> {}, tail |-> <<>>]
      \/ \E i \in DOMAIN said :
           \E t \in IF TailOnly THEN {ToolResult} ELSE {said[i].text \o ToolResult} :
             r = [history |-> said[i].text \o ToolResult, text |-> t, ids |-> {i},
                  tail |-> ToolResult]
  BY DEF Requests
<1> QED BY <1>3, <1>4, <1>5, <1>6

\* The request in the words of the invariant.
Receiving(q) == ReqOK(q, said) /\ Received(q)

LEMMA ReceiveTyped ==
  ASSUME TypeInv, NEW r \in Requests, NEW api \in Apis, NEW tools \in Tools,
         NEW greedy \in Greedy, Receive(r, api, tools, greedy)
  PROVE  \E q : Receiving(q)
<1> DEFINE q == [history |-> r.history, text |-> r.text, ids |-> r.ids, tail |-> r.tail,
                 api |-> api, tools |-> tools, greedy |-> greedy]
<1>1. Received(q)
  BY ReceiveFinds
<1>2. SaidOK(said, asked, job = Idle)
  BY DEF TypeInv
<1>3. /\ r.history \in Written /\ r.text \in Written /\ r.ids \in SUBSET Nat /\ r.tail \in Plain
      /\ ~TailOnly => r.text = r.history
      /\ r.ids # {} => /\ r.tail # <<>>
                       /\ \E i \in DOMAIN said : /\ r.ids = {i}
                                                 /\ r.history = said[i].text \o r.tail
  BY <1>2, RequestTyped
<1>4. ReqOK(q, said)
  <2>1. q \in Asked
    BY <1>3 DEF Asked
  <2> QED BY <1>3, <2>1 DEF ReqOK
<1> HIDE DEF q
<1> QED BY <1>1, <1>4 DEF Receiving

LEMMA CachedTyped ==
  ASSUME Tokenizer, SessOK(sess), NEW ss, NEW q, ReqOK(q, ss), NEW way, WayOK(way, q)
  PROVE  /\ CachedBy(way, q) \in Nat
         /\ CachedBy(way, q) = 0 => way \in {"none", "ids"}
         /\ CachedBy(way, q) = 0 => Pos = 0 \/ way = "none"
         /\ way = "none" => CachedBy(way, q) = 0
<1>1. Pos \in Nat
  BY DEF SessOK, Sessions, Pos
<1>2. q.text \in Texts
  BY PlainTexts DEF ReqOK, Asked, Written
<1>3. Tokenize(q.text) \in Seq(Tokens)
  BY <1>2 DEF Tokenizer
<1>4. ReusablePrefix(Tokenize(q.text)) \in Nat
  BY <1>3, ReusableTyped
<1>5. CASE way = "none"
  BY <1>5 DEF CachedBy
<1>6. CASE way = "tokens"
  <2>1. ReusablePrefix(Tokenize(q.text)) > 0
    BY <1>6 DEF WayOK, Usable
  <2>2. CachedBy(way, q) = ReusablePrefix(Tokenize(q.text))
    BY <1>6 DEF CachedBy
  <2> QED BY <1>4, <1>6, <2>1, <2>2
<1>7. CASE way \in {"visible", "thinking", "text"}
  <2>1. Pos > 0
    BY <1>7 DEF WayOK, Usable, VisibleMatch
  <2>2. CachedBy(way, q) = Pos
    BY <1>7 DEF CachedBy
  <2> QED BY <1>1, <1>7, <2>1, <2>2
<1>8. CASE way = "ids"
  <2>1. CachedBy(way, q) = Pos
    BY <1>8 DEF CachedBy
  <2> QED BY <1>1, <1>8, <2>1
<1> QED BY <1>5, <1>6, <1>7, <1>8 DEF WayOK, WayNames

\* An id is only matched where the session is not empty.
LEMMA IdsCached ==
  ASSUME SessOK(sess), LiveOK(live), NEW q, Usable("ids", q)
  PROVE  Pos > 0
<1>1. q.api \in LiveKinds /\ live[q.api].valid /\ live[q.api].pos = Pos
  BY DEF Usable, IdsMatch, LiveKinds
<1> QED BY <1>1 DEF LiveOK
-----------------------------------------------------------------------------
(* What the actions do to the types.                                       *)

\* A store leaves what was there and, under its text, the session.
Filed(d, text, s) ==
  \A t \in DOMAIN d :
    \/ t \in DOMAIN disk /\ d[t] = disk[t]
    \/ /\ t = text /\ s.valid /\ Len(s.toks) >= MinTokens
       /\ d[t] = [toks |-> s.toks, logits |-> s.logits]

LEMMA Outcomes ==
  ASSUME NEW s \in Sessions, NEW text, NEW out \in StoreOutcomes(text, s)
  PROVE  Filed(out.files, text, s) /\ out.ok \in BOOLEAN
<1> DEFINE filed(names) == [t \in names \cup {text} |-> IF t = text
                                                      THEN [toks |-> s.toks, logits |-> s.logits]
                                                      ELSE disk[t]]
           sets == IF "disk" \in Faults THEN SUBSET DOMAIN disk ELSE {DOMAIN disk}
<1>1. Len(s.toks) \in Nat /\ MinTokens \in Nat
  BY GenerationAssumption DEF Sessions
<1>2. Filed(disk, text, s)
  BY DEF Filed
<1>3. ASSUME s.valid, Len(s.toks) >= MinTokens, NEW names \in sets
      PROVE  Filed(filed(names), text, s)
  <2>1. names \subseteq DOMAIN disk
    OBVIOUS
  <2> QED BY <1>3, <2>1 DEF Filed
<1>4. \/ out.files = disk /\ out.ok \in BOOLEAN
      \/ /\ s.valid /\ ~(Len(s.toks) < MinTokens)
         /\ \E names \in sets : out.files = filed(names)
         /\ out.ok = TRUE
  BY DEF StoreOutcomes
<1> HIDE DEF filed, sets
<1>5. CASE out.files = disk /\ out.ok \in BOOLEAN
  BY <1>2, <1>5
<1>6. CASE /\ s.valid /\ ~(Len(s.toks) < MinTokens)
           /\ \E names \in sets : out.files = filed(names)
           /\ out.ok = TRUE
  <2>1. PICK names \in sets : out.files = filed(names)
    BY <1>6
  <2>2. s.valid /\ Len(s.toks) >= MinTokens
    BY <1>1, <1>6
  <2>3. Filed(filed(names), text, s)
    BY <1>3, <2>2
  <2> QED BY <1>6, <2>1, <2>3
<1> QED BY <1>4, <1>5, <1>6

LEMMA FiledTyped ==
  ASSUME DiskOK(disk), NEW s, SessOK(s), NEW text \in Texts, NEW d, Filed(d, text, s)
  PROVE  DiskOK(d)
<1> SUFFICES ASSUME NEW t \in DOMAIN d
             PROVE  /\ t \in Texts /\ d[t] \in Payloads
                    /\ MinTokens <= Len(d[t].toks) /\ Len(d[t].toks) <= Ctx
  BY DEF DiskOK
<1>1. CASE t \in DOMAIN disk /\ d[t] = disk[t]
  BY <1>1 DEF DiskOK
<1>2. CASE /\ t = text /\ Len(s.toks) >= MinTokens
           /\ d[t] = [toks |-> s.toks, logits |-> s.logits]
  <2>1. d[t] \in Payloads /\ d[t].toks = s.toks
    BY <1>2 DEF SessOK, Sessions, Payloads
  <2>2. MinTokens \in Nat /\ Len(s.toks) \in Nat
    BY GenerationAssumption DEF SessOK, Sessions
  <2> QED BY <1>2, <2>1, <2>2 DEF SessOK
<1> QED BY <1>1, <1>2 DEF Filed

LEMMA ContinuedFiled ==
  ASSUME NEW s \in Sessions, MaybeStoreContinued(s)
  PROVE  Filed(disk', Render(s.toks), s) /\ last' \in {last, Len(s.toks)}
<1>1. CASE ContinuedTarget(Len(s.toks), last)
  <2>1. PICK out \in StoreOutcomes(Render(s.toks), s) :
           disk' = out.files /\ last' = IF out.ok THEN Len(s.toks) ELSE last
    BY <1>1 DEF MaybeStoreContinued
  <2> QED BY <2>1, Outcomes
<1>2. CASE ~ContinuedTarget(Len(s.toks), last)
  BY <1>2 DEF MaybeStoreContinued, Filed
<1> QED BY <1>1, <1>2

LEMMA CurrentTyped ==
  ASSUME SessOK(sess), LiveOK(live)
  PROVE  CurrentText \in Texts
<1>1. Render(sess.toks) \in Texts
  BY RenderTyped DEF SessOK, Sessions
<1>2. live["responses"].text \in Texts /\ live["thinking"].text \in Texts
  BY PlainTexts DEF LiveOK, LiveStates, LiveKinds
<1> QED BY <1>1, <1>2 DEF CurrentText

LEMMA SubSub ==
  ASSUME NEW S, NEW p \in Seq(S), NEW n \in 0..Len(p), NEW k \in 0..n
  PROVE  /\ SubSeq(p, 1, n) \in Seq(S) /\ Len(SubSeq(p, 1, n)) = n
         /\ SubSeq(SubSeq(p, 1, n), 1, k) = SubSeq(p, 1, k)
<1> DEFINE a == SubSeq(p, 1, n)
           b == SubSeq(a, 1, k)
           c == SubSeq(p, 1, k)
<1>1. a \in Seq(S) /\ Len(a) = n /\ \A i \in 1..n : a[i] = p[i]
  OBVIOUS
<1>2. c \in Seq(S) /\ Len(c) = k /\ \A i \in 1..k : c[i] = p[i]
  OBVIOUS
<1>3. b \in Seq(S) /\ Len(b) = k /\ \A i \in 1..k : b[i] = a[i]
  <2> HIDE DEF a
  <2> QED BY <1>1
<1> HIDE DEF a, b, c
<1>4. b = c
  BY <1>1, <1>2, <1>3, SeqEqual
<1> QED BY <1>1, <1>4 DEF a, b, c

LEMMA StopPosTyped ==
  ASSUME NEW raw \in Texts
  PROVE  StopPos(raw) \in 0..Len(raw)
<1> DEFINE stops  == IF job.req.api \in StopApis THEN Stops ELSE {}
           starts == {i \in 1..Len(raw) : \E x \in stops : IsPrefix(x, SubSeq(raw, i, Len(raw)))}
           first == CHOOSE i \in starts : \A k \in starts : i <= k
<1>1. StopPos(raw) = IF starts = {} THEN 0 ELSE first
  BY DEF StopPos
<1>2. starts \subseteq 1..Len(raw) /\ Len(raw) \in Nat
  BY DEF Texts
<1> HIDE DEF starts
<1>3. CASE starts = {}
  BY <1>1, <1>2, <1>3
<1>4. CASE starts # {}
  <2>1. starts \subseteq Nat
    BY <1>2
  <2>2. \E i \in starts : \A k \in starts : i <= k
    BY <1>4, <2>1, Least
  <2>3. first \in starts
    BY <2>2
  <2> HIDE DEF first
  <2> QED BY <1>1, <1>2, <1>4, <2>3
<1> QED BY <1>3, <1>4

\* The forms of a job.
LEMMA JobForms ==
  ASSUME NEW j, NEW s, NEW ss, JobOK(j, s, ss)
  PROVE  /\ (j.pc = "idle") <=> (j = Idle)
         /\ j.pc \in {"evict", "load", "check"} =>
              /\ j \in Looking /\ ReqOK(j.req, ss)
              /\ j.pc \in {"evict", "load"} => j.way = "none" /\ j.cached = 0
         /\ j.pc \in {"sync", "prefill", "prefilled", "synced", "cold", "start"} =>
              j \in Syncing /\ ReqOK(j.req, ss) /\ SyncOK(j, s)
         /\ j.pc \in {"decode", "finish"} =>
              j \in Answering /\ ReqOK(j.req, ss) /\ AnswerOK(j, s)
BY DEF JobOK, Idle, Looking, Syncing, Answering

LEMMA SaidStays ==
  ASSUME SaidOK(said, asked, job = Idle), job # Idle, UNCHANGED <<said, asked>>, NEW idle
  PROVE  SaidOK(said', asked', idle)
BY DEF SaidOK

LEMMA BoundaryTyped ==
  ASSUME NEW n \in Nat
  PROVE  NextBoundary(n) \in Nat
<1>1. Chunk \in Nat \ {0}
  BY GenerationAssumption
<1>2. n \div Chunk \in Nat
  BY <1>1
<1> DEFINE q == n \div Chunk + 1
<1>3. q \in Nat
  BY <1>2
<1> HIDE DEF q
<1>4. q * Chunk \in Nat
  BY <1>1, <1>3
<1> QED BY <1>4 DEF NextBoundary, q

LEMMA RestoredTyped ==
  ASSUME last \in 0..Ctx, job \in Syncing
  PROVE  Restored \in 0..Ctx
BY DEF Restored, Syncing
-----------------------------------------------------------------------------
(* The types are kept, action by action.                                   *)

LEMMA InitTyped == Init => TypeInv
<1> SUFFICES ASSUME Init PROVE TypeInv
  OBVIOUS
<1>1. Ctx \in Nat /\ MaxTurns \in Nat
  BY GenerationAssumption
<1>2. SessOK(sess)
  BY <1>1 DEF Init, EmptySession, SessOK, Sessions
<1>3. DiskOK(disk)
  BY DEF Init, DiskOK
<1>4. LiveOK(live)
  BY <1>1 DEF Init, LiveOK, LiveStates, Forgotten, Plain
<1>5. SaidOK(said, asked, job = Idle)
  BY <1>1 DEF Init, SaidOK
<1>6. last \in 0..Ctx
  BY <1>1 DEF Init
<1>7. stop \in BOOLEAN /\ job = Idle
  BY Zenon DEF Init
<1> QED BY <1>2, <1>3, <1>4, <1>5, <1>6, <1>7 DEF TypeInv, JobOK

LEMMA ReceiveKeeps ==
  ASSUME Tokenizer, TypeInv, NEW r \in Requests, NEW api \in Apis, NEW tools \in Tools,
         NEW greedy \in Greedy, Receive(r, api, tools, greedy)
  PROVE  TypeInv'
<1>1. PICK q : Receiving(q)
  BY ReceiveTyped
<1>2. PICK way : WayOK(way, q) /\ job' = Found(way, q)
  BY <1>1 DEF Receiving, Received
<1>3. ReqOK(q, said) /\ SessOK(sess) /\ LiveOK(live)
  BY <1>1 DEF Receiving, TypeInv
<1>4. /\ CachedBy(way, q) \in Nat
      /\ CachedBy(way, q) = 0 => way \in {"none", "ids"} /\ (Pos = 0 \/ way = "none")
  BY <1>2, <1>3, CachedTyped
<1>5. CachedBy(way, q) = 0 => way = "none"
  <2>1. way = "ids" => Pos > 0
    BY <1>2, <1>3, IdsCached DEF WayOK
  <2> QED BY <1>4, <2>1
<1>6. EffectivePrompt(way, q) \in Prompted
  BY <1>2, <1>3, PromptTyped
<1>7. /\ job' \in Looking /\ (job').req = q
      /\ (job').pc \in {"evict", "load"} => (job').way = "none" /\ (job').cached = 0
  BY <1>2, <1>3, <1>4, <1>5, <1>6 DEF Found, Looking, WayOK, ReqOK
<1>8. UNCHANGED <<sess, live, last, disk, stop, said>> /\ asked' = asked + 1 /\ asked < MaxTurns
  BY DEF Receive
<1>9. job = Idle /\ job' # Idle
  <2>1. job.pc = "idle"
    BY DEF Receive
  <2> QED BY <1>7, <2>1, JobForms DEF TypeInv, Looking, Idle
<1>10. SaidOK(said', asked', job' = Idle)
  <2>1. SaidOK(said, asked, TRUE)
    BY <1>9 DEF TypeInv
  <2> QED BY <1>8, <1>9, <2>1, GenerationAssumption DEF SaidOK
<1>11. JobOK(job', sess', said')
  BY <1>3, <1>7, <1>8 DEF JobOK
<1> QED BY <1>8, <1>10, <1>11 DEF TypeInv

LEMMA EvictKeeps ==
  ASSUME TypeInv, EvictStore
  PROVE  TypeInv' /\ Filed(disk', CurrentText, sess)
<1>1. job \in Looking /\ ReqOK(job.req, said) /\ job.way = "none" /\ job.cached = 0
  BY JobForms DEF TypeInv, EvictStore
<1>2. /\ job' = [job EXCEPT !.pc = "load"] /\ UNCHANGED <<sess, live, last, stop, said, asked>>
  BY DEF EvictStore
<1>3. /\ job' \in Looking /\ (job').req = job.req /\ (job').way = "none" /\ (job').cached = 0
      /\ (job').pc = "load"
  BY <1>1, <1>2 DEF Looking
<1>4. Filed(disk', CurrentText, sess)
  <2>1. CASE UNCHANGED disk
    BY <2>1 DEF Filed
  <2>2. CASE \E out \in StoreOutcomes(CurrentText, sess) : disk' = out.files
    BY <2>2, Outcomes DEF TypeInv, SessOK
  <2> QED BY <2>1, <2>2 DEF EvictStore
<1>5. DiskOK(disk')
  BY <1>4, FiledTyped, CurrentTyped DEF TypeInv
<1>6. SaidOK(said', asked', job' = Idle)
  <2>1. job # Idle
    BY <1>1 DEF Looking, Idle
  <2> QED BY <1>2, <2>1, SaidStays DEF TypeInv
<1>7. JobOK(job', sess', said')
  BY <1>1, <1>2, <1>3 DEF JobOK
<1> QED BY <1>2, <1>4, <1>5, <1>6, <1>7 DEF TypeInv

\* What a hit puts in place: the longest file in front of the text.
Loaded(t) ==
  /\ t \in DOMAIN disk /\ IsPrefix(t, job.req.text)
  /\ sess' = [toks |-> disk[t].toks, valid |-> TRUE, logits |-> disk[t].logits]
  /\ last' = Len(disk[t].toks)
  /\ \A u \in DOMAIN disk' : u \in DOMAIN disk /\ (disk')[u] = disk[u]
  /\ job' = [job EXCEPT !.pc = "check", !.cached = Len(disk[t].toks),
                !.prompt = disk[t].toks \o Tokenize(TextAfter(t, job.req.text))]
  /\ UNCHANGED <<live, stop, said, asked>>

LEMMA HitLoads ==
  ASSUME LoadHit
  PROVE  job.pc = "load" /\ \E t : Loaded(t)
<1>1. PICK t \in Candidates(job.req.text) :
          /\ sess' = [toks |-> disk[t].toks, valid |-> TRUE, logits |-> disk[t].logits]
          /\ last' = Len(disk[t].toks)
          /\ disk' = IF ColdMaxTokens > 0 /\ Len(disk[t].toks) > ColdMaxTokens
                     THEN Restrict(disk, DOMAIN disk \ {t}) ELSE disk
          /\ job' = [job EXCEPT !.pc = "check", !.cached = Len(disk[t].toks),
                        !.prompt = disk[t].toks \o Tokenize(TextAfter(t, job.req.text))]
  BY DEF LoadHit
<1>2. \A u \in DOMAIN disk' : u \in DOMAIN disk /\ (disk')[u] = disk[u]
  BY <1>1 DEF Restrict
<1>3. t \in DOMAIN disk /\ IsPrefix(t, job.req.text)
  BY DEF Candidates
<1>4. job.pc = "load" /\ UNCHANGED <<live, stop, said, asked>>
  BY DEF LoadHit
<1> QED BY <1>1, <1>2, <1>3, <1>4 DEF Loaded

LEMMA FewerFiles ==
  ASSUME DiskOK(disk), NEW d, \A u \in DOMAIN d : u \in DOMAIN disk /\ d[u] = disk[u]
  PROVE  DiskOK(d)
BY DEF DiskOK

LEMMA LoadHitKeeps ==
  ASSUME Tokenizer, TypeInv, LoadHit
  PROVE  TypeInv'
<1>1. job.pc = "load" /\ \E t : Loaded(t)
  BY HitLoads
<1>2. PICK t : Loaded(t)
  BY <1>1
<1>3. job \in Looking /\ ReqOK(job.req, said)
  BY <1>1, JobForms DEF TypeInv
<1>4. /\ t \in Texts /\ disk[t].toks \in Seq(Tokens) /\ disk[t].logits \in Seq(Tokens)
      /\ MinTokens <= Len(disk[t].toks) /\ Len(disk[t].toks) <= Ctx
      /\ MinTokens \in Nat \ {0} /\ Ctx \in Nat
  BY <1>2, GenerationAssumption DEF Loaded, TypeInv, DiskOK, Payloads
<1>5. Tokenize(TextAfter(t, job.req.text)) \in Seq(Tokens)
  <2>1. job.req.text \in Texts /\ IsPrefix(t, job.req.text)
    BY <1>2, <1>3, PlainTexts DEF Loaded, Looking, Asked, Written
  <2>2. TextAfter(t, job.req.text) \in Texts
    BY <1>4, <2>1, PrefixSplit DEF Texts
  <2> QED BY <2>2 DEF Tokenizer
<1>6. disk[t].toks \o Tokenize(TextAfter(t, job.req.text)) \in Prompted
  BY <1>4, <1>5 DEF Prompted
<1>7. job' \in Looking /\ (job').pc = "check" /\ (job').req = job.req
  <2>1. PICK p : p = disk[t].toks \o Tokenize(TextAfter(t, job.req.text))
    OBVIOUS
  <2>2. PICK n : n = Len(disk[t].toks)
    OBVIOUS
  <2>3. job' = [job EXCEPT !.pc = "check", !.cached = n, !.prompt = p]
    BY <1>2, <2>1, <2>2 DEF Loaded
  <2>4. p \in Prompted /\ n \in Nat
    BY <1>4, <1>6, <2>1, <2>2
  <2> QED BY <1>3, <2>3, <2>4 DEF Looking
<1>8. SessOK(sess') /\ last' \in 0..Ctx
  BY <1>2, <1>4 DEF Loaded, SessOK, Sessions
<1>9. DiskOK(disk')
  BY <1>2, FewerFiles DEF Loaded, TypeInv
<1>10. UNCHANGED <<live, stop, said, asked>>
  BY <1>2 DEF Loaded
<1>11. SaidOK(said', asked', job' = Idle)
  <2>1. job # Idle
    BY <1>3 DEF Looking, Idle
  <2> QED BY <1>10, <2>1, SaidStays DEF TypeInv
<1>12. JobOK(job', sess', said')
  BY <1>3, <1>7, <1>10 DEF JobOK
<1> QED BY <1>8, <1>9, <1>10, <1>11, <1>12 DEF TypeInv

LEMMA MissLeaves ==
  ASSUME LoadMiss
  PROVE  /\ job.pc = "load" /\ job' = [job EXCEPT !.pc = "check"]
         /\ sess' \in {sess, EmptySession}
         /\ \A u \in DOMAIN disk' : u \in DOMAIN disk /\ (disk')[u] = disk[u]
         /\ UNCHANGED <<live, last, stop, said, asked>>
BY DEF LoadMiss, Restrict

LEMMA LoadMissKeeps ==
  ASSUME TypeInv, LoadMiss
  PROVE  TypeInv'
<1>1. job \in Looking /\ ReqOK(job.req, said)
  BY MissLeaves, JobForms DEF TypeInv
<1>2. job' \in Looking /\ (job').pc = "check" /\ (job').req = job.req
  BY <1>1, MissLeaves DEF Looking
<1>3. SessOK(sess')
  <2>1. SessOK(EmptySession)
    BY GenerationAssumption DEF EmptySession, SessOK, Sessions
  <2> QED BY <2>1, MissLeaves DEF TypeInv
<1>4. DiskOK(disk')
  BY MissLeaves, FewerFiles DEF TypeInv
<1>5. SaidOK(said', asked', job' = Idle)
  <2>1. job # Idle
    BY <1>1 DEF Looking, Idle
  <2> QED BY <2>1, MissLeaves, SaidStays DEF TypeInv
<1>6. JobOK(job', sess', said')
  BY <1>1, <1>2, MissLeaves DEF JobOK
<1> QED BY <1>3, <1>4, <1>5, <1>6, MissLeaves DEF TypeInv

LEMMA CheckKeeps ==
  ASSUME TypeInv, CheckContext
  PROVE  TypeInv'
<1>1. job.pc = "check" /\ UNCHANGED <<sess, live, disk, stop, said, asked>>
  BY DEF CheckContext
<1>2. job \in Looking /\ ReqOK(job.req, said)
  BY <1>1, JobForms DEF TypeInv
<1>3. SaidOK(said', asked', job' = Idle)
  <2>1. job # Idle
    BY <1>2 DEF Looking, Idle
  <2> QED BY <1>1, <2>1, SaidStays DEF TypeInv
<1>4. job.prompt \in Prompted /\ Len(job.prompt) \in Nat \ {0}
  <2>1. job.prompt \in Prompted
    BY <1>2 DEF Looking
  <2> QED BY <2>1 DEF Prompted
<1>5. last' \in 0..Ctx /\ JobOK(job', sess', said')
  <2>1. CASE Len(job.prompt) >= Ctx
    BY <2>1 DEF CheckContext, TypeInv, JobOK
  <2>2. CASE ~(Len(job.prompt) >= Ctx)
    <3>1. PICK cold \in ColdLengths :
            LET suppress == cold > 0 /\ ContinuedTarget(cold, last)
            IN  /\ last' = IF suppress THEN cold ELSE last
                /\ job' = [pc |-> "sync", req |-> job.req, way |-> job.way,
                           cached |-> job.cached, prompt |-> job.prompt, cold |-> cold,
                           target |-> IF cold > 0 THEN cold ELSE Len(job.prompt),
                           suppressed |-> IF suppress THEN last ELSE -1,
                           batch |-> FALSE]
      BY <2>2 DEF CheckContext
    <3>2. cold \in 0..Len(job.prompt)
      BY <1>4, GenerationAssumption DEF ColdLengths
    <3>3. Len(job.prompt) < Ctx /\ Ctx \in Nat
      BY <1>4, <2>2, GenerationAssumption
    <3>4. last \in 0..Ctx
      BY DEF TypeInv
    <3>5. last' \in 0..Ctx
      BY <3>1, <3>2, <3>3, <3>4
    <3>6. job' \in Syncing /\ (job').req = job.req
      BY <1>2, <1>4, <3>1, <3>2, <3>3, <3>4 DEF Syncing, Looking
    <3>7. SyncOK(job', sess')
      BY <1>4, <3>1, <3>2, <3>3 DEF SyncOK
    <3> QED BY <1>1, <1>2, <3>5, <3>6, <3>7 DEF JobOK
  <2> QED BY <2>1, <2>2
<1> QED BY <1>1, <1>3, <1>5 DEF TypeInv

\* The facts about a sync that every step of it needs.
SyncFacts ==
  /\ job \in Syncing /\ ReqOK(job.req, said) /\ SyncOK(job, sess) /\ job # Idle
  /\ job.prompt \in Seq(Tokens) /\ Len(job.prompt) \in Nat \ {0}
  /\ job.target \in 1..Len(job.prompt) /\ Len(job.prompt) < Ctx
  /\ Target \in Seq(Tokens) /\ Len(Target) = job.target
  /\ sess \in Sessions /\ sess.toks \in Seq(Tokens) /\ Len(sess.toks) <= Ctx
  /\ Ctx \in Nat /\ last \in 0..Ctx

LEMMA InSync ==
  ASSUME TypeInv, job.pc \in {"sync", "prefill", "prefilled", "synced", "cold", "start"}
  PROVE  SyncFacts
<1>1. job \in Syncing /\ ReqOK(job.req, said) /\ SyncOK(job, sess)
  BY JobForms DEF TypeInv
<1>2. job # Idle
  BY <1>1 DEF Syncing, Idle
<1>3. job.prompt \in Seq(Tokens) /\ Len(job.prompt) \in Nat \ {0}
  BY <1>1 DEF Syncing, Prompted
<1>4. job.target \in 1..Len(job.prompt) /\ Len(job.prompt) < Ctx
  BY <1>1 DEF SyncOK
<1>5. Target \in Seq(Tokens) /\ Len(Target) = job.target
  BY <1>3, <1>4, SubSub DEF Target
<1>6. sess \in Sessions /\ sess.toks \in Seq(Tokens) /\ Len(sess.toks) <= Ctx
  BY DEF TypeInv, SessOK, Sessions
<1>7. Ctx \in Nat /\ last \in 0..Ctx
  BY GenerationAssumption DEF TypeInv
<1> QED BY <1>1, <1>2, <1>3, <1>4, <1>5, <1>6, <1>7 DEF SyncFacts

\* The beginning of a sync, which prefills in chunks if b.
Begins(b) ==
  /\ b \in BOOLEAN /\ job.pc = "sync"
  /\ sess' = [sess EXCEPT !.toks = Kept(Target), !.valid = TRUE]
  /\ job' = [job EXCEPT !.pc = IF Kept(Target) = Target THEN "synced" ELSE "prefill",
                        !.batch = b]
  /\ MaybeStoreContinued(sess') \/ UNCHANGED <<disk, last>>
  /\ UNCHANGED <<live, stop, said, asked>>

LEMMA BeginSteps ==
  ASSUME BeginSync
  PROVE  \E b : Begins(b)
<1>1. PICK b \in BOOLEAN : b = (Backend = "cuda" /\ job.target - Len(Kept(Target)) >= ResumeMin)
  OBVIOUS
<1>2. Begins(b)
  BY <1>1 DEF BeginSync, Begins
<1> QED BY <1>2

LEMMA BeginKeeps ==
  ASSUME TypeInv, BeginSync
  PROVE  TypeInv' /\ Filed(disk', Render((sess').toks), sess')
<1>8. PICK b : Begins(b)
  BY BeginSteps
<1>1. /\ job.pc = "sync" /\ UNCHANGED <<live, stop, said, asked>>
      /\ sess' = [sess EXCEPT !.toks = Kept(Target), !.valid = TRUE]
  BY <1>8 DEF Begins
<1>2. SyncFacts
  BY <1>1, InSync
<1>3. KeptBegins(Target)
  BY <1>2, KeptPrefix DEF SyncFacts, TypeInv
<1>4. PICK k : k = Kept(Target)
  OBVIOUS
<1>5. /\ k \in Seq(Tokens) /\ Len(k) <= Len(Target) /\ k = SubSeq(Target, 1, Len(k))
      /\ k # Target => Len(k) < Len(Target)
  BY <1>3, <1>4 DEF KeptBegins
<1>6. k = SubSeq(job.prompt, 1, Len(k)) /\ Len(k) \in 0..job.target
  <2>1. Len(k) \in 0..job.target /\ job.target \in 0..Len(job.prompt)
    BY <1>2, <1>5 DEF SyncFacts
  <2>2. SubSeq(SubSeq(job.prompt, 1, job.target), 1, Len(k)) = SubSeq(job.prompt, 1, Len(k))
    BY <1>2, <2>1, SubSub DEF SyncFacts
  <2> QED BY <1>5, <2>1, <2>2 DEF Target
<1>7. SessOK(sess') /\ (sess').toks = k
  <2>1. sess' = [sess EXCEPT !.toks = k, !.valid = TRUE]
    BY <1>1, <1>4
  <2>2. sess \in Sessions /\ Len(k) <= Ctx
    BY <1>2, <1>6 DEF SyncFacts
  <2> QED BY <1>5, <2>1, <2>2 DEF SessOK, Sessions
<1>9. job' = [job EXCEPT !.pc = IF k = Target THEN "synced" ELSE "prefill", !.batch = b]
      /\ b \in BOOLEAN
  BY <1>4, <1>8 DEF Begins
<1>10. /\ job' \in Syncing /\ (job').req = job.req /\ (job').prompt = job.prompt
       /\ (job').target = job.target /\ (job').cold = job.cold
       /\ (job').pc = IF k = Target THEN "synced" ELSE "prefill"
  BY <1>2, <1>9 DEF SyncFacts, Syncing
<1>11. SyncOK(job', sess')
  BY <1>2, <1>5, <1>6, <1>7, <1>10 DEF SyncFacts, SyncOK, Target
<1>12. JobOK(job', sess', said')
  BY <1>1, <1>2, <1>10, <1>11 DEF JobOK, SyncFacts
<1>13. SaidOK(said', asked', job' = Idle)
  BY <1>1, <1>2, SaidStays DEF SyncFacts, TypeInv
<1>14. Filed(disk', Render((sess').toks), sess') /\ last' \in {last, Len((sess').toks)}
  <2>1. CASE MaybeStoreContinued(sess')
    BY <1>7, <2>1, ContinuedFiled DEF SessOK
  <2>2. CASE UNCHANGED <<disk, last>>
    BY <2>2 DEF Filed
  <2> QED BY <1>8, <2>1, <2>2 DEF Begins
<1>15. DiskOK(disk')
  <2>1. Render((sess').toks) \in Texts
    BY <1>5, <1>7, RenderTyped
  <2> QED BY <1>7, <1>14, <2>1, FiledTyped DEF TypeInv
<1>16. last' \in 0..Ctx
  BY <1>2, <1>6, <1>7, <1>14 DEF SyncFacts
<1> QED BY <1>1, <1>7, <1>12, <1>13, <1>14, <1>15, <1>16 DEF TypeInv

\* One evaluation of a sync, up to position n.
Prefills(n) ==
  /\ n \in Nat /\ n <= job.target
  /\ sess' = [toks |-> SubSeq(job.prompt, 1, n), valid |-> TRUE,
              logits |-> IF n = job.target THEN SubSeq(job.prompt, 1, n) ELSE sess.logits]
  /\ job' = [job EXCEPT !.pc = IF n = job.target THEN "prefilled" ELSE "prefill"]
  /\ MaybeStoreContinued(sess')
  /\ UNCHANGED <<live, stop, said, asked>>

LEMMA PrefillSteps ==
  ASSUME TypeInv, Prefill
  PROVE  job.pc = "prefill" /\ \E n : Prefills(n)
<1> DEFINE upto == IF job.batch /\ NextBoundary(Pos) < job.target THEN NextBoundary(Pos)
                   ELSE IF job.batch THEN job.target
                   ELSE Pos + 1
<1>1. job.pc = "prefill"
  BY DEF Prefill
<1>2. SyncFacts
  BY <1>1, InSync
<1>3. Pos \in Nat /\ Pos < job.target /\ job.target \in Nat
  BY <1>1, <1>2 DEF SyncFacts, SyncOK, Pos
<1>4. upto \in Nat /\ upto <= job.target
  BY <1>3, BoundaryTyped
<1>5. /\ sess' = [toks |-> SubSeq(job.prompt, 1, upto), valid |-> TRUE,
                  logits |-> IF NeedLogits(upto) THEN SubSeq(job.prompt, 1, upto)
                             ELSE sess.logits]
      /\ job' = [job EXCEPT !.pc = IF upto = job.target THEN "prefilled" ELSE "prefill"]
      /\ MaybeStoreContinued(sess')
      /\ UNCHANGED <<live, stop, said, asked>>
  BY DEF Prefill
<1> HIDE DEF upto
<1>6. Prefills(upto)
  BY <1>4, <1>5 DEF Prefills, NeedLogits
<1> QED BY <1>1, <1>6

LEMMA PrefillKeeps ==
  ASSUME TypeInv, Prefill
  PROVE  TypeInv'
<1>1. job.pc = "prefill" /\ \E n : Prefills(n)
  BY PrefillSteps
<1>2. PICK n : Prefills(n)
  BY <1>1
<1>3. SyncFacts
  BY <1>1, InSync
<1>4. n \in 0..job.target /\ n \in 0..Len(job.prompt)
  BY <1>2, <1>3 DEF Prefills, SyncFacts
<1>5. PICK p : p = SubSeq(job.prompt, 1, n)
  OBVIOUS
<1>6. p \in Seq(Tokens) /\ Len(p) = n
  BY <1>3, <1>4, <1>5, SubSub DEF SyncFacts
<1>7. SessOK(sess') /\ (sess').toks = p
  <2>1. sess' = [toks |-> p, valid |-> TRUE,
                 logits |-> IF n = job.target THEN p ELSE sess.logits]
    BY <1>2, <1>5 DEF Prefills
  <2> QED BY <1>3, <1>4, <1>6, <2>1 DEF SyncFacts, SessOK, Sessions
<1>8. Filed(disk', Render((sess').toks), sess') /\ last' \in {last, Len((sess').toks)}
  BY <1>2, <1>7, ContinuedFiled DEF Prefills, SessOK
<1>9. DiskOK(disk')
  <2>1. Render((sess').toks) \in Texts
    BY <1>6, <1>7, RenderTyped
  <2> QED BY <1>7, <1>8, <2>1, FiledTyped DEF TypeInv
<1>10. last' \in 0..Ctx
  BY <1>3, <1>4, <1>6, <1>7, <1>8 DEF SyncFacts
<1>11. /\ job' \in Syncing /\ (job').req = job.req /\ (job').prompt = job.prompt
       /\ (job').target = job.target /\ (job').cold = job.cold
       /\ (job').pc = IF n = job.target THEN "prefilled" ELSE "prefill"
  BY <1>2, <1>3 DEF SyncFacts, Syncing, Prefills
<1>12. SyncOK(job', sess')
  BY <1>3, <1>4, <1>5, <1>6, <1>7, <1>11 DEF SyncFacts, SyncOK
<1>13. UNCHANGED <<live, stop, said, asked>>
  BY <1>2 DEF Prefills
<1>14. JobOK(job', sess', said')
  BY <1>3, <1>11, <1>12, <1>13 DEF JobOK, SyncFacts
<1>15. SaidOK(said', asked', job' = Idle)
  BY <1>3, <1>13, SaidStays DEF SyncFacts, TypeInv
<1> QED BY <1>7, <1>9, <1>10, <1>13, <1>14, <1>15 DEF TypeInv

LEMMA AbortKeeps ==
  ASSUME TypeInv, job.pc \in {"prefill", "prefilled"}, NEW v \in BOOLEAN, SyncAborts(v)
  PROVE  TypeInv'
<1>1. SyncFacts
  BY InSync
<1>2. /\ sess' = [sess EXCEPT !.valid = v] /\ last' = Restored /\ job' = Idle
      /\ UNCHANGED <<live, disk, stop, said, asked>>
  BY DEF SyncAborts
<1>3. SessOK(sess')
  BY <1>1, <1>2 DEF SyncFacts, SessOK, Sessions
<1>4. last' \in 0..Ctx
  BY <1>1, <1>2, RestoredTyped DEF SyncFacts
<1>5. SaidOK(said', asked', job' = Idle)
  BY <1>1, <1>2, SaidStays DEF SyncFacts, TypeInv
<1> QED BY <1>2, <1>3, <1>4, <1>5 DEF TypeInv, JobOK

LEMMA SyncEndsKeeps ==
  ASSUME TypeInv, SyncEnds
  PROVE  TypeInv'
<1>1. /\ job.pc = "prefilled" /\ job' = [job EXCEPT !.pc = "synced"]
      /\ UNCHANGED <<sess, live, last, disk, stop, said, asked>>
  BY DEF SyncEnds
<1>2. SyncFacts
  BY <1>1, InSync
<1>3. /\ job' \in Syncing /\ (job').req = job.req /\ (job').prompt = job.prompt
      /\ (job').target = job.target /\ (job').cold = job.cold /\ (job').pc = "synced"
  BY <1>1, <1>2 DEF SyncFacts, Syncing
<1>4. SyncOK(job', sess')
  BY <1>1, <1>2, <1>3 DEF SyncFacts, SyncOK
<1>5. JobOK(job', sess', said')
  BY <1>1, <1>2, <1>3, <1>4 DEF JobOK, SyncFacts
<1>6. SaidOK(said', asked', job' = Idle)
  BY <1>1, <1>2, SaidStays DEF SyncFacts, TypeInv
<1> QED BY <1>1, <1>5, <1>6 DEF TypeInv

\* A cold store, or the counter it leaves when it fails.
LEMMA ColdStored ==
  ASSUME TypeInv, SyncFacts, NEW out \in StoreOutcomes(Render(sess.toks), sess),
         disk' = out.files, last' = IF out.ok THEN Max2(last, job.cold) ELSE Restored
  PROVE  Filed(disk', Render(sess.toks), sess) /\ DiskOK(disk') /\ last' \in 0..Ctx
<1>1. Filed(disk', Render(sess.toks), sess)
  BY Outcomes DEF SyncFacts
<1>2. DiskOK(disk')
  BY <1>1, RenderTyped, FiledTyped DEF SyncFacts, TypeInv
<1>3. Restored \in 0..Ctx
  BY RestoredTyped DEF SyncFacts
<1>4. Max2(last, job.cold) \in 0..Ctx
  BY DEF SyncFacts, SyncOK, Max2
<1> QED BY <1>1, <1>2, <1>3, <1>4

LEMMA ColdPrefixKeeps ==
  ASSUME TypeInv, StoreColdPrefix
  PROVE  TypeInv' /\ Filed(disk', Render(sess.toks), sess)
<1>1. /\ job.pc = "synced" /\ UNCHANGED <<sess, live, stop, said, asked>>
      /\ job' = [job EXCEPT !.pc = "sync", !.target = Len(job.prompt), !.suppressed = -1]
  BY DEF StoreColdPrefix
<1>2. SyncFacts
  BY <1>1, InSync
<1>3. Filed(disk', Render(sess.toks), sess) /\ DiskOK(disk') /\ last' \in 0..Ctx
  BY <1>2, ColdStored DEF StoreColdPrefix
<1>4. /\ job' \in Syncing /\ (job').req = job.req /\ (job').prompt = job.prompt
      /\ (job').target = Len(job.prompt) /\ (job').cold = job.cold /\ (job').pc = "sync"
  <2>1. PICK m \in Nat : m = Len(job.prompt)
    BY <1>2 DEF SyncFacts
  <2>2. job \in Syncing /\ -1 \in (-1)..Ctx
    BY <1>2 DEF SyncFacts
  <2>3. job' = [job EXCEPT !.pc = "sync", !.target = m, !.suppressed = -1]
    BY <1>1, <2>1
  <2> QED BY <2>1, <2>2, <2>3 DEF Syncing
<1>5. SyncOK(job', sess')
  BY <1>2, <1>4 DEF SyncFacts, SyncOK
<1>6. JobOK(job', sess', said')
  BY <1>1, <1>2, <1>4, <1>5 DEF JobOK, SyncFacts
<1>7. SaidOK(said', asked', job' = Idle)
  BY <1>1, <1>2, SaidStays DEF SyncFacts, TypeInv
<1> QED BY <1>1, <1>3, <1>6, <1>7 DEF TypeInv

LEMMA KeepLiveTyped ==
  ASSUME LiveOK(live), NEW keep
  PROVE  LiveOK(KeepLive(keep))
<1>1. Forgotten \in LiveStates
  BY GenerationAssumption DEF Forgotten, LiveStates, Plain
<1>2. KeepLive(keep) \in [LiveKinds -> LiveStates]
  BY <1>1 DEF KeepLive, LiveOK
<1>3. \A k \in LiveKinds : KeepLive(keep)[k] = live[k] \/ ~KeepLive(keep)[k].valid
  BY DEF KeepLive, Forgotten
<1> QED BY <1>2, <1>3 DEF LiveOK

LEMMA SyncedKeeps ==
  ASSUME TypeInv, Synced
  PROVE  TypeInv' /\ Filed(disk', Render(sess.toks), sess)
<1>1. /\ job.pc = "synced" /\ job.target = Len(job.prompt) /\ UNCHANGED <<sess, stop, said, asked>>
      /\ job' = [job EXCEPT !.pc = IF job.cold = Len(job.prompt) THEN "cold" ELSE "start"]
      /\ live' = KeepLive(Continued(job.way, job.req.api)) /\ MaybeStoreContinued(sess)
  BY DEF Synced
<1>2. SyncFacts
  BY <1>1, InSync
<1>3. Filed(disk', Render(sess.toks), sess) /\ last' \in {last, Len(sess.toks)}
  BY <1>1, <1>2, ContinuedFiled DEF SyncFacts
<1>4. DiskOK(disk') /\ last' \in 0..Ctx
  BY <1>2, <1>3, RenderTyped, FiledTyped DEF SyncFacts, TypeInv
<1>5. LiveOK(live')
  BY <1>1, KeepLiveTyped DEF TypeInv
<1>6. /\ job' \in Syncing /\ (job').req = job.req /\ (job').prompt = job.prompt
      /\ (job').target = job.target /\ (job').cold = job.cold
      /\ (job').pc \in {"cold", "start"}
  BY <1>1, <1>2 DEF SyncFacts, Syncing
<1>7. sess.toks = job.prompt
  <2>1. sess.toks = SubSeq(job.prompt, 1, Len(job.prompt))
    BY <1>1, <1>2 DEF SyncFacts, SyncOK
  <2> QED BY <1>2, <2>1, SubSeqFull DEF SyncFacts
<1>8. SyncOK(job', sess')
  BY <1>1, <1>2, <1>6, <1>7 DEF SyncFacts, SyncOK
<1>9. JobOK(job', sess', said')
  BY <1>1, <1>2, <1>6, <1>8 DEF JobOK, SyncFacts
<1>10. SaidOK(said', asked', job' = Idle)
  BY <1>1, <1>2, SaidStays DEF SyncFacts, TypeInv
<1> QED BY <1>1, <1>3, <1>4, <1>5, <1>9, <1>10 DEF TypeInv

LEMMA ColdKeeps ==
  ASSUME TypeInv, StoreCold
  PROVE  TypeInv' /\ Filed(disk', Render(sess.toks), sess)
<1>1. /\ job.pc = "cold" /\ UNCHANGED <<sess, live, stop, said, asked>>
      /\ job' = [job EXCEPT !.pc = "start"]
  BY DEF StoreCold
<1>2. SyncFacts
  BY <1>1, InSync
<1>3. Filed(disk', Render(sess.toks), sess) /\ DiskOK(disk') /\ last' \in 0..Ctx
  BY <1>2, ColdStored DEF StoreCold
<1>4. /\ job' \in Syncing /\ (job').req = job.req /\ (job').prompt = job.prompt
      /\ (job').target = job.target /\ (job').cold = job.cold /\ (job').pc = "start"
  BY <1>1, <1>2 DEF SyncFacts, Syncing
<1>5. SyncOK(job', sess')
  BY <1>1, <1>2, <1>4 DEF SyncFacts, SyncOK
<1>6. JobOK(job', sess', said')
  BY <1>1, <1>2, <1>4, <1>5 DEF JobOK, SyncFacts
<1>7. SaidOK(said', asked', job' = Idle)
  BY <1>1, <1>2, SaidStays DEF SyncFacts, TypeInv
<1> QED BY <1>1, <1>3, <1>6, <1>7 DEF TypeInv

LEMMA StartKeeps ==
  ASSUME TypeInv, StartDecode
  PROVE  TypeInv'
<1>1. /\ job.pc = "start" /\ UNCHANGED <<sess, live, last, disk, stop, said, asked>>
      /\ job' = [pc |-> "decode", req |-> job.req, prompt |-> job.prompt,
                 raw |-> <<>>, n |-> 0, finish |-> "none"]
  BY DEF StartDecode
<1>2. SyncFacts
  BY <1>1, InSync
<1>3. sess.toks = job.prompt
  BY <1>1, <1>2 DEF SyncFacts, SyncOK
<1>4. job' \in Answering
  BY <1>1, <1>2 DEF SyncFacts, Syncing, Answering, Texts
<1>5. AnswerOK(job', sess')
  BY <1>1, <1>2, <1>3 DEF AnswerOK, SyncFacts
<1>6. JobOK(job', sess', said')
  BY <1>1, <1>2, <1>4, <1>5 DEF JobOK, SyncFacts
<1>7. SaidOK(said', asked', job' = Idle)
  BY <1>1, <1>2, SaidStays DEF SyncFacts, TypeInv
<1> QED BY <1>1, <1>6, <1>7 DEF TypeInv

\* The facts about an answer that every step of it needs.
AnswerFacts ==
  /\ job \in Answering /\ ReqOK(job.req, said) /\ AnswerOK(job, sess) /\ job # Idle
  /\ sess \in Sessions /\ sess.toks \in Seq(Tokens) /\ Len(sess.toks) \in 0..Ctx /\ Ctx \in Nat
  /\ job.raw \in Texts /\ job.n \in Nat

LEMMA InAnswer ==
  ASSUME TypeInv, job.pc \in {"decode", "finish"}
  PROVE  AnswerFacts
<1>1. job \in Answering /\ ReqOK(job.req, said) /\ AnswerOK(job, sess)
  BY JobForms DEF TypeInv
<1>2. job # Idle
  BY <1>1 DEF Answering, Idle
<1>3. sess \in Sessions /\ sess.toks \in Seq(Tokens) /\ Len(sess.toks) \in 0..Ctx /\ Ctx \in Nat
  BY GenerationAssumption DEF TypeInv, SessOK, Sessions
<1>4. job.raw \in Texts /\ job.n \in Nat
  BY <1>1 DEF Answering
<1> QED BY <1>1, <1>2, <1>3, <1>4 DEF AnswerFacts

\* A step that ends the decoding without an evaluation.
LEMMA StopsKeeps ==
  ASSUME TypeInv, job.pc = "decode", NEW r \in Texts, NEW m \in Nat,
         NEW f \in {"none", "tool", "stop", "length", "error"},
         job' = [job EXCEPT !.pc = "finish", !.raw = r, !.n = m, !.finish = f],
         NEW v \in BOOLEAN, sess' = [sess EXCEPT !.valid = v],
         UNCHANGED <<live, last, disk, stop, said, asked>>
  PROVE  TypeInv'
<1>1. AnswerFacts
  BY InAnswer
<1>2. job' \in Answering /\ (job').req = job.req /\ (job').pc = "finish"
  BY <1>1 DEF AnswerFacts, Answering
<1>3. SessOK(sess') /\ (sess').toks = sess.toks
  BY <1>1 DEF AnswerFacts, SessOK, Sessions
<1>4. AnswerOK(job', sess')
  BY <1>1, <1>2, <1>3 DEF AnswerFacts, AnswerOK
<1>5. JobOK(job', sess', said')
  BY <1>1, <1>2, <1>4 DEF AnswerFacts, JobOK
<1>6. SaidOK(said', asked', job' = Idle)
  BY <1>1, SaidStays DEF AnswerFacts, TypeInv
<1> QED BY <1>3, <1>5, <1>6 DEF TypeInv

LEMMA DecodeStopsKeeps ==
  ASSUME TypeInv, NEW t \in Decoded, DecodeStops(t)
  PROVE  TypeInv'
<1> DEFINE raw == job.raw \o Piece(t)
<1>1. /\ job.pc = "decode" /\ StopPos(raw) > 0
      /\ job' = [job EXCEPT !.pc = "finish", !.n = job.n + 1, !.finish = "stop",
                    !.raw = SubSeq(raw, 1, StopPos(raw) - 1)]
      /\ UNCHANGED <<sess, live, last, disk, stop, said, asked>>
  BY DEF DecodeStops, Decoding
<1>2. AnswerFacts
  BY <1>1, InAnswer
<1>3. raw \in Texts
  BY <1>2, GenerationAssumption DEF AnswerFacts, Texts
<1> HIDE DEF raw
<1>4. StopPos(raw) \in 1..Len(raw) /\ Len(raw) \in Nat
  BY <1>1, <1>3, StopPosTyped DEF Texts
<1>5. PICK r : r = SubSeq(raw, 1, StopPos(raw) - 1)
  OBVIOUS
<1>6. r \in Texts
  <2>1. \A i \in 1..(StopPos(raw) - 1) : raw[i] \in Chars
    BY <1>3, <1>4 DEF Texts
  <2> QED BY <1>4, <1>5, <2>1, SubSeqProperties DEF Texts
<1>7. PICK m \in Nat : m = job.n + 1
  BY <1>2 DEF AnswerFacts
<1>8. job' = [job EXCEPT !.pc = "finish", !.raw = r, !.n = m, !.finish = "stop"]
  BY <1>1, <1>2, <1>5, <1>7 DEF AnswerFacts, Answering
<1>9. sess' = [sess EXCEPT !.valid = sess.valid] /\ sess.valid \in BOOLEAN
  BY <1>1, <1>2 DEF AnswerFacts, Sessions
<1>10. "stop" \in {"none", "tool", "stop", "length", "error"}
  OBVIOUS
<1> QED BY <1>1, <1>6, <1>8, <1>9, <1>10, StopsKeeps

LEMMA DecodeFailsKeeps ==
  ASSUME TypeInv, DecodeFails
  PROVE  TypeInv'
<1>1. /\ job.pc = "decode" /\ sess' = [sess EXCEPT !.valid = FALSE]
      /\ job' = [job EXCEPT !.pc = "finish", !.finish = "error"]
      /\ UNCHANGED <<live, last, disk, stop, said, asked>>
  BY DEF DecodeFails, Decoding
<1>2. AnswerFacts
  BY <1>1, InAnswer
<1>3. job' = [job EXCEPT !.pc = "finish", !.raw = job.raw, !.n = job.n, !.finish = "error"]
  BY <1>1, <1>2 DEF AnswerFacts, Answering
<1>4. job.raw \in Texts /\ job.n \in Nat
  BY <1>2 DEF AnswerFacts
<1>5. "error" \in {"none", "tool", "stop", "length", "error"} /\ FALSE \in BOOLEAN
  OBVIOUS
<1> QED BY <1>1, <1>3, <1>4, <1>5, StopsKeeps

LEMMA DecodeEndsKeeps ==
  ASSUME TypeInv, DecodeEnds
  PROVE  TypeInv'
<1>1. job.pc = "decode" /\ UNCHANGED <<sess, live, last, disk, stop, said, asked>>
  BY DEF DecodeEnds
<1>2. \/ job' = [job EXCEPT !.pc = "finish", !.finish = "stop"]
      \/ job' = [job EXCEPT !.pc = "finish", !.finish = "error"]
  BY DEF DecodeEnds
<1>3. AnswerFacts
  BY <1>1, InAnswer
<1>4. job.raw \in Texts /\ job.n \in Nat /\ sess.valid \in BOOLEAN
  BY <1>3 DEF AnswerFacts, Sessions
<1>5. sess' = [sess EXCEPT !.valid = sess.valid]
  BY <1>1, <1>3 DEF AnswerFacts, Sessions
<1>6. CASE job' = [job EXCEPT !.pc = "finish", !.finish = "stop"]
  <2>1. job' = [job EXCEPT !.pc = "finish", !.raw = job.raw, !.n = job.n, !.finish = "stop"]
    BY <1>3, <1>6 DEF AnswerFacts, Answering
  <2>2. "stop" \in {"none", "tool", "stop", "length", "error"}
    OBVIOUS
  <2> QED BY <1>1, <1>4, <1>5, <2>1, <2>2, StopsKeeps
<1>7. CASE job' = [job EXCEPT !.pc = "finish", !.finish = "error"]
  <2>1. job' = [job EXCEPT !.pc = "finish", !.raw = job.raw, !.n = job.n, !.finish = "error"]
    BY <1>3, <1>7 DEF AnswerFacts, Answering
  <2>2. "error" \in {"none", "tool", "stop", "length", "error"}
    OBVIOUS
  <2> QED BY <1>1, <1>4, <1>5, <2>1, <2>2, StopsKeeps
<1> QED BY <1>2, <1>6, <1>7

\* The evaluation of a decoded token.
Decodes(t, ends) ==
  /\ job.pc = "decode" /\ t \in Tokens
  /\ ends \in {"none", "tool", "length"}
  /\ ends = "none" => Len(sess.toks) + 1 < Ctx
  /\ sess' = [toks |-> Append(sess.toks, t), valid |-> TRUE,
              logits |-> LogitsAfter(Append(sess.toks, t), ends)]
  /\ job' = [job EXCEPT !.pc = IF ends = "none" THEN "decode" ELSE "finish",
                !.raw = job.raw \o Piece(t), !.n = job.n + 1, !.finish = ends]
  /\ UNCHANGED <<live, last, disk, stop, said, asked>>

LEMMA TokenDecodes ==
  ASSUME TypeInv, NEW t \in Decoded, DecodeToken(t)
  PROVE  \E ends : Decodes(t, ends)
<1> DEFINE raw  == job.raw \o Piece(t)
           toks == Append(sess.toks, t)
<1>1. job.pc = "decode" /\ t \in Tokens
  BY GenerationAssumption DEF DecodeToken, Decoding
<1>2. AnswerFacts
  BY <1>1, InAnswer
<1>3. Len(toks) = Len(sess.toks) + 1
  BY <1>1, <1>2 DEF AnswerFacts
<1>4. PICK finish \in {"none"} \cup (IF job.req.tools THEN {"tool"} ELSE {}) :
        LET ends == IF finish = "none" /\ Len(toks) >= Ctx THEN "length" ELSE finish
        IN  /\ sess' = [toks |-> toks, valid |-> TRUE, logits |-> LogitsAfter(toks, ends)]
            /\ job' = [job EXCEPT !.pc = IF ends = "none" THEN "decode" ELSE "finish",
                          !.raw = raw, !.n = job.n + 1, !.finish = ends]
  BY DEF DecodeToken
<1>5. UNCHANGED <<live, last, disk, stop, said, asked>>
  BY DEF DecodeToken
<1>6. finish \in {"none", "tool"}
  OBVIOUS
<1> DEFINE ends == IF finish = "none" /\ Len(toks) >= Ctx THEN "length" ELSE finish
<1>7. /\ ends \in {"none", "tool", "length"}
      /\ ends = "none" => Len(sess.toks) + 1 < Ctx
  BY <1>2, <1>3, <1>6 DEF AnswerFacts
<1>8. /\ sess' = [toks |-> toks, valid |-> TRUE, logits |-> LogitsAfter(toks, ends)]
      /\ job' = [job EXCEPT !.pc = IF ends = "none" THEN "decode" ELSE "finish",
                    !.raw = raw, !.n = job.n + 1, !.finish = ends]
  BY <1>4
<1> HIDE DEF ends
<1> QED BY <1>1, <1>5, <1>7, <1>8 DEF Decodes

LEMMA DecodeTokenKeeps ==
  ASSUME TypeInv, NEW t \in Decoded, DecodeToken(t)
  PROVE  TypeInv'
<1>1. PICK ends : Decodes(t, ends)
  BY TokenDecodes
<1>2. AnswerFacts
  BY <1>1, InAnswer DEF Decodes
<1>3. PICK toks : toks = Append(sess.toks, t)
  OBVIOUS
<1>4. toks \in Seq(Tokens) /\ Len(toks) = Len(sess.toks) + 1
  BY <1>1, <1>2, <1>3 DEF AnswerFacts, Decodes
<1>5. Len(sess.toks) < Ctx
  BY <1>1, <1>2 DEF AnswerFacts, AnswerOK, Decodes
<1>6. SessOK(sess') /\ (sess').toks = toks
  <2>1. LogitsAfter(toks, ends) \in Seq(Tokens)
    BY <1>2, <1>4 DEF LogitsAfter, AnswerFacts, Sessions
  <2>2. sess' = [toks |-> toks, valid |-> TRUE, logits |-> LogitsAfter(toks, ends)]
    BY <1>1, <1>3 DEF Decodes
  <2>3. Len(toks) <= Ctx
    BY <1>2, <1>4, <1>5 DEF AnswerFacts
  <2> QED BY <1>4, <2>1, <2>2, <2>3 DEF SessOK, Sessions
<1>7. /\ job' \in Answering /\ (job').req = job.req /\ (job').n = job.n + 1
      /\ (job').pc = IF ends = "none" THEN "decode" ELSE "finish"
  <2>1. PICK raw : raw = job.raw \o Piece(t)
    OBVIOUS
  <2>2. raw \in Texts
    BY <1>1, <1>2, <2>1, GenerationAssumption DEF AnswerFacts, Texts, Decodes
  <2>3. PICK m \in Nat : m = job.n + 1
    BY <1>2 DEF AnswerFacts
  <2>4. job' = [job EXCEPT !.pc = IF ends = "none" THEN "decode" ELSE "finish",
                   !.raw = raw, !.n = m, !.finish = ends]
    BY <1>1, <2>1, <2>3 DEF Decodes
  <2>5. ends \in {"none", "tool", "length"}
    BY <1>1 DEF Decodes
  <2> QED BY <1>2, <2>2, <2>3, <2>4, <2>5 DEF AnswerFacts, Answering
<1>8. AnswerOK(job', sess')
  BY <1>1, <1>2, <1>4, <1>5, <1>6, <1>7 DEF AnswerFacts, AnswerOK, Decodes
<1>9. UNCHANGED <<live, last, disk, stop, said, asked>>
  BY <1>1 DEF Decodes
<1>10. JobOK(job', sess', said')
  BY <1>2, <1>7, <1>8, <1>9 DEF AnswerFacts, JobOK
<1>11. SaidOK(said', asked', job' = Idle)
  BY <1>2, <1>9, SaidStays DEF AnswerFacts, TypeInv
<1> QED BY <1>6, <1>9, <1>10, <1>11 DEF TypeInv

LEMMA GoneKeeps ==
  ASSUME TypeInv, ClientGone
  PROVE  TypeInv'
<1>1. /\ job.pc \in {"start", "decode"} /\ job' = Idle
      /\ UNCHANGED <<sess, live, last, disk, stop, said, asked>>
  BY DEF ClientGone
<1>2. job # Idle
  BY <1>1 DEF Idle
<1>3. SaidOK(said', asked', job' = Idle)
  BY <1>1, <1>2, SaidStays DEF TypeInv
<1> QED BY <1>1, <1>3 DEF TypeInv, JobOK
-----------------------------------------------------------------------------
(* The end of a request.                                                   *)

\* An answer that may be continued, and one that may not.
Answers(raw, calls) ==
  /\ raw \in Texts /\ calls \in BOOLEAN
  /\ \/ raw = job.raw /\ job.finish # "error"
     \/ job.req.api \in OpenApis /\ calls
  /\ live' = Remembered(raw, calls)
  /\ said' = Append(said, [text |-> job.req.history \o Visible(raw), calls |-> calls])

CutOff ==
  /\ live' = Unremembered
  /\ \/ said' = said
     \/ said' = Append(said, [text |-> job.req.history \o Visible(job.raw), calls |-> FALSE])

LEMMA FinishForms ==
  ASSUME TypeInv, Finish
  PROVE  /\ job.pc = "finish" /\ job' = Idle /\ UNCHANGED <<sess, last, disk, stop, asked>>
         /\ (\E raw, calls : Answers(raw, calls)) \/ CutOff
<1> DEFINE limited == IF job.n >= MaxDecode /\ MaxDecode > 0 /\ job.finish = "stop"
                      THEN "length" ELSE job.finish
           finish  == IF stop THEN "error" ELSE limited
           open    == job.req.api \in OpenApis /\ job.req.tools /\ finish \in {"stop", "length"}
           Answer(raw, calls) ==
               /\ live' = Remembered(raw, calls)
               /\ said' = Append(said, [text |-> job.req.history \o Visible(raw),
                                        calls |-> calls])
<1>1. job.pc = "finish" /\ job' = Idle /\ UNCHANGED <<sess, last, disk, stop, asked>>
  BY DEF Finish
<1>2. AnswerFacts
  BY <1>1, InAnswer
<1>3. \/ finish \in {"stop", "tool"} /\ Answer(job.raw, finish = "tool")
      \/ finish = "tool" /\ Answer(job.raw, FALSE)
      \/ open /\ Answer(job.raw \o Closing, TRUE)
      \/ /\ live' = Unremembered
         /\ said' = Append(said, [text |-> job.req.history \o Visible(job.raw),
                                  calls |-> FALSE])
      \/ live' = Unremembered /\ UNCHANGED said
  BY DEF Finish
<1>4. CASE finish \in {"stop", "tool"} /\ Answer(job.raw, finish = "tool")
  <2>1. job.finish # "error"
    BY <1>4
  <2>2. job.raw \in Texts
    BY <1>2 DEF AnswerFacts
  <2>3. PICK calls \in BOOLEAN : calls = (finish = "tool")
    OBVIOUS
  <2> HIDE DEF finish
  <2>4. Answers(job.raw, calls)
    BY <1>4, <2>1, <2>2, <2>3 DEF Answers
  <2> QED BY <1>1, <2>4
<1>7. CASE finish = "tool" /\ Answer(job.raw, FALSE)
  <2>1. job.finish # "error" /\ job.raw \in Texts
    BY <1>2, <1>7 DEF AnswerFacts
  <2> HIDE DEF finish
  <2>2. Answers(job.raw, FALSE)
    BY <1>7, <2>1 DEF Answers
  <2> QED BY <1>1, <2>2
<1>5. CASE open /\ Answer(job.raw \o Closing, TRUE)
  <2>1. job.raw \o Closing \in Texts
    <3>1. Closing \in Texts
      BY GenerationAssumption, PlainTexts DEF Plain
    <3> QED BY <1>2, <3>1 DEF AnswerFacts, Texts
  <2>2. job.req.api \in OpenApis
    BY <1>5
  <2> HIDE DEF open
  <2>3. Answers(job.raw \o Closing, TRUE)
    BY <1>5, <2>1, <2>2 DEF Answers
  <2> QED BY <1>1, <2>3
<1>6. CASE \/ /\ live' = Unremembered
              /\ said' = Append(said, [text |-> job.req.history \o Visible(job.raw),
                                       calls |-> FALSE])
           \/ live' = Unremembered /\ UNCHANGED said
  BY <1>1, <1>6 DEF CutOff
<1> HIDE DEF finish, open, Answer
<1> QED BY <1>3, <1>4, <1>5, <1>6, <1>7

\* What a live state can be after an answer.
Remembers(k, raw, calls) ==
  LET text == job.req.text \o Visible(raw)
      ids == IF calls THEN {Len(said) + 1} ELSE {}
      l == Remembered(raw, calls)[k]
  IN \/ l = live[k]
     \/ l = Forgotten
     \/ k = "responses" /\ job.req.api = "responses" /\ l = Remember(text, ids)
     \/ k = "anthropic" /\ job.req.api = "anthropic" /\ calls /\ l = Remember(<<>>, ids)
     \/ k = "thinking" /\ ~calls /\ job.req.api # "completions" /\ l = Remember(text, {})

LEMMA RememberedForms ==
  ASSUME LiveOK(live), NEW raw, NEW calls
  PROVE  /\ DOMAIN Remembered(raw, calls) = LiveKinds
         /\ Remembered(raw, calls) = [k \in LiveKinds |-> Remembered(raw, calls)[k]]
         /\ \A k \in LiveKinds : Remembers(k, raw, calls)
<1>1. DOMAIN live = LiveKinds /\ live = [k \in LiveKinds |-> live[k]]
  BY DEF LiveOK
<1>2. DOMAIN Remembered(raw, calls) = LiveKinds
  BY <1>1 DEF Remembered
<1>3. Remembered(raw, calls) = [k \in LiveKinds |-> Remembered(raw, calls)[k]]
  BY <1>1 DEF Remembered
<1>4. Remembers("responses", raw, calls)
  BY <1>1 DEF Remembered, Remembers, LiveKinds
<1>5. Remembers("anthropic", raw, calls)
  BY <1>1 DEF Remembered, Remembers, LiveKinds
<1>6. Remembers("thinking", raw, calls)
  BY <1>1 DEF Remembered, Remembers, LiveKinds
<1> QED BY <1>2, <1>3, <1>4, <1>5, <1>6 DEF LiveKinds

\* A live state as the invariant wants it.
LiveStateOK(l) ==
  l \in LiveStates /\ (l.valid => l.pos = Len(l.of) /\ l.pos > 0)

LEMMA ForgottenTyped == LiveStateOK(Forgotten)
<1>1. <<>> \in Plain /\ <<>> \in Seq(Tokens)
  BY DEF Plain
<1>2. 0 \in 0..Ctx /\ {} \in SUBSET Nat
  BY GenerationAssumption
<1> QED BY <1>1, <1>2 DEF LiveStateOK, Forgotten, LiveStates

LEMMA RememberTyped ==
  ASSUME SessOK(sess), Pos > 0, NEW text \in Plain, NEW ids \in SUBSET Nat
  PROVE  LiveStateOK(Remember(text, ids))
<1>1. sess.toks \in Seq(Tokens) /\ Pos \in 0..Ctx
  BY GenerationAssumption DEF SessOK, Sessions, Pos
<1> QED BY <1>1 DEF LiveStateOK, Remember, LiveStates, Pos

LEMMA RememberedTyped ==
  ASSUME SessOK(sess), LiveOK(live), job.req \in Asked, Pos > 0, Len(said) \in Nat,
         NEW raw \in Texts, NEW calls \in BOOLEAN
  PROVE  LiveOK(Remembered(raw, calls))
<1>1. PICK text : text = job.req.text \o Visible(raw)
  OBVIOUS
<1>2. PICK ids : ids = IF calls THEN {Len(said) + 1} ELSE {}
  OBVIOUS
<1>3. text \in Plain
  <2>1. job.req.text \in Plain /\ Visible(raw) \in Plain
    BY VisibleTyped DEF Asked, Written
  <2> QED BY <1>1, <2>1 DEF Plain
<1>4. ids \in SUBSET Nat
  BY <1>2
<1>5. LiveStateOK(Remember(text, ids)) /\ LiveStateOK(Forgotten)
  BY <1>3, <1>4, RememberTyped, ForgottenTyped
<1>6. LiveStateOK(Remember(<<>>, ids)) /\ LiveStateOK(Remember(text, {}))
  <2>1. <<>> \in Plain /\ {} \in SUBSET Nat
    BY DEF Plain
  <2> QED BY <1>3, <1>4, <2>1, RememberTyped
<1>7. \A k \in LiveKinds : LiveStateOK(live[k])
  BY DEF LiveOK, LiveStateOK
<1>8. \A k \in LiveKinds : LiveStateOK(Remembered(raw, calls)[k])
  <2> TAKE k \in LiveKinds
  <2>1. PICK l : l = Remembered(raw, calls)[k]
    OBVIOUS
  <2>2. \/ l = live[k] \/ l = Forgotten \/ l = Remember(text, ids)
        \/ l = Remember(<<>>, ids) \/ l = Remember(text, {})
    BY <1>1, <1>2, <2>1, RememberedForms DEF Remembers
  <2> QED BY <1>5, <1>6, <1>7, <2>1, <2>2
<1>9. Remembered(raw, calls) = [k \in LiveKinds |-> Remembered(raw, calls)[k]]
  BY RememberedForms
<1>10. PICK l : l = Remembered(raw, calls)
  OBVIOUS
<1> QED BY <1>8, <1>9, <1>10 DEF LiveOK, LiveStateOK

LEMMA UnrememberedTyped ==
  ASSUME LiveOK(live)
  PROVE  LiveOK(Unremembered)
<1>1. \A k \in LiveKinds : LiveStateOK(Unremembered[k])
  BY ForgottenTyped DEF Unremembered, LiveOK, LiveStateOK
<1>2. Unremembered = [k \in LiveKinds |-> Unremembered[k]]
  BY DEF Unremembered
<1> QED BY <1>1, <1>2 DEF LiveOK, LiveStateOK

\* An answer is a transcript.
LEMMA AnswerSaid ==
  ASSUME said \in Seq(Transcripts), job.req \in Asked, NEW raw \in Texts, NEW calls \in BOOLEAN
  PROVE  /\ Append(said, [text |-> job.req.history \o Visible(raw), calls |-> calls])
              \in Seq(Transcripts)
         /\ Len(Append(said, [text |-> job.req.history \o Visible(raw), calls |-> calls]))
              = Len(said) + 1
<1>1. job.req.history \o Visible(raw) \in Written
  BY VisibleTyped, WrittenMore DEF Asked
<1>2. [text |-> job.req.history \o Visible(raw), calls |-> calls] \in Transcripts
  BY <1>1 DEF Transcripts
<1>3. PICK a \in Transcripts : a = [text |-> job.req.history \o Visible(raw), calls |-> calls]
  BY <1>2
<1>4. Append(said, a) \in Seq(Transcripts) /\ Len(Append(said, a)) = Len(said) + 1
  OBVIOUS
<1> QED BY <1>3, <1>4

LEMMA FinishKeeps ==
  ASSUME TypeInv, Finish
  PROVE  TypeInv'
<1>1. /\ job.pc = "finish" /\ job' = Idle /\ UNCHANGED <<sess, last, disk, stop, asked>>
      /\ (\E raw, calls : Answers(raw, calls)) \/ CutOff
  BY FinishForms
<1>2. AnswerFacts
  BY <1>1, InAnswer
<1>3. /\ said \in Seq(Transcripts) /\ Len(said) \in Nat /\ asked \in 0..MaxTurns
      /\ Len(said) + 1 <= asked
  BY <1>2 DEF TypeInv, SaidOK, AnswerFacts
<1>4. job.req \in Asked /\ Pos > 0 /\ SessOK(sess) /\ LiveOK(live) /\ job.raw \in Texts
  BY <1>2 DEF TypeInv, AnswerFacts, AnswerOK, ReqOK, Pos
<1>5. LiveOK(live') /\ said' \in Seq(Transcripts) /\ Len(said') <= Len(said) + 1
      /\ Len(said') \in Nat
  <2>1. ASSUME NEW raw, NEW calls, Answers(raw, calls)
        PROVE  LiveOK(live') /\ said' \in Seq(Transcripts) /\ Len(said') = Len(said) + 1
    <3>1. raw \in Texts /\ calls \in BOOLEAN /\ live' = Remembered(raw, calls)
          /\ said' = Append(said, [text |-> job.req.history \o Visible(raw), calls |-> calls])
      BY <2>1 DEF Answers
    <3>2. LiveOK(Remembered(raw, calls))
      BY <1>3, <1>4, <3>1, RememberedTyped
    <3>3. /\ Append(said, [text |-> job.req.history \o Visible(raw), calls |-> calls])
               \in Seq(Transcripts)
          /\ Len(Append(said, [text |-> job.req.history \o Visible(raw), calls |-> calls]))
               = Len(said) + 1
      BY <1>3, <1>4, <3>1, AnswerSaid
    <3> QED BY <3>1, <3>2, <3>3
  <2>2. ASSUME CutOff
        PROVE  LiveOK(live') /\ said' \in Seq(Transcripts) /\ Len(said') <= Len(said) + 1
    <3>1. live' = Unremembered
          /\ \/ said' = said
             \/ said' = Append(said, [text |-> job.req.history \o Visible(job.raw),
                                      calls |-> FALSE])
      BY <2>2 DEF CutOff
    <3>2. LiveOK(live')
      BY <1>4, <3>1, UnrememberedTyped
    <3>3. /\ Append(said, [text |-> job.req.history \o Visible(job.raw), calls |-> FALSE])
               \in Seq(Transcripts)
          /\ Len(Append(said, [text |-> job.req.history \o Visible(job.raw), calls |-> FALSE]))
               = Len(said) + 1
      BY <1>3, <1>4, AnswerSaid
    <3> QED BY <1>3, <3>1, <3>2, <3>3
  <2> QED BY <1>1, <1>3, <2>1, <2>2
<1>6. SaidOK(said', asked', job' = Idle)
  BY <1>1, <1>3, <1>5 DEF SaidOK
<1> QED BY <1>1, <1>5, <1>6 DEF TypeInv, JobOK

LEMMA RestartKeeps ==
  ASSUME TypeInv, Restart
  PROVE  TypeInv' /\ Filed(disk', CurrentText, sess)
<1>1. /\ sess' = EmptySession /\ live' = [k \in LiveKinds |-> Forgotten]
      /\ last' = 0 /\ stop' = FALSE /\ UNCHANGED <<job, said, asked>>
      /\ job.pc = "idle"
  BY DEF Restart
<1>2. PICK out \in StoreOutcomes(CurrentText, sess) : disk' = out.files
  BY DEF Restart
<1>3. SessOK(sess) /\ sess \in Sessions
  BY DEF TypeInv, SessOK
<1>4. Filed(disk', CurrentText, sess)
  BY <1>2, <1>3, Outcomes
<1>5. DiskOK(disk')
  BY <1>3, <1>4, CurrentTyped, FiledTyped DEF TypeInv
<1>6. SessOK(EmptySession)
  BY GenerationAssumption DEF SessOK, Sessions, EmptySession
<1>7. LiveOK([k \in LiveKinds |-> Forgotten])
  BY ForgottenTyped DEF LiveOK, LiveStateOK, Forgotten
<1>8. job = Idle
  BY <1>1, JobForms DEF TypeInv
<1>9. 0 \in 0..Ctx
  BY GenerationAssumption
<1>10. SaidOK(said', asked', job' = Idle)
  BY <1>1 DEF TypeInv
<1> QED BY <1>1, <1>4, <1>5, <1>6, <1>7, <1>8, <1>9, <1>10 DEF TypeInv, JobOK

LEMMA TypeInvNext ==
  ASSUME Tokenizer, TypeInv, [Next]_vars
  PROVE  TypeInv'
<1>1. CASE \E r \in Requests, api \in Apis, tools \in Tools, greedy \in Greedy :
             Receive(r, api, tools, greedy)
  BY <1>1, ReceiveKeeps
<1>2. CASE EvictStore
  BY <1>2, EvictKeeps
<1>3. CASE LoadHit
  BY <1>3, LoadHitKeeps
<1>4. CASE LoadMiss
  BY <1>4, LoadMissKeeps
<1>5. CASE CheckContext
  BY <1>5, CheckKeeps
<1>6. CASE BeginSync
  BY <1>6, BeginKeeps
<1>7. CASE Prefill
  BY <1>7, PrefillKeeps
<1>8. CASE SyncCancelled
  <2>1. PICK v \in BOOLEAN : SyncAborts(v)
    BY <1>8 DEF SyncCancelled
  <2> QED BY <1>8, <2>1, AbortKeeps DEF SyncCancelled
<1>9. CASE SyncEnds
  BY <1>9, SyncEndsKeeps
<1>10. CASE StoreColdPrefix
  BY <1>10, ColdPrefixKeeps
<1>11. CASE Synced
  BY <1>11, SyncedKeeps
<1>12. CASE StoreCold
  BY <1>12, ColdKeeps
<1>13. CASE StartDecode
  BY <1>13, StartKeeps
<1>14. CASE \E t \in Decoded : DecodeStops(t) \/ DecodeToken(t)
  BY <1>14, DecodeStopsKeeps, DecodeTokenKeeps
<1>15. CASE DecodeEnds
  BY <1>15, DecodeEndsKeeps
<1>16. CASE Finish
  BY <1>16, FinishKeeps
<1>17. CASE SyncFails
  BY <1>17, AbortKeeps DEF SyncFails
<1>18. CASE DecodeFails
  BY <1>18, DecodeFailsKeeps
<1>19. CASE ClientGone
  BY <1>19, GoneKeeps
<1>20. CASE Stop
  BY <1>20 DEF Stop, TypeInv
<1>21. CASE Restart
  BY <1>21, RestartKeeps
<1>22. CASE Finished \/ UNCHANGED vars
  BY <1>22 DEF Finished, vars, TypeInv
<1> QED BY <1>1, <1>2, <1>3, <1>4, <1>5, <1>6, <1>7, <1>8, <1>9, <1>10, <1>11, <1>12, <1>13,
           <1>14, <1>15, <1>16, <1>17, <1>18, <1>19, <1>20, <1>21, <1>22 DEF Next, Serve

LEMMA TypeInvIsTypeOK ==
  ASSUME TypeInv
  PROVE  TypeOK
<1>1. sess.toks \in Seq(Tokens) /\ Pos <= Ctx /\ sess.valid \in BOOLEAN
  BY DEF TypeInv, SessOK, Sessions, Pos
<1>2. /\ DOMAIN live = LiveKinds
      /\ \A k \in LiveKinds : live[k].valid \in BOOLEAN /\ live[k].pos \in 0..Ctx
  BY DEF TypeInv, LiveOK, LiveStates
<1>3. \A t \in DOMAIN disk : disk[t].toks \in Seq(Tokens) /\ Len(disk[t].toks) >= MinTokens
  BY DEF TypeInv, DiskOK, Payloads
<1>4. job.pc \in {"idle", "evict", "load", "check", "sync", "prefill", "prefilled", "synced",
                  "cold", "start", "decode", "finish"}
  BY DEF TypeInv, JobOK, Idle, Looking, Syncing, Answering
<1>5. Len(said) <= asked /\ asked <= MaxTurns
  BY GenerationAssumption DEF TypeInv, SaidOK
<1> QED BY <1>1, <1>2, <1>3, <1>4, <1>5 DEF TypeInv, TypeOK

\* Types and bounds hold for every process whose tokenizer spells its texts: the
\* session stays within the context, a file holds min_tokens or more, and there
\* is at most one answer to a request.
THEOREM TypeCorrect ==
  ASSUME Tokenizer
  PROVE  Spec => []TypeOK
<1>1. Init => TypeInv
  BY InitTyped
<1>2. TypeInv /\ [Next]_vars => TypeInv'
  BY TypeInvNext
<1>3. TypeInv => TypeOK
  BY TypeInvIsTypeOK
<1> QED BY <1>1, <1>2, <1>3, PTL DEF Spec
-----------------------------------------------------------------------------
(* The live states: a state is recognised by the position of the session   *)
(* alone, so nothing may bring another session to a remembered position.   *)

\* No prompt is refused after a file was loaded for it, and a stop does not
\* interrupt a sync that goes token by token: both end a request with another
\* session in place and every live state kept.
Undisturbed ==
  /\ job.pc = "check" /\ job.way = "none" /\ job.cached > 0 => Len(job.prompt) < Ctx
  /\ job.pc \in {"prefill", "prefilled"} /\ stop => job.batch

\* The session is still the one the request found.
Untouched(j) ==
  \/ j.pc \in {"idle", "evict", "load"}
  \/ j.pc = "check" /\ (j.way # "none" \/ j.cached = 0)

MatchTrue(j, s, l) ==
  Untouched(j) /\ s.valid =>
    \A k \in LiveKinds : l[k].valid /\ l[k].pos = Len(s.toks) => s.toks = l[k].of

\* The live state a request continues is shorter than its prompt.
ContinuedShort(j, l) ==
  j.pc \in {"check", "sync", "prefill", "prefilled", "synced"} =>
    \A k \in LiveKinds :
      k \in Continued(j.way, j.req.api) /\ l[k].valid => l[k].pos < Len(j.prompt)

\* Once the prompt is evaluated every live state is of a shorter session.
LiveBehind(j, s, l) ==
  j.pc \in {"cold", "start", "decode", "finish"} =>
    \A k \in LiveKinds : l[k].valid => l[k].pos < Len(s.toks)

LiveInv ==
  /\ MatchTrue(job, sess, live)
  /\ ContinuedShort(job, live)
  /\ LiveBehind(job, sess, live)

LEMMA IdlePhases == Idle.pc = "idle"
  BY DEF Idle

LEMMA LiveInit ==
  ASSUME Init
  PROVE  LiveInv
<1>1. job.pc = "idle" /\ \A k \in LiveKinds : ~live[k].valid
  BY DEF Init, Idle, Forgotten
<1> QED BY <1>1 DEF LiveInv, MatchTrue, ContinuedShort, LiveBehind

\* A step before the session or the live states change, or after the sync.
LEMMA LiveReceive ==
  ASSUME Tokenizer, TypeInv, LiveInv, NEW q, Receiving(q), job.pc = "idle",
         UNCHANGED <<sess, live>>
  PROVE  LiveInv'
<1>1. PICK way : WayOK(way, q) /\ job' = Found(way, q)
  BY DEF Receiving, Received
<1>2. /\ (job').pc \in {"evict", "check"} /\ (job').way = way /\ (job').req = q
      /\ (job').prompt = EffectivePrompt(way, q)
  BY <1>1 DEF Found
<1>3. MatchTrue(job', sess', live')
  <2>1. Untouched(job)
    BY DEF Untouched
  <2> QED BY <2>1 DEF LiveInv, MatchTrue
<1>4. ContinuedShort(job', live')
  <2> SUFFICES ASSUME NEW k \in LiveKinds, k \in Continued(way, q.api), live[k].valid
               PROVE  live[k].pos < Len(EffectivePrompt(way, q))
    BY <1>2 DEF ContinuedShort
  <2>1. way \in {"visible", "ids", "thinking"}
    BY DEF Continued
  <2>2. Usable(way, q) /\ ReqOK(q, said) /\ SessOK(sess) /\ LiveOK(live)
    BY <1>1, <2>1 DEF WayOK, Receiving, TypeInv
  <2>3. Len(EffectivePrompt(way, q)) > Pos
    BY <2>1, <2>2, LiveWays, AppendsMore
  <2>4. live[k].pos = Pos
    BY <2>1, <2>2 DEF Usable, Continued, VisibleMatch, IdsMatch
  <2> QED BY <2>3, <2>4
<1>5. LiveBehind(job', sess', live')
  BY <1>2 DEF LiveBehind
<1> QED BY <1>3, <1>4, <1>5 DEF LiveInv

LEMMA LiveEvict ==
  ASSUME TypeInv, LiveInv, EvictStore
  PROVE  LiveInv'
<1>1. job.pc = "evict" /\ job' = [job EXCEPT !.pc = "load"] /\ UNCHANGED <<sess, live>>
  BY DEF EvictStore
<1>2. job \in Looking
  BY <1>1, JobForms DEF TypeInv
<1>3. (job').pc = "load"
  BY <1>1, <1>2 DEF Looking
<1> QED BY <1>1, <1>3 DEF LiveInv, MatchTrue, Untouched, ContinuedShort, LiveBehind

LEMMA LiveHit ==
  ASSUME TypeInv, LiveInv, LoadHit
  PROVE  LiveInv'
<1>1. PICK t : Loaded(t)
  BY HitLoads
<1>2. job \in Looking /\ job.way = "none"
  BY HitLoads, JobForms DEF TypeInv
<1>3. Len(disk[t].toks) > 0
  BY <1>1, GenerationAssumption DEF Loaded, TypeInv, DiskOK, Payloads
<1>4. (job').pc = "check" /\ (job').way = "none" /\ (job').cached > 0
  BY <1>1, <1>2, <1>3 DEF Loaded, Looking
<1> QED BY <1>4 DEF LiveInv, MatchTrue, Untouched, ContinuedShort, LiveBehind, Continued

LEMMA LiveMiss ==
  ASSUME TypeInv, LiveInv, LoadMiss
  PROVE  LiveInv'
<1>1. /\ job.pc = "load" /\ job' = [job EXCEPT !.pc = "check"]
      /\ sess' \in {sess, EmptySession} /\ live' = live
  BY MissLeaves
<1>2. job \in Looking /\ job.way = "none"
  BY <1>1, JobForms DEF TypeInv
<1>3. (job').pc = "check" /\ (job').way = "none"
  BY <1>1, <1>2 DEF Looking
<1>4. MatchTrue(job', sess', live')
  <2>1. Untouched(job)
    BY <1>1 DEF Untouched
  <2>2. CASE sess' = sess
    BY <1>1, <2>1, <2>2 DEF LiveInv, MatchTrue
  <2>3. CASE sess' = EmptySession
    <3>1. Len((sess').toks) = 0
      BY <2>3 DEF EmptySession
    <3>2. \A k \in LiveKinds : live[k].valid => live[k].pos # 0
      BY DEF TypeInv, LiveOK
    <3> QED BY <1>1, <3>1, <3>2 DEF MatchTrue
  <2> QED BY <1>1, <2>2, <2>3
<1> QED BY <1>3, <1>4 DEF LiveInv, ContinuedShort, LiveBehind, Continued

LEMMA LiveCheck ==
  ASSUME TypeInv, LiveInv, Undisturbed, CheckContext
  PROVE  LiveInv'
<1>1. job.pc = "check" /\ UNCHANGED <<sess, live>>
  BY DEF CheckContext
<1>2. job \in Looking
  BY <1>1, JobForms DEF TypeInv
<1>3. CASE Len(job.prompt) >= Ctx
  <2>1. job' = Idle
    BY <1>3 DEF CheckContext
  <2>2. Untouched(job)
    <3>1. Len(job.prompt) \in Nat /\ Ctx \in Nat /\ job.cached \in Nat
      BY <1>2, GenerationAssumption DEF Looking, Prompted
    <3>2. ~(job.way = "none" /\ job.cached > 0)
      BY <1>1, <1>3, <3>1 DEF Undisturbed
    <3> QED BY <1>1, <3>1, <3>2 DEF Untouched
  <2>3. (job').pc = "idle"
    BY <2>1, IdlePhases
  <2> QED BY <1>1, <2>2, <2>3 DEF LiveInv, MatchTrue, ContinuedShort, LiveBehind
<1>4. CASE ~(Len(job.prompt) >= Ctx)
  <2>1. /\ (job').pc = "sync" /\ (job').way = job.way /\ (job').req = job.req
        /\ (job').prompt = job.prompt
    BY <1>4 DEF CheckContext
  <2> QED BY <1>1, <2>1 DEF LiveInv, MatchTrue, Untouched, ContinuedShort, LiveBehind
<1> QED BY <1>3, <1>4

\* A step of a sync leaves the live states and what is said of them.
LEMMA LiveSyncs ==
  ASSUME LiveInv, job.pc \in {"sync", "prefill", "prefilled", "synced"}, UNCHANGED live,
         (job').pc \in {"sync", "prefill", "prefilled", "synced"},
         (job').way = job.way, (job').req = job.req, (job').prompt = job.prompt
  PROVE  LiveInv'
BY DEF LiveInv, MatchTrue, Untouched, ContinuedShort, LiveBehind

LEMMA LiveBegin ==
  ASSUME TypeInv, LiveInv, BeginSync
  PROVE  LiveInv'
<1>1. PICK b : Begins(b)
  BY BeginSteps
<1>2. job \in Syncing
  BY <1>1, JobForms DEF TypeInv, Begins
<1>3. /\ (job').pc \in {"synced", "prefill"} /\ (job').way = job.way /\ (job').req = job.req
      /\ (job').prompt = job.prompt /\ job.pc = "sync" /\ UNCHANGED live
  BY <1>1, <1>2 DEF Begins, Syncing
<1> QED BY <1>3, LiveSyncs

LEMMA LivePrefill ==
  ASSUME TypeInv, LiveInv, Prefill
  PROVE  LiveInv'
<1>1. job.pc = "prefill" /\ \E n : Prefills(n)
  BY PrefillSteps
<1>2. PICK n : Prefills(n)
  BY <1>1
<1>3. job \in Syncing
  BY <1>1, JobForms DEF TypeInv
<1>4. /\ (job').pc \in {"prefilled", "prefill"} /\ (job').way = job.way
      /\ (job').req = job.req /\ (job').prompt = job.prompt /\ UNCHANGED live
  BY <1>2, <1>3 DEF Syncing, Prefills
<1> QED BY <1>1, <1>4, LiveSyncs

LEMMA LiveAborts ==
  ASSUME TypeInv, SyncAborts(FALSE)
  PROVE  LiveInv'
<1>1. (job').pc = "idle"
  BY IdlePhases DEF SyncAborts
<1>2. ~(sess').valid
  <2>1. sess \in Sessions
    BY DEF TypeInv, SessOK
  <2> QED BY <2>1 DEF SyncAborts, Sessions
<1> QED BY <1>1, <1>2 DEF LiveInv, MatchTrue, ContinuedShort, LiveBehind

LEMMA LiveSyncEnds ==
  ASSUME TypeInv, LiveInv, SyncEnds
  PROVE  LiveInv'
<1>1. job.pc = "prefilled" /\ UNCHANGED live /\ job' = [job EXCEPT !.pc = "synced"]
  BY DEF SyncEnds
<1>2. job \in Syncing
  BY <1>1, JobForms DEF TypeInv
<1>3. /\ (job').pc = "synced" /\ (job').way = job.way /\ (job').req = job.req
      /\ (job').prompt = job.prompt
  BY <1>1, <1>2 DEF Syncing
<1> QED BY <1>1, <1>3, LiveSyncs

LEMMA LiveColdPrefix ==
  ASSUME TypeInv, LiveInv, StoreColdPrefix
  PROVE  LiveInv'
<1>1. /\ job.pc = "synced" /\ UNCHANGED live
      /\ job' = [job EXCEPT !.pc = "sync", !.target = Len(job.prompt), !.suppressed = -1]
  BY DEF StoreColdPrefix
<1>2. job \in Syncing
  BY <1>1, JobForms DEF TypeInv
<1>3. /\ (job').pc = "sync" /\ (job').way = job.way /\ (job').req = job.req
      /\ (job').prompt = job.prompt
  BY <1>1, <1>2 DEF Syncing
<1> QED BY <1>1, <1>3, LiveSyncs

LEMMA LiveSynced ==
  ASSUME TypeInv, LiveInv, Synced
  PROVE  LiveInv'
<1>1. /\ job.pc = "synced" /\ job.target = Len(job.prompt) /\ UNCHANGED sess
      /\ live' = KeepLive(Continued(job.way, job.req.api))
      /\ job' = [job EXCEPT !.pc = IF job.cold = Len(job.prompt) THEN "cold" ELSE "start"]
  BY DEF Synced
<1>2. SyncFacts
  BY <1>1, InSync
<1>3. (job').pc \in {"cold", "start"}
  BY <1>1, <1>2 DEF SyncFacts, Syncing
<1>4. Len(sess.toks) = Len(job.prompt)
  BY <1>1, <1>2 DEF SyncFacts, SyncOK, Target
<1>5. \A k \in LiveKinds : (live')[k].valid => (live')[k].pos < Len(sess.toks)
  BY <1>1, <1>4 DEF LiveInv, ContinuedShort, KeepLive, Forgotten
<1> QED BY <1>1, <1>3, <1>5 DEF LiveInv, MatchTrue, Untouched, ContinuedShort, LiveBehind

\* A step of a request whose prompt is evaluated.
LEMMA LiveAnswers ==
  ASSUME TypeInv, LiveInv, job.pc \in {"cold", "start", "decode", "finish"},
         (job').pc \in {"cold", "start", "decode", "finish", "idle"}, UNCHANGED live,
         Len((sess').toks) \in Nat, Len((sess').toks) >= Len(sess.toks)
  PROVE  LiveInv'
<1>1. \A k \in LiveKinds : live[k].pos \in Nat
  BY GenerationAssumption DEF TypeInv, LiveOK, LiveStates
<1>2. Len(sess.toks) \in Nat
  BY DEF TypeInv, SessOK, Sessions
<1>3. \A k \in LiveKinds : live[k].valid => live[k].pos < Len((sess').toks)
  BY <1>1, <1>2 DEF LiveInv, LiveBehind
<1> QED BY <1>3 DEF LiveInv, MatchTrue, Untouched, ContinuedShort, LiveBehind

LEMMA LiveFinish ==
  ASSUME TypeInv, LiveInv, Finish
  PROVE  LiveInv'
<1>1. /\ job.pc = "finish" /\ job' = Idle /\ UNCHANGED sess
      /\ (\E raw, calls : Answers(raw, calls)) \/ CutOff
  BY FinishForms
<1>2. \A k \in LiveKinds :
        (live')[k].valid => (live')[k].of = sess.toks \/ (live')[k].pos < Len(sess.toks)
  <2> SUFFICES ASSUME NEW k \in LiveKinds, NEW l, l = (live')[k], l.valid
               PROVE  l.of = sess.toks \/ l.pos < Len(sess.toks)
    OBVIOUS
  <2>1. l = live[k] \/ l = Forgotten \/ l.of = sess.toks
    <3>1. CASE CutOff
      BY <3>1 DEF CutOff, Unremembered
    <3>2. CASE \E raw, calls : Answers(raw, calls)
      <4>1. PICK raw, calls : live' = Remembered(raw, calls)
        BY <3>2 DEF Answers
      <4>2. Remembers(k, raw, calls)
        BY RememberedForms DEF TypeInv
      <4> QED BY <4>1, <4>2 DEF Remembers, Remember
    <3> QED BY <1>1, <3>1, <3>2
  <2>2. ~Forgotten.valid
    BY DEF Forgotten
  <2> QED BY <1>1, <2>1, <2>2 DEF LiveInv, LiveBehind
<1>3. (job').pc = "idle"
  BY <1>1, IdlePhases
<1>4. \A k \in LiveKinds : (live')[k].pos \in Nat /\ Len(sess.toks) \in Nat
  <2>1. TypeInv'
    BY FinishKeeps
  <2>2. LiveOK(live')
    BY <2>1 DEF TypeInv
  <2>3. \A k \in LiveKinds : (live')[k].pos \in 0..Ctx
    BY <2>2 DEF LiveOK, LiveStates
  <2>4. Len(sess.toks) \in Nat
    BY DEF TypeInv, SessOK, Sessions
  <2> QED BY <2>3, <2>4, GenerationAssumption
<1>5. MatchTrue(job', sess', live')
  BY <1>1, <1>2, <1>4 DEF MatchTrue
<1> QED BY <1>3, <1>5 DEF LiveInv, ContinuedShort, LiveBehind

LEMMA LiveInvNext ==
  ASSUME Tokenizer, TypeInv, LiveInv, Undisturbed, [Next]_vars
  PROVE  LiveInv'
<1>1. ASSUME NEW r \in Requests, NEW api \in Apis, NEW tools \in Tools, NEW greedy \in Greedy,
             Receive(r, api, tools, greedy)
      PROVE  LiveInv'
  <2>1. job.pc = "idle" /\ UNCHANGED <<sess, live>>
    BY <1>1 DEF Receive
  <2>2. PICK q : Receiving(q)
    BY <1>1, ReceiveTyped
  <2> QED BY <2>1, <2>2, LiveReceive
<1>2. CASE SyncCancelled
  <2>1. job.pc \in {"prefill", "prefilled"} /\ stop /\ SyncAborts(~job.batch)
    BY <1>2 DEF SyncCancelled
  <2>2. job.batch = TRUE
    <3>1. job.batch \in BOOLEAN
      BY <2>1, JobForms DEF TypeInv, Syncing
    <3> QED BY <2>1, <3>1 DEF Undisturbed
  <2>3. SyncAborts(FALSE)
    BY <2>1, <2>2
  <2> QED BY <2>3, LiveAborts
<1>3. CASE SyncFails
  BY <1>3, LiveAborts DEF SyncFails
<1>4. CASE StoreCold
  <2>1. /\ job.pc = "cold" /\ UNCHANGED <<sess, live>> /\ job' = [job EXCEPT !.pc = "start"]
    BY <1>4 DEF StoreCold
  <2>2. job \in Syncing /\ Len(sess.toks) \in Nat
    BY <2>1, JobForms DEF TypeInv, SessOK, Sessions
  <2>3. (job').pc = "start"
    BY <2>1, <2>2 DEF Syncing
  <2> QED BY <2>1, <2>2, <2>3, LiveAnswers
<1>5. CASE StartDecode \/ ClientGone
  <2>1. /\ job.pc \in {"start", "decode"} /\ UNCHANGED <<sess, live>>
        /\ (job').pc \in {"decode", "idle"}
    BY <1>5 DEF StartDecode, ClientGone, Idle
  <2>2. Len(sess.toks) \in Nat
    BY DEF TypeInv, SessOK, Sessions
  <2> QED BY <2>1, <2>2, LiveAnswers
<1>6. ASSUME NEW t \in Decoded, DecodeStops(t) \/ DecodeToken(t)
      PROVE  LiveInv'
  <2>1. job.pc = "decode"
    BY <1>6 DEF DecodeStops, DecodeToken, Decoding
  <2>2. AnswerFacts
    BY <2>1, InAnswer
  <2>3. CASE DecodeStops(t)
    <3>1. UNCHANGED <<sess, live>> /\ (job').pc = "finish"
      BY <2>2, <2>3 DEF DecodeStops, AnswerFacts, Answering
    <3> QED BY <2>1, <2>2, <3>1, LiveAnswers DEF AnswerFacts
  <2>4. CASE DecodeToken(t)
    <3>1. PICK ends : Decodes(t, ends)
      BY <2>4, TokenDecodes
    <3>2. UNCHANGED live /\ (job').pc \in {"decode", "finish"}
          /\ (sess').toks = Append(sess.toks, t)
      BY <2>2, <3>1 DEF Decodes, AnswerFacts, Answering
    <3>3. Len((sess').toks) = Len(sess.toks) + 1
      BY <2>2, <3>1, <3>2 DEF Decodes, AnswerFacts
    <3> QED BY <2>1, <2>2, <3>2, <3>3, LiveAnswers DEF AnswerFacts
  <2> QED BY <1>6, <2>3, <2>4
<1>7. CASE DecodeFails \/ DecodeEnds
  <2>1. job.pc = "decode" /\ UNCHANGED live
    BY <1>7 DEF DecodeFails, DecodeEnds, Decoding
  <2>2. AnswerFacts
    BY <2>1, InAnswer
  <2>3. (job').pc = "finish" /\ (sess').toks = sess.toks
    BY <1>7, <2>2 DEF DecodeFails, DecodeEnds, AnswerFacts, Answering, Sessions
  <2> QED BY <2>1, <2>2, <2>3, LiveAnswers DEF AnswerFacts
<1>8. CASE Restart
  <2>1. /\ live' = [k \in LiveKinds |-> Forgotten] /\ (job').pc = "idle"
    BY <1>8 DEF Restart
  <2>2. \A k \in LiveKinds : ~(live')[k].valid
    BY <2>1 DEF Forgotten
  <2> QED BY <2>1, <2>2 DEF LiveInv, MatchTrue, ContinuedShort, LiveBehind
<1>9. CASE Stop \/ Finished \/ UNCHANGED vars
  BY <1>9 DEF Stop, Finished, vars, LiveInv
<1> QED BY <1>1, <1>2, <1>3, <1>4, <1>5, <1>6, <1>7, <1>8, <1>9, LiveEvict, LiveHit, LiveMiss,
           LiveCheck, LiveBegin, LivePrefill, LiveSyncEnds, LiveColdPrefix, LiveSynced,
           LiveFinish DEF Next, Serve

LEMMA LiveTrue ==
  ASSUME LiveInv
  PROVE  LiveStatesTrue
BY DEF LiveInv, LiveStatesTrue, MatchTrue, Untouched, Pos

\* Between requests a valid session at the position of a live state is the one
\* the state was remembered for, as long as no request is ended with another
\* session in place.
THEOREM LiveStatesMatch ==
  ASSUME Tokenizer
  PROVE  Spec /\ []Undisturbed => []LiveStatesTrue
<1>1. Init => TypeInv /\ LiveInv
  BY InitTyped, LiveInit
<1>2. TypeInv /\ LiveInv /\ Undisturbed /\ [Next]_vars => TypeInv' /\ LiveInv'
  BY TypeInvNext, LiveInvNext
<1>3. LiveInv => LiveStatesTrue
  BY LiveTrue
<1> QED BY <1>1, <1>2, <1>3, PTL DEF Spec
-----------------------------------------------------------------------------
(* The texts: what the tokens of a session, of a prompt and of a file      *)
(* spell to the client that holds the transcript.                          *)

Spells(toks, text) == Visible(Render(toks)) = text

\* Clients and device for which the transcript of a client is what was
\* evaluated: the device does not fail, no answer is cut at a stop string or
\* repaired where it is continued, and a tool result comes with the history.
Replayed ==
  /\ ~Device
  /\ StopApis \subseteq {"completions"}
  /\ OpenApis \cap {"responses", "anthropic"} = {}
  /\ ~TailOnly

\* Only a stop leaves the session invalid.
Complete(j, s, st) == j.pc # "idle" \/ ~st => s.valid

LiveTexts(l, ss) ==
  \A k \in LiveKinds : l[k].valid =>
    /\ k \in {"responses", "thinking"} => Spells(l[k].of, l[k].text)
    /\ k \in {"responses", "anthropic"} =>
         \A i \in l[k].ids : i \in DOMAIN ss /\ Spells(l[k].of, ss[i].text)

DiskTexts(d) ==
  \A t \in DOMAIN d : t = Render(d[t].toks) \/ Spells(d[t].toks, t)

PromptText(j) == j.pc # "idle" => Spells(j.prompt, j.req.history)

AnswerText(j, s) ==
  (j.pc = "decode" \/ (j.pc = "finish" /\ j.finish # "error")) /\ j.req.api # "completions" =>
    Spells(s.toks, j.req.history \o Visible(j.raw))

TextInv ==
  /\ Complete(job, sess, stop)
  /\ LiveTexts(live, said)
  /\ DiskTexts(disk)
  /\ PromptText(job)
  /\ AnswerText(job, sess)

\* Tokens of a suffix spell the suffix.
LEMMA SpellsMore ==
  ASSUME Tokenizer, NEW a \in Seq(Tokens), NEW key, Spells(a, key), NEW x \in Plain
  PROVE  Spells(a \o Tokenize(x), key \o x)
<1>1. x \in Texts
  BY PlainTexts
<1>2. Tokenize(x) \in Seq(Tokens) /\ Render(Tokenize(x)) = x
  BY <1>1 DEF Tokenizer
<1>3. Render(a \o Tokenize(x)) = Render(a) \o x
  BY <1>2, RenderConcat
<1>4. Visible(Render(a) \o x) = Visible(Render(a)) \o Visible(x)
  BY <1>1, RenderTyped, VisibleConcat
<1>5. Visible(x) = x
  BY VisiblePlain
<1> QED BY <1>3, <1>4, <1>5 DEF Spells

LEMMA PlainPrefix ==
  ASSUME NEW key \in Texts, NEW text \in Plain, IsPrefix(key, text)
  PROVE  key \in Plain
<1>1. text \in Texts
  BY PlainTexts
<1>2. TextAfter(key, text) \in Texts /\ text = key \o TextAfter(key, text)
  BY <1>1, PrefixSplit DEF Texts
<1>3. PICK rest \in Texts : text = key \o rest
  BY <1>2
<1>4. \A i \in 1..Len(key) : key[i] \in Chars \ {Hidden}
  <2> TAKE i \in 1..Len(key)
  <2>1. i \in 1..Len(text) /\ text[i] = key[i]
    BY <1>3 DEF Texts
  <2> QED BY <2>1 DEF Plain
<1> QED BY <1>4 DEF Plain, Texts

\* What is in front of a text is spelled by tokens that render to it or spell it.
LEMMA SpellsAfter ==
  ASSUME Tokenizer, NEW a \in Seq(Tokens), NEW key \in Texts, NEW text \in Plain,
         IsPrefix(key, text), key = Render(a) \/ Spells(a, key)
  PROVE  Spells(a \o Tokenize(TextAfter(key, text)), text)
<1>1. key \in Plain
  BY PlainPrefix
<1>2. Spells(a, key)
  BY <1>1, VisiblePlain DEF Spells
<1>3. TextAfter(key, text) \in Plain /\ text = key \o TextAfter(key, text)
  BY <1>1, PrefixSplit DEF Plain
<1> QED BY <1>2, <1>3, SpellsMore

\* A live state at the position of a valid session is of that session.
LEMMA LiveSpells ==
  ASSUME LiveInv, TextInv, Untouched(job), sess.valid, NEW k \in LiveKinds,
         live[k].valid, live[k].pos = Pos
  PROVE  /\ k \in {"responses", "thinking"} => Spells(sess.toks, live[k].text)
         /\ k \in {"responses", "anthropic"} =>
              \A i \in live[k].ids : i \in DOMAIN said /\ Spells(sess.toks, said[i].text)
<1>1. sess.toks = live[k].of
  BY DEF LiveInv, MatchTrue, Pos
<1> QED BY <1>1 DEF TextInv, LiveTexts

LEMMA CurrentSpells ==
  ASSUME LiveInv, TextInv, Untouched(job), sess.valid
  PROVE  CurrentText = Render(sess.toks) \/ Spells(sess.toks, CurrentText)
<1>1. "responses" \in LiveKinds /\ "thinking" \in LiveKinds
  BY DEF LiveKinds
<1>2. CASE live["responses"].valid /\ live["responses"].pos = Pos
  BY <1>1, <1>2, LiveSpells DEF CurrentText
<1>3. CASE /\ ~(live["responses"].valid /\ live["responses"].pos = Pos)
           /\ live["thinking"].valid /\ live["thinking"].pos = Pos
  BY <1>1, <1>3, LiveSpells DEF CurrentText
<1>4. CASE /\ ~(live["responses"].valid /\ live["responses"].pos = Pos)
           /\ ~(live["thinking"].valid /\ live["thinking"].pos = Pos)
  BY <1>4 DEF CurrentText
<1> QED BY <1>2, <1>3, <1>4

\* The prompt of a request, by whichever way it is found.
LEMMA WaySpells ==
  ASSUME Tokenizer, ~TailOnly, TypeInv, LiveInv, TextInv, Untouched(job), sess.valid,
         NEW q, ReqOK(q, said), NEW way, WayOK(way, q)
  PROVE  Spells(EffectivePrompt(way, q), q.history)
<1>1. /\ q.text \in Plain /\ q.text \in Texts /\ q.tail \in Plain /\ q.text = q.history
      /\ q \in Asked
  BY PlainTexts DEF ReqOK, Asked, Written
<1>2. sess.toks \in Seq(Tokens)
  BY DEF TypeInv, SessOK, Sessions
<1>3. ASSUME NEW k \in {"responses", "thinking"}, VisibleMatch(k, q)
      PROVE  Spells(Continue(TextAfter(live[k].text, q.text)), q.history)
  <2>1. k \in LiveKinds /\ live[k].valid /\ live[k].pos = Pos
    BY <1>3 DEF VisibleMatch, LiveKinds
  <2>2. IsPrefix(live[k].text, q.text)
    BY <1>3 DEF VisibleMatch, IsStrictPrefix
  <2>3. Spells(sess.toks, live[k].text)
    BY <2>1, LiveSpells
  <2>4. live[k].text \in Texts
    BY <2>1, PlainTexts DEF TypeInv, LiveOK, LiveStates
  <2> QED BY <1>1, <1>2, <2>2, <2>3, <2>4, SpellsAfter DEF Continue
<1>4. CASE way = "visible"
  BY <1>3, <1>4 DEF WayOK, Usable, EffectivePrompt
<1>5. CASE way = "thinking"
  BY <1>3, <1>5 DEF WayOK, Usable, EffectivePrompt
<1>6. CASE way = "ids"
  <2>1. q.api \in {"responses", "anthropic"} /\ IdsMatch(q.api, q)
    BY <1>6 DEF WayOK, Usable
  <2>2. PICK k \in LiveKinds : k = q.api /\ k \in {"responses", "anthropic"}
    BY <2>1 DEF LiveKinds
  <2>3. q.ids # {} /\ live[k].valid /\ live[k].pos = Pos /\ live[k].ids = q.ids
    BY <2>1, <2>2 DEF IdsMatch
  <2>4. PICK i : q.ids = {i} /\ q.history = said[i].text \o q.tail
    BY <2>3 DEF ReqOK
  <2>5. Spells(sess.toks, said[i].text)
    BY <2>2, <2>3, <2>4, LiveSpells
  <2>6. Spells(sess.toks \o Tokenize(q.tail), said[i].text \o q.tail)
    BY <1>1, <1>2, <2>5, SpellsMore
  <2> QED BY <1>6, <2>4, <2>6 DEF EffectivePrompt, Continue
<1>7. CASE way = "text"
  <2>1. IsPrefix(Render(sess.toks), q.text)
    BY <1>7 DEF WayOK, Usable
  <2>2. Render(sess.toks) \in Texts
    BY <1>2, RenderTyped
  <2>3. Spells(sess.toks \o Tokenize(TextAfter(Render(sess.toks), q.text)), q.text)
    BY <1>1, <1>2, <2>1, <2>2, SpellsAfter
  <2> QED BY <1>1, <1>7, <2>3 DEF EffectivePrompt, Continue
<1>8. CASE way \in {"tokens", "none"}
  <2>1. EffectivePrompt(way, q) = Tokenize(q.text)
    BY <1>8 DEF EffectivePrompt
  <2>2. Render(Tokenize(q.text)) = q.text
    BY <1>1 DEF Tokenizer
  <2> QED BY <1>1, <2>1, <2>2, VisiblePlain DEF Spells
<1> QED BY <1>4, <1>5, <1>6, <1>7, <1>8 DEF WayOK, WayNames

LEMMA TextInit ==
  ASSUME Init
  PROVE  TextInv
<1>1. /\ job.pc = "idle" /\ sess.valid /\ DOMAIN disk = {}
      /\ \A k \in LiveKinds : ~live[k].valid
  BY DEF Init, Idle, Forgotten, EmptySession
<1> QED BY <1>1 DEF TextInv, Complete, LiveTexts, DiskTexts, PromptText, AnswerText

\* Where a request stands, and whether the process is to stop, before a step
\* that leaves the session.
LEMMA CompleteNext ==
  ASSUME TypeInv, Complete(job, sess, stop), ~Device, [Next]_vars
  PROVE  Complete(job', sess', stop')
<1> DEFINE Kept2 == sess' = sess /\ stop' = stop /\ (job.pc # "idle" \/ ~stop)
<1>1. Kept2 => Complete(job', sess', stop')
  BY DEF Complete
<1>2. (sess').valid => Complete(job', sess', stop')
  BY DEF Complete
<1>3. CASE \E r \in Requests, api \in Apis, tools \in Tools, greedy \in Greedy :
             Receive(r, api, tools, greedy)
  <2>1. Kept2
    BY <1>3 DEF Receive
  <2> QED BY <1>1, <2>1
<1>4. CASE EvictStore \/ CheckContext \/ SyncEnds \/ StoreColdPrefix \/ Synced \/ StoreCold
           \/ StartDecode \/ DecodeEnds \/ Finish \/ ClientGone
  <2>1. Kept2
    BY <1>4 DEF EvictStore, CheckContext, SyncEnds, StoreColdPrefix, Synced, StoreCold,
                StartDecode, DecodeEnds, Finish, ClientGone
  <2> QED BY <1>1, <2>1
<1>5. CASE \E t \in Decoded : DecodeStops(t) \/ DecodeToken(t)
  <2>1. Kept2 \/ (sess').valid
    <3>1. PICK t \in Decoded : DecodeStops(t) \/ DecodeToken(t)
      BY <1>5
    <3>2. CASE DecodeStops(t)
      BY <3>2 DEF DecodeStops, Decoding
    <3>3. CASE DecodeToken(t)
      <4>1. PICK ends : Decodes(t, ends)
        BY <3>3, TokenDecodes
      <4>2. (sess').valid = TRUE
        BY <4>1 DEF Decodes
      <4> QED BY <4>2
    <3> QED BY <3>1, <3>2, <3>3
  <2> QED BY <1>1, <1>2, <2>1
<1>6. CASE LoadHit
  <2>1. PICK t : Loaded(t)
    BY <1>6, HitLoads
  <2>2. (sess').valid = TRUE
    BY <2>1 DEF Loaded
  <2> QED BY <1>2, <2>2
<1>7. CASE LoadMiss
  <2>1. sess.valid /\ EmptySession.valid
    BY <1>7 DEF LoadMiss, Complete, EmptySession
  <2>2. (sess').valid
    BY <1>7, <2>1, MissLeaves
  <2> QED BY <1>2, <2>2
<1>8. CASE BeginSync
  <2>1. (sess').valid
    BY <1>8, BeginSteps DEF Begins, TypeInv, SessOK, Sessions
  <2> QED BY <1>2, <2>1
<1>9. CASE Prefill
  <2>1. (sess').valid
    BY <1>9, PrefillSteps DEF Prefills
  <2> QED BY <1>2, <2>1
<1>10. CASE SyncCancelled
  BY <1>10, IdlePhases DEF SyncCancelled, SyncAborts, Complete
<1>11. CASE SyncFails \/ DecodeFails
  BY <1>11 DEF SyncFails, DecodeFails
<1>12. CASE Stop
  BY <1>12 DEF Stop, Complete
<1>13. CASE Restart
  <2>1. (sess').valid
    BY <1>13 DEF Restart, EmptySession
  <2> QED BY <1>2, <2>1
<1>14. CASE Finished \/ UNCHANGED vars
  BY <1>14 DEF Finished, vars
<1> QED BY <1>3, <1>4, <1>5, <1>6, <1>7, <1>8, <1>9, <1>10, <1>11, <1>12, <1>13, <1>14
        DEF Next, Serve

\* While the request stays the same its prompt does.
LEMMA PromptSame ==
  ASSUME PromptText(job), job.pc # "idle",
         (job').pc = "idle" \/ ((job').prompt = job.prompt /\ (job').req = job.req)
  PROVE  PromptText(job')
BY DEF PromptText

LEMMA PromptNext ==
  ASSUME Tokenizer, ~TailOnly, TypeInv, LiveInv, TextInv, [Next]_vars
  PROVE  PromptText(job')
<1>1. PromptText(job)
  BY DEF TextInv
<1> DEFINE Same == /\ job.pc # "idle"
                   /\ \/ (job').pc = "idle"
                      \/ (job').prompt = job.prompt /\ (job').req = job.req
<1>2. Same => PromptText(job')
  BY <1>1, PromptSame
<1>3. Idle.pc = "idle"
  BY IdlePhases
<1>4. CASE \E r \in Requests, api \in Apis, tools \in Tools, greedy \in Greedy :
             Receive(r, api, tools, greedy)
  <2>1. PICK r \in Requests, api \in Apis, tools \in Tools, greedy \in Greedy :
          Receive(r, api, tools, greedy)
    BY <1>4
  <2>2. PICK q : Receiving(q)
    BY <2>1, ReceiveTyped
  <2>3. PICK way : WayOK(way, q) /\ job' = Found(way, q)
    BY <2>2 DEF Receiving, Received
  <2>4. Untouched(job) /\ sess.valid
    BY <2>1 DEF Receive, Untouched, TextInv, Complete
  <2>5. Spells(EffectivePrompt(way, q), q.history)
    BY <2>2, <2>3, <2>4, WaySpells DEF Receiving
  <2> QED BY <2>3, <2>5 DEF Found, PromptText
<1>5. CASE EvictStore \/ LoadMiss
  <2>1. job.pc \in {"evict", "load"} /\ \E p : job' = [job EXCEPT !.pc = p]
    BY <1>5 DEF EvictStore, LoadMiss
  <2>2. job \in Looking
    BY <2>1, JobForms DEF TypeInv
  <2>3. Same
    BY <2>1, <2>2 DEF Looking
  <2> QED BY <1>2, <2>3
<1>6. CASE LoadHit
  <2>1. PICK t : Loaded(t)
    BY <1>6, HitLoads
  <2>2. job \in Looking /\ ReqOK(job.req, said)
    BY <1>6, HitLoads, JobForms DEF TypeInv
  <2>3. /\ job.req.text \in Plain /\ job.req.text = job.req.history
    BY <2>2 DEF ReqOK, Asked, Written
  <2>4. /\ t \in Texts /\ disk[t].toks \in Seq(Tokens) /\ IsPrefix(t, job.req.text)
        /\ t = Render(disk[t].toks) \/ Spells(disk[t].toks, t)
    BY <2>1 DEF Loaded, TypeInv, DiskOK, Payloads, TextInv, DiskTexts
  <2>5. Spells(disk[t].toks \o Tokenize(TextAfter(t, job.req.text)), job.req.text)
    BY <2>3, <2>4, SpellsAfter
  <2>6. /\ (job').prompt = disk[t].toks \o Tokenize(TextAfter(t, job.req.text))
        /\ (job').req = job.req
    BY <2>1, <2>2 DEF Loaded, Looking
  <2> QED BY <2>3, <2>5, <2>6 DEF PromptText
<1>7. CASE CheckContext
  <2>1. Same
    BY <1>3, <1>7 DEF CheckContext
  <2> QED BY <1>2, <2>1
<1>8. CASE BeginSync \/ Prefill \/ SyncEnds \/ StoreColdPrefix \/ Synced \/ StoreCold
           \/ StartDecode
  <2>1. job.pc \in {"sync", "prefill", "prefilled", "synced", "cold", "start"}
    BY <1>8 DEF BeginSync, Prefill, SyncEnds, StoreColdPrefix, Synced, StoreCold, StartDecode
  <2>2. job \in Syncing
    BY <2>1, JobForms DEF TypeInv
  <2>3. (job').prompt = job.prompt /\ (job').req = job.req
    <3>1. CASE BeginSync
      BY <2>2, <3>1, BeginSteps DEF Begins, Syncing
    <3>2. CASE Prefill
      BY <2>2, <3>2, PrefillSteps DEF Prefills, Syncing
    <3>3. CASE SyncEnds \/ StoreColdPrefix \/ Synced \/ StoreCold
      BY <2>2, <3>3 DEF SyncEnds, StoreColdPrefix, Synced, StoreCold, Syncing
    <3>4. CASE StartDecode
      BY <3>4 DEF StartDecode
    <3> QED BY <1>8, <3>1, <3>2, <3>3, <3>4
  <2> QED BY <1>1, <2>1, <2>3, PromptSame
<1>9. CASE SyncCancelled \/ SyncFails \/ ClientGone \/ Finish
  <2>1. Same
    BY <1>3, <1>9 DEF SyncCancelled, SyncFails, SyncAborts, ClientGone, Finish
  <2> QED BY <1>2, <2>1
<1>10. CASE (\E t \in Decoded : DecodeStops(t) \/ DecodeToken(t)) \/ DecodeFails \/ DecodeEnds
  <2>1. job.pc = "decode"
    BY <1>10 DEF DecodeStops, DecodeToken, DecodeFails, DecodeEnds, Decoding
  <2>2. job \in Answering
    BY <2>1, JobForms DEF TypeInv
  <2>3. (job').prompt = job.prompt /\ (job').req = job.req
    <3>1. ASSUME NEW t \in Decoded, DecodeStops(t)
          PROVE  (job').prompt = job.prompt /\ (job').req = job.req
      BY <2>2, <3>1 DEF DecodeStops, Answering
    <3>2. ASSUME NEW t \in Decoded, DecodeToken(t)
          PROVE  (job').prompt = job.prompt /\ (job').req = job.req
      BY <2>2, <3>2, TokenDecodes DEF Decodes, Answering
    <3>3. CASE DecodeFails \/ DecodeEnds
      BY <2>2, <3>3 DEF DecodeFails, DecodeEnds, Answering
    <3> QED BY <1>10, <3>1, <3>2, <3>3
  <2> QED BY <1>1, <2>1, <2>3, PromptSame
<1>11. CASE Stop \/ Restart \/ Finished \/ UNCHANGED vars
  <2>1. job' = job
    BY <1>11 DEF Stop, Restart, Finished, vars
  <2> QED BY <1>1, <2>1
<1> QED BY <1>4, <1>5, <1>6, <1>7, <1>8, <1>9, <1>10, <1>11 DEF Next, Serve

\* A file that is added is named by a text its tokens spell.
LEMMA FiledTexts ==
  ASSUME DiskTexts(disk), NEW s, NEW text, NEW d, Filed(d, text, s),
         s.valid => text = Render(s.toks) \/ Spells(s.toks, text)
  PROVE  DiskTexts(d)
<1> SUFFICES ASSUME NEW t \in DOMAIN d
             PROVE  t = Render(d[t].toks) \/ Spells(d[t].toks, t)
  BY DEF DiskTexts
<1>1. CASE t \in DOMAIN disk /\ d[t] = disk[t]
  BY <1>1 DEF DiskTexts
<1>2. CASE t = text /\ s.valid /\ d[t] = [toks |-> s.toks, logits |-> s.logits]
  BY <1>2
<1> QED BY <1>1, <1>2 DEF Filed

LEMMA DiskNext ==
  ASSUME TypeInv, LiveInv, TextInv, [Next]_vars
  PROVE  DiskTexts(disk')
<1>1. DiskTexts(disk)
  BY DEF TextInv
<1>2. disk' = disk => DiskTexts(disk')
  BY <1>1
<1>3. Filed(disk', Render(sess.toks), sess) => DiskTexts(disk')
  BY <1>1, FiledTexts
<1>4. CASE EvictStore \/ Restart
  <2>1. Untouched(job) /\ Filed(disk', CurrentText, sess)
    BY <1>4, EvictKeeps, RestartKeeps DEF EvictStore, Restart, Untouched
  <2>2. sess.valid => CurrentText = Render(sess.toks) \/ Spells(sess.toks, CurrentText)
    BY <2>1, CurrentSpells
  <2> QED BY <1>1, <2>1, <2>2, FiledTexts
<1>5. CASE LoadHit \/ LoadMiss
  <2>1. \A u \in DOMAIN disk' : u \in DOMAIN disk /\ (disk')[u] = disk[u]
    BY <1>5, HitLoads, MissLeaves DEF Loaded
  <2> QED BY <1>1, <2>1 DEF DiskTexts
<1>6. CASE Prefill
  <2>1. MaybeStoreContinued(sess')
    BY <1>6, PrefillSteps DEF Prefills
  <2>2. TypeInv'
    BY <1>6, PrefillKeeps
  <2>3. PICK s : s = sess'
    OBVIOUS
  <2>4. s \in Sessions
    BY <2>2, <2>3 DEF TypeInv, SessOK
  <2>5. Filed(disk', Render(s.toks), s)
    BY <2>1, <2>3, <2>4, ContinuedFiled
  <2> QED BY <1>1, <2>5, FiledTexts
<1>10. CASE BeginSync
  <2>1. Filed(disk', Render((sess').toks), sess')
    BY <1>10, BeginKeeps
  <2>2. PICK s : s = sess'
    OBVIOUS
  <2>3. Filed(disk', Render(s.toks), s)
    BY <2>1, <2>2
  <2> QED BY <1>1, <2>3, FiledTexts
<1>7. CASE StoreColdPrefix \/ Synced \/ StoreCold
  BY <1>3, <1>7, ColdPrefixKeeps, SyncedKeeps, ColdKeeps
<1>8. CASE \E r \in Requests, api \in Apis, tools \in Tools, greedy \in Greedy :
             Receive(r, api, tools, greedy)
  <2>1. disk' = disk
    BY <1>8 DEF Receive
  <2> QED BY <1>2, <2>1
<1>9. CASE CheckContext \/ SyncCancelled \/ SyncFails \/ SyncEnds \/ StartDecode
           \/ DecodeFails \/ DecodeEnds \/ ClientGone \/ Finish \/ Stop \/ Finished
           \/ (\E t \in Decoded : DecodeStops(t) \/ DecodeToken(t)) \/ UNCHANGED vars
  <2>1. disk' = disk
    BY <1>9 DEF CheckContext, SyncCancelled, SyncFails, SyncAborts, SyncEnds, StartDecode,
                 DecodeFails, DecodeEnds, ClientGone, Finish, Stop, Finished,
                DecodeStops, DecodeToken, vars
  <2> QED BY <1>2, <2>1
<1> QED BY <1>4, <1>5, <1>6, <1>7, <1>8, <1>9, <1>10 DEF Next, Serve

LEMMA LiveTextsSame ==
  ASSUME LiveTexts(live, said), UNCHANGED <<live, said>>
  PROVE  LiveTexts(live', said')
OBVIOUS

\* An answer is spelled by the session it leaves.
LEMMA FinishTexts ==
  ASSUME Replayed, TypeInv, TextInv, Finish
  PROVE  LiveTexts(live', said')
<1>1. /\ job.pc = "finish" /\ UNCHANGED sess
      /\ (\E raw, calls : Answers(raw, calls)) \/ CutOff
  BY FinishForms
<1>2. AnswerFacts
  BY <1>1, InAnswer
<1>3. job.req.text = job.req.history
  BY <1>2 DEF AnswerFacts, ReqOK, Replayed
<1>4. said \in Seq(Transcripts) /\ Len(said) \in Nat
  BY DEF TypeInv, SaidOK
<1>5. \A i \in DOMAIN said : i \in DOMAIN said' /\ (said')[i] = said[i]
  <2>1. \A a : \A i \in DOMAIN said :
          i \in DOMAIN Append(said, a) /\ Append(said, a)[i] = said[i]
    BY <1>4
  <2>2. said' = said \/ \E a : said' = Append(said, a)
    BY <1>1 DEF Answers, CutOff
  <2> QED BY <2>1, <2>2
<1> SUFFICES ASSUME NEW k \in LiveKinds, NEW l, l = (live')[k], l.valid
             PROVE  /\ k \in {"responses", "thinking"} => Spells(l.of, l.text)
                    /\ k \in {"responses", "anthropic"} =>
                         \A i \in l.ids : i \in DOMAIN said' /\ Spells(l.of, (said')[i].text)
  BY DEF LiveTexts
<1>6. CASE l = live[k]
  BY <1>5, <1>6 DEF TextInv, LiveTexts
<1>7. CASE l = Forgotten
  BY <1>7 DEF Forgotten
<1>8. CASE CutOff
  <2>1. l = live[k] \/ l = Forgotten
    BY <1>8 DEF CutOff, Unremembered
  <2> QED BY <1>6, <1>7, <2>1
<1>9. ASSUME NEW raw, NEW calls, Answers(raw, calls), l # live[k], l # Forgotten
      PROVE  /\ k \in {"responses", "thinking"} => Spells(l.of, l.text)
             /\ k \in {"responses", "anthropic"} =>
                  \A i \in l.ids : i \in DOMAIN said' /\ Spells(l.of, (said')[i].text)
  <2> DEFINE text == job.req.text \o Visible(raw)
             ids == IF calls THEN {Len(said) + 1} ELSE {}
  <2>1. \/ k = "responses" /\ job.req.api = "responses" /\ l = Remember(text, ids)
        \/ k = "anthropic" /\ job.req.api = "anthropic" /\ calls /\ l = Remember(<<>>, ids)
        \/ k = "thinking" /\ ~calls /\ job.req.api # "completions" /\ l = Remember(text, {})
    <3>1. l = Remembered(raw, calls)[k]
      BY <1>9 DEF Answers
    <3>2. Remembers(k, raw, calls)
      BY RememberedForms DEF TypeInv
    <3> QED BY <1>9, <3>1, <3>2 DEF Remembers
  <2>2. raw = job.raw /\ job.finish # "error" /\ job.req.api # "completions"
    BY <1>9, <2>1 DEF Answers, Replayed
  <2>3. Spells(sess.toks, text)
    BY <1>1, <1>3, <2>2 DEF TextInv, AnswerText
  <2>4. \A i \in ids : i \in DOMAIN said' /\ (said')[i].text = text
    <3>1. PICK a : a = [text |-> job.req.history \o Visible(raw), calls |-> calls]
      OBVIOUS
    <3>2. said' = Append(said, a) /\ a.text = text
      BY <1>3, <1>9, <3>1 DEF Answers
    <3>3. Len(said) + 1 \in DOMAIN said' /\ (said')[Len(said) + 1] = a
      BY <1>4, <3>2
    <3> QED BY <3>2, <3>3
  <2> HIDE DEF text, ids
  <2>5. CASE l = Remember(text, ids)
    BY <2>3, <2>4, <2>5 DEF Remember
  <2>6. CASE l = Remember(<<>>, ids) /\ k = "anthropic"
    BY <2>3, <2>4, <2>6 DEF Remember
  <2>7. CASE l = Remember(text, {}) /\ k = "thinking"
    BY <2>3, <2>7 DEF Remember
  <2> QED BY <2>1, <2>5, <2>6, <2>7
<1> QED BY <1>1, <1>6, <1>7, <1>8, <1>9

LEMMA LiveTextsNext ==
  ASSUME Replayed, TypeInv, TextInv, [Next]_vars
  PROVE  LiveTexts(live', said')
<1>1. LiveTexts(live, said)
  BY DEF TextInv
<1>2. CASE Synced
  <2>1. live' = KeepLive(Continued(job.way, job.req.api)) /\ said' = said
    BY <1>2 DEF Synced
  <2>2. \A k \in LiveKinds : (live')[k].valid => (live')[k] = live[k]
    BY <2>1 DEF KeepLive, Forgotten
  <2> QED BY <1>1, <2>1, <2>2 DEF LiveTexts
<1>3. CASE Finish
  BY <1>3, FinishTexts
<1>4. CASE Restart
  <2>1. live' = [k \in LiveKinds |-> Forgotten]
    BY <1>4 DEF Restart
  <2>2. \A k \in LiveKinds : ~(live')[k].valid
    BY <2>1 DEF Forgotten
  <2> QED BY <2>2 DEF LiveTexts
<1>5. CASE \E r \in Requests, api \in Apis, tools \in Tools, greedy \in Greedy :
             Receive(r, api, tools, greedy)
  <2>1. UNCHANGED <<live, said>>
    BY <1>5 DEF Receive
  <2> QED BY <1>1, <2>1, LiveTextsSame
<1>6. CASE EvictStore \/ LoadHit \/ LoadMiss \/ CheckContext \/ BeginSync \/ Prefill
           \/ SyncCancelled \/ SyncFails \/ SyncEnds \/ StoreColdPrefix \/ StoreCold
           \/ StartDecode \/ DecodeFails \/ DecodeEnds \/ ClientGone \/ Stop \/ Finished
           \/ (\E t \in Decoded : DecodeStops(t) \/ DecodeToken(t)) \/ UNCHANGED vars
  <2>1. UNCHANGED <<live, said>>
    BY <1>6 DEF EvictStore, LoadHit, LoadMiss, CheckContext, BeginSync, Prefill, SyncCancelled,
                SyncFails, SyncAborts, SyncEnds, StoreColdPrefix, StoreCold, StartDecode,
                DecodeFails, DecodeEnds, ClientGone, Stop, Finished, DecodeStops, DecodeToken,
                vars
  <2> QED BY <1>1, <2>1, LiveTextsSame
<1> QED BY <1>2, <1>3, <1>4, <1>5, <1>6 DEF Next, Serve

\* A token adds to the session what it adds to the answer.
LEMMA TokenSpells ==
  ASSUME NEW toks \in Seq(Tokens), NEW history, NEW raw \in Texts, NEW t \in Tokens,
         Spells(toks, history \o Visible(raw)), history \in Plain
  PROVE  Spells(Append(toks, t), history \o Visible(raw \o Piece(t)))
<1>1. Piece(t) \in Texts
  BY GenerationAssumption DEF Texts
<1>2. Render(Append(toks, t)) = Render(toks) \o Piece(t)
  BY RenderAppend
<1>3. Visible(Render(toks) \o Piece(t)) = Visible(Render(toks)) \o Visible(Piece(t))
  BY <1>1, RenderTyped, VisibleConcat
<1>4. Visible(raw \o Piece(t)) = Visible(raw) \o Visible(Piece(t))
  BY <1>1, VisibleConcat
<1>5. PICK v \in Plain, w \in Plain : v = Visible(raw) /\ w = Visible(Piece(t))
  BY <1>1, VisibleTyped
<1>6. (history \o v) \o w = history \o (v \o w)
  BY <1>5 DEF Plain
<1> QED BY <1>2, <1>3, <1>4, <1>5, <1>6 DEF Spells

LEMMA AnswerNext ==
  ASSUME Replayed, TypeInv, TextInv, [Next]_vars
  PROVE  AnswerText(job', sess')
<1>1. AnswerText(job, sess) /\ PromptText(job)
  BY DEF TextInv
<1>2. CASE StartDecode
  <2>1. /\ job.pc = "start" /\ UNCHANGED sess /\ (job').req = job.req /\ (job').raw = <<>>
    BY <1>2 DEF StartDecode
  <2>2. SyncFacts
    BY <2>1, InSync
  <2>3. sess.toks = job.prompt /\ job.req.history \in Plain
    BY <2>1, <2>2 DEF SyncFacts, SyncOK, ReqOK, Asked, Written
  <2>4. Visible(<<>>) = <<>>
    <3>1. <<>> \in Plain
      BY DEF Plain
    <3> QED BY <3>1, VisiblePlain
  <2>5. job.req.history \o <<>> = job.req.history
    BY <2>3 DEF Plain
  <2>6. Spells(job.prompt, job.req.history)
    BY <1>1, <2>1 DEF PromptText
  <2> QED BY <2>1, <2>3, <2>4, <2>5, <2>6 DEF AnswerText
<1>3. ASSUME NEW t \in Decoded, DecodeStops(t)
      PROVE  AnswerText(job', sess')
  <2>1. job.pc = "decode" /\ StopPos(job.raw \o Piece(t)) > 0
    BY <1>3 DEF DecodeStops, Decoding
  <2>2. AnswerFacts
    BY <2>1, InAnswer
  <2>3. (job').req = job.req
    BY <1>3, <2>2 DEF DecodeStops, AnswerFacts, Answering
  <2>4. job.req.api = "completions"
    <3>1. ASSUME job.req.api # "completions"
          PROVE  StopPos(job.raw \o Piece(t)) = 0
      <4>1. job.req.api \notin StopApis
        BY <3>1 DEF Replayed
      <4> QED BY <4>1 DEF StopPos
    <3> QED BY <2>1, <3>1
  <2> QED BY <2>3, <2>4 DEF AnswerText
<1>4. ASSUME NEW t \in Decoded, DecodeToken(t)
      PROVE  AnswerText(job', sess')
  <2>1. PICK ends : Decodes(t, ends)
    BY <1>4, TokenDecodes
  <2>2. AnswerFacts /\ job.pc = "decode" /\ t \in Tokens
    BY <2>1, InAnswer DEF Decodes
  <2>3. /\ (job').req = job.req /\ (job').raw = job.raw \o Piece(t)
        /\ (sess').toks = Append(sess.toks, t)
    BY <2>1, <2>2 DEF Decodes, AnswerFacts, Answering
  <2>4. job.req.history \in Plain
    BY <2>2 DEF AnswerFacts, ReqOK, Asked, Written
  <2>5. CASE job.req.api # "completions"
    <3>1. Spells(sess.toks, job.req.history \o Visible(job.raw))
      BY <1>1, <2>2, <2>5 DEF AnswerText
    <3>2. Spells(Append(sess.toks, t), job.req.history \o Visible(job.raw \o Piece(t)))
      BY <2>2, <2>4, <3>1, TokenSpells DEF AnswerFacts
    <3> QED BY <2>3, <3>2 DEF AnswerText
  <2>6. CASE job.req.api = "completions"
    BY <2>3, <2>6 DEF AnswerText
  <2> QED BY <2>5, <2>6
<1>5. CASE DecodeEnds
  <2>1. job.pc = "decode" /\ UNCHANGED sess
    BY <1>5 DEF DecodeEnds
  <2>2. job \in Answering
    BY <2>1, JobForms DEF TypeInv
  <2>3. (job').req = job.req /\ (job').raw = job.raw
    BY <1>5, <2>2 DEF DecodeEnds, Answering
  <2> QED BY <1>1, <2>1, <2>3 DEF AnswerText
<1>6. CASE DecodeFails
  BY <1>6 DEF DecodeFails, Replayed
<1>7. CASE Stop \/ Finished \/ UNCHANGED vars
  <2>1. UNCHANGED <<job, sess>>
    BY <1>7 DEF Stop, Finished, vars
  <2> QED BY <1>1, <2>1
<1>8. ASSUME (job').pc \notin {"decode", "finish"}
      PROVE  AnswerText(job', sess')
  BY <1>8 DEF AnswerText
<1>9. CASE \E r \in Requests, api \in Apis, tools \in Tools, greedy \in Greedy :
             Receive(r, api, tools, greedy)
  <2>1. PICK q, way : job' = Found(way, q)
    BY <1>9, ReceiveTyped DEF Receiving, Received
  <2>2. (job').pc \notin {"decode", "finish"}
    BY <2>1 DEF Found
  <2> QED BY <1>8, <2>2
<1>10. CASE EvictStore \/ LoadHit \/ LoadMiss
  <2>1. job.pc \in {"evict", "load"}
    BY <1>10 DEF EvictStore, LoadHit, LoadMiss
  <2>2. job \in Looking
    BY <2>1, JobForms DEF TypeInv
  <2>3. (job').pc \notin {"decode", "finish"}
    BY <1>10, <2>2 DEF EvictStore, LoadHit, LoadMiss, Looking
  <2> QED BY <1>8, <2>3
<1>11. CASE BeginSync \/ Prefill \/ SyncEnds \/ StoreColdPrefix \/ Synced \/ StoreCold
  <2>1. job.pc \in {"sync", "prefill", "prefilled", "synced", "cold"}
    BY <1>11 DEF BeginSync, Prefill, SyncEnds, StoreColdPrefix, Synced, StoreCold
  <2>2. job \in Syncing
    BY <2>1, JobForms DEF TypeInv
  <2>3. (job').pc \notin {"decode", "finish"}
    <3>1. CASE BeginSync
      BY <2>2, <3>1, BeginSteps DEF Begins, Syncing
    <3>2. CASE Prefill \/ SyncEnds \/ StoreColdPrefix \/ Synced \/ StoreCold
      BY <2>2, <3>2 DEF Prefill, SyncEnds, StoreColdPrefix, Synced, StoreCold, Syncing
    <3> QED BY <1>11, <3>1, <3>2
  <2> QED BY <1>8, <2>3
<1>12. CASE SyncCancelled \/ SyncFails \/ ClientGone \/ Finish \/ CheckContext \/ Restart
  <2>1. \/ job' = Idle \/ (job').pc = "sync" \/ (job' = job /\ job.pc = "idle")
    <3>1. CASE SyncCancelled \/ SyncFails \/ ClientGone \/ Finish
      BY <3>1 DEF SyncCancelled, SyncFails, SyncAborts, ClientGone, Finish
    <3>2. CASE CheckContext
      BY <3>2 DEF CheckContext
    <3>3. CASE Restart
      BY <3>3 DEF Restart
    <3> QED BY <1>12, <3>1, <3>2, <3>3
  <2>2. (job').pc \notin {"decode", "finish"}
    BY <2>1, IdlePhases
  <2> QED BY <1>8, <2>2
<1> QED BY <1>2, <1>3, <1>4, <1>5, <1>6, <1>7, <1>9, <1>10, <1>11, <1>12 DEF Next, Serve

LEMMA TextInvNext ==
  ASSUME Tokenizer, Replayed, TypeInv, LiveInv, TextInv, [Next]_vars
  PROVE  TextInv'
<1>1. Complete(job', sess', stop')
  BY CompleteNext DEF TextInv, Replayed
<1>2. PromptText(job')
  BY PromptNext DEF Replayed
<1>3. DiskTexts(disk')
  BY DiskNext
<1>4. LiveTexts(live', said') /\ AnswerText(job', sess')
  BY LiveTextsNext, AnswerNext
<1> QED BY <1>1, <1>2, <1>3, <1>4 DEF TextInv

LEMMA TextTrue ==
  ASSUME TypeInv, TextInv
  PROVE  FiledUnderItsText /\ PromptContinues
<1>1. FiledUnderItsText
  BY DEF TextInv, DiskTexts, FiledUnderItsText, Spells
<1>2. PromptContinues
  <2> SUFFICES ASSUME job.pc = "decode", job.n = 0
               PROVE  sess.toks = job.prompt /\ Visible(Render(sess.toks)) = job.req.history
    BY DEF PromptContinues
  <2>1. AnswerFacts
    BY InAnswer
  <2>2. sess.toks = job.prompt
    BY <2>1 DEF AnswerFacts, AnswerOK
  <2>3. Spells(job.prompt, job.req.history)
    BY DEF TextInv, PromptText
  <2> QED BY <2>2, <2>3 DEF Spells
<1> QED BY <1>1, <1>2

LEMMA TextInvariant ==
  ASSUME Tokenizer, Replayed
  PROVE  Spec /\ []Undisturbed => [](TypeInv /\ TextInv)
<1>1. Init => TypeInv /\ LiveInv /\ TextInv
  BY InitTyped, LiveInit, TextInit
<1>2. TypeInv /\ LiveInv /\ TextInv /\ Undisturbed /\ [Next]_vars
        => TypeInv' /\ LiveInv' /\ TextInv'
  BY TypeInvNext, LiveInvNext, TextInvNext
<1> QED BY <1>1, <1>2, PTL DEF Spec

\* Whatever was reused, the tokens in front of the first decoded one spell the
\* transcript the client means.
THEOREM PromptsContinue ==
  ASSUME Tokenizer, Replayed
  PROVE  Spec /\ []Undisturbed => []PromptContinues
<1>1. TypeInv /\ TextInv => PromptContinues
  BY TextTrue
<1> QED BY <1>1, TextInvariant, PTL

\* Every file is named by what its tokens render to, with or without the
\* reasoning.
THEOREM FilesFiled ==
  ASSUME Tokenizer, Replayed
  PROVE  Spec /\ []Undisturbed => []FiledUnderItsText
<1>1. TypeInv /\ TextInv => FiledUnderItsText
  BY TextTrue
<1> QED BY <1>1, TextInvariant, PTL
-----------------------------------------------------------------------------
(* The logits.                                                             *)

\* A file that is loaded is extended by the prompt, or its logits are those of
\* its tokens.
LoadsUsable ==
  job.pc = "check" /\ job.way = "none" /\ job.cached > 0 =>
    Pos < Len(job.prompt) \/ sess.logits = sess.toks

Fresh(s) == s.logits = s.toks

LogitsOK(j, s) ==
  /\ (Untouched(j) \/ j.pc = "finish") /\ s.valid => Fresh(s)
  /\ j.pc = "sync" /\ s.valid /\ s.toks = j.prompt => Fresh(s)
  /\ j.pc \in {"prefilled", "synced"} /\ j.target = Len(j.prompt) => Fresh(s)
  /\ j.pc \in {"cold", "start", "decode"} => Fresh(s)

LogitsInv == LogitsOK(job, sess)

\* A step between requests, or into a state where nothing is said of the logits.
LEMMA LogitsAnywhere ==
  ASSUME NEW j, NEW s, Fresh(s)
  PROVE  LogitsOK(j, s)
BY DEF LogitsOK

LEMMA LogitsInvalid ==
  ASSUME NEW j, NEW s, j.pc \in {"idle", "finish"}, ~s.valid
  PROVE  LogitsOK(j, s)
BY DEF LogitsOK

LEMMA LogitsSame ==
  ASSUME LogitsInv, Untouched(job) \/ job.pc \in {"cold", "start", "decode", "finish"},
         (job').pc \in {"idle", "evict", "check", "finish"} \/ Untouched(job'), UNCHANGED sess
  PROVE  LogitsOK(job', sess')
<1>1. sess.valid => Fresh(sess)
  BY DEF LogitsInv, LogitsOK
<1>2. CASE Fresh(sess)
  BY <1>2, LogitsAnywhere
<1>3. CASE ~sess.valid
  <2>1. (job').pc \in {"idle", "evict", "check", "finish", "load"}
    BY DEF Untouched
  <2> QED BY <1>3, <2>1 DEF LogitsOK
<1> QED BY <1>1, <1>2, <1>3

LEMMA LogitsBegin ==
  ASSUME TypeInv, LogitsInv, BeginSync
  PROVE  LogitsOK(job', sess')
<1>7. PICK b : Begins(b)
  BY BeginSteps
<1>1. job.pc = "sync"
  BY <1>7 DEF Begins
<1>2. SyncFacts
  BY <1>1, InSync
<1>3. /\ (job').pc = IF Kept(Target) = Target THEN "synced" ELSE "prefill"
      /\ (job').target = job.target /\ (job').prompt = job.prompt
  BY <1>2, <1>7 DEF Begins, SyncFacts, Syncing
<1>4. /\ (sess').toks = Kept(Target) /\ (sess').logits = sess.logits
  BY <1>2, <1>7 DEF Begins, SyncFacts, Sessions
<1>5. CASE Kept(Target) = Target /\ job.target = Len(job.prompt)
  <2>1. Target = job.prompt
    BY <1>2, <1>5 DEF SyncFacts, Target
  <2>2. Target # <<>>
    BY <1>2 DEF SyncFacts
  <2>3. sess.valid /\ Kept(Target) = sess.toks
    BY <1>5, <2>2 DEF Kept
  <2>4. Fresh(sess)
    BY <1>1, <1>5, <2>1, <2>3 DEF LogitsInv, LogitsOK
  <2> QED BY <1>4, <2>3, <2>4, LogitsAnywhere DEF Fresh
<1>6. CASE ~(Kept(Target) = Target /\ job.target = Len(job.prompt))
  BY <1>3, <1>6 DEF LogitsOK, Untouched
<1> QED BY <1>5, <1>6

LEMMA LogitsCheck ==
  ASSUME TypeInv, LogitsInv, Undisturbed, LoadsUsable, CheckContext
  PROVE  LogitsOK(job', sess')
<1>1. job.pc = "check" /\ UNCHANGED sess
  BY DEF CheckContext
<1>2. job \in Looking
  BY <1>1, JobForms DEF TypeInv
<1>3. /\ Len(job.prompt) \in Nat /\ Ctx \in Nat /\ job.cached \in Nat /\ Pos \in Nat
  <2>1. job.prompt \in Seq(Tokens) /\ job.cached \in Nat
    BY <1>2 DEF Looking, Prompted
  <2>2. sess.toks \in Seq(Tokens) /\ Ctx \in Nat
    BY GenerationAssumption DEF TypeInv, SessOK, Sessions
  <2> QED BY <2>1, <2>2 DEF Pos
<1>4. CASE Len(job.prompt) >= Ctx
  <2>1. ~(job.way = "none" /\ job.cached > 0)
    BY <1>1, <1>3, <1>4 DEF Undisturbed
  <2>2. Untouched(job)
    BY <1>1, <1>3, <2>1 DEF Untouched
  <2>3. (job').pc = "idle"
    BY <1>4, IdlePhases DEF CheckContext
  <2> QED BY <1>1, <2>2, <2>3, LogitsSame
<1>5. CASE ~(Len(job.prompt) >= Ctx)
  <2>1. (job').pc = "sync" /\ (job').prompt = job.prompt
    BY <1>5 DEF CheckContext
  <2>2. sess.valid /\ sess.toks = job.prompt => Fresh(sess)
    <3>1. CASE Untouched(job)
      BY <3>1 DEF LogitsInv, LogitsOK
    <3>2. CASE ~Untouched(job)
      <4>1. job.way = "none" /\ job.cached > 0
        BY <1>1, <1>3, <3>2 DEF Untouched
      <4> QED BY <1>1, <1>3, <4>1 DEF LoadsUsable, Fresh, Pos
    <3> QED BY <3>1, <3>2
  <2> QED BY <1>1, <2>1, <2>2 DEF LogitsOK, Untouched
<1> QED BY <1>4, <1>5

LEMMA LogitsInvNext ==
  ASSUME Tokenizer, TRUE \notin Greedy, TypeInv, LogitsInv, Undisturbed, LoadsUsable,
         [Next]_vars
  PROVE  LogitsInv'
<1> SUFFICES LogitsOK(job', sess')
  BY DEF LogitsInv
<1>1. CASE \E r \in Requests, api \in Apis, tools \in Tools, greedy \in Greedy :
             Receive(r, api, tools, greedy)
  <2>1. Untouched(job) /\ UNCHANGED sess
    BY <1>1 DEF Receive, Untouched
  <2>2. PICK q, way : job' = Found(way, q)
    BY <1>1, ReceiveTyped DEF Receiving, Received
  <2>3. (job').pc \in {"evict", "check"}
    BY <2>2 DEF Found
  <2> QED BY <2>1, <2>3, LogitsSame
<1>2. CASE EvictStore
  <2>1. job.pc = "evict" /\ UNCHANGED sess /\ job' = [job EXCEPT !.pc = "load"]
    BY <1>2 DEF EvictStore
  <2>2. job \in Looking
    BY <2>1, JobForms DEF TypeInv
  <2>3. Untouched(job) /\ Untouched(job')
    BY <2>1, <2>2 DEF Looking, Untouched
  <2> QED BY <2>1, <2>3, LogitsSame
<1>3. CASE LoadHit
  <2>1. PICK t : Loaded(t)
    BY <1>3, HitLoads
  <2>2. job \in Looking /\ job.way = "none"
    BY <1>3, HitLoads, JobForms DEF TypeInv
  <2>3. Len(disk[t].toks) > 0
    BY <2>1, GenerationAssumption DEF Loaded, TypeInv, DiskOK, Payloads
  <2>4. (job').pc = "check" /\ (job').way = "none" /\ (job').cached > 0
    BY <2>1, <2>2, <2>3 DEF Loaded, Looking
  <2> QED BY <2>4 DEF LogitsOK, Untouched
<1>4. CASE LoadMiss
  <2>1. job.pc = "load" /\ sess' \in {sess, EmptySession} /\ job' = [job EXCEPT !.pc = "check"]
    BY <1>4, MissLeaves
  <2>2. job \in Looking
    BY <2>1, JobForms DEF TypeInv
  <2>3. (job').pc = "check" /\ Untouched(job)
    BY <2>1, <2>2 DEF Looking, Untouched
  <2>4. CASE sess' = EmptySession
    BY <2>4, LogitsAnywhere DEF EmptySession, Fresh
  <2> QED BY <2>1, <2>3, <2>4, LogitsSame
<1>5. CASE CheckContext
  BY <1>5, LogitsCheck
<1>6. CASE BeginSync
  BY <1>6, LogitsBegin
<1>7. CASE Prefill
  <2>1. PICK n : Prefills(n)
    BY <1>7, PrefillSteps
  <2>2. job \in Syncing
    BY <1>7, PrefillSteps, JobForms DEF TypeInv
  <2>3. CASE n = job.target
    <3>1. (sess').logits = (sess').toks
      BY <2>1, <2>3 DEF Prefills
    <3> QED BY <3>1, LogitsAnywhere DEF Fresh
  <2>4. CASE n # job.target
    <3>1. (job').pc = "prefill"
      BY <2>1, <2>2, <2>4 DEF Prefills, Syncing
    <3> QED BY <3>1 DEF LogitsOK, Untouched
  <2> QED BY <2>3, <2>4
<1>8. CASE SyncCancelled
  <2>1. job.pc \in {"prefill", "prefilled"} /\ stop /\ SyncAborts(~job.batch)
    BY <1>8 DEF SyncCancelled
  <2>2. job.batch
    BY <2>1 DEF Undisturbed
  <2>3. ~(sess').valid /\ (job').pc = "idle"
    BY <2>1, <2>2, IdlePhases DEF SyncAborts, TypeInv, SessOK, Sessions
  <2> QED BY <2>3, LogitsInvalid
<1>9. CASE SyncFails
  <2>1. ~(sess').valid /\ (job').pc = "idle"
    BY <1>9, IdlePhases DEF SyncFails, SyncAborts, TypeInv, SessOK, Sessions
  <2> QED BY <2>1, LogitsInvalid
<1>10. CASE SyncEnds
  <2>1. job.pc = "prefilled" /\ UNCHANGED sess /\ job' = [job EXCEPT !.pc = "synced"]
    BY <1>10 DEF SyncEnds
  <2>2. job \in Syncing
    BY <2>1, JobForms DEF TypeInv
  <2>3. (job').pc = "synced" /\ (job').target = job.target /\ (job').prompt = job.prompt
    BY <2>1, <2>2 DEF Syncing
  <2> QED BY <2>1, <2>3 DEF LogitsInv, LogitsOK, Untouched
<1>11. CASE StoreColdPrefix
  <2>1. /\ job.pc = "synced" /\ job.target < Len(job.prompt) /\ UNCHANGED sess
        /\ job' = [job EXCEPT !.pc = "sync", !.target = Len(job.prompt), !.suppressed = -1]
    BY <1>11 DEF StoreColdPrefix
  <2>2. SyncFacts
    BY <2>1, InSync
  <2>3. (job').pc = "sync" /\ (job').prompt = job.prompt
    BY <2>1, <2>2 DEF SyncFacts, Syncing
  <2>4. sess.toks # job.prompt
    BY <2>1, <2>2 DEF SyncFacts, SyncOK, Target
  <2> QED BY <2>1, <2>3, <2>4 DEF LogitsOK, Untouched
<1>12. CASE Synced \/ StoreCold \/ StartDecode
  <2>1. Fresh(sess) /\ UNCHANGED sess
    BY <1>12 DEF Synced, StoreCold, StartDecode, LogitsInv, LogitsOK
  <2> QED BY <2>1, LogitsAnywhere
<1>13. CASE \E t \in Decoded : DecodeStops(t) \/ DecodeToken(t)
  <2>1. PICK t \in Decoded : DecodeStops(t) \/ DecodeToken(t)
    BY <1>13
  <2>2. job.pc = "decode"
    BY <2>1 DEF DecodeStops, DecodeToken, Decoding
  <2>3. AnswerFacts
    BY <2>2, InAnswer
  <2>4. CASE DecodeStops(t)
    <3>1. UNCHANGED sess /\ Fresh(sess)
      BY <2>2, <2>4 DEF DecodeStops, LogitsInv, LogitsOK
    <3> QED BY <3>1, LogitsAnywhere
  <2>5. CASE DecodeToken(t)
    <3>1. PICK ends : Decodes(t, ends)
      BY <2>5, TokenDecodes
    <3>2. job.req.greedy \in Greedy /\ Greedy \subseteq BOOLEAN
      BY <2>3, GenerationAssumption DEF AnswerFacts, ReqOK, Asked
    <3>3. ~job.req.greedy
      BY <3>2
    <3>4. LogitsAfter(Append(sess.toks, t), ends) = Append(sess.toks, t)
      BY <3>3 DEF LogitsAfter
    <3>5. Fresh(sess')
      BY <3>1, <3>4 DEF Decodes, Fresh
    <3> QED BY <3>5, LogitsAnywhere
  <2> QED BY <2>1, <2>4, <2>5
<1>14. CASE DecodeFails
  <2>1. job.pc = "decode" /\ ~(sess').valid
    BY <1>14 DEF DecodeFails, Decoding, TypeInv, SessOK, Sessions
  <2>2. AnswerFacts
    BY <2>1, InAnswer
  <2>3. (job').pc = "finish"
    BY <1>14, <2>2 DEF DecodeFails, AnswerFacts, Answering
  <2> QED BY <2>1, <2>3, LogitsInvalid
<1>15. CASE DecodeEnds \/ ClientGone
  <2>1. Fresh(sess) /\ UNCHANGED sess
    BY <1>15 DEF DecodeEnds, ClientGone, LogitsInv, LogitsOK
  <2> QED BY <2>1, LogitsAnywhere
<1>16. CASE Finish
  <2>1. job.pc = "finish" /\ (job').pc = "idle" /\ UNCHANGED sess
    BY <1>16, IdlePhases DEF Finish
  <2> QED BY <2>1, LogitsSame
<1>17. CASE Restart
  BY <1>17, LogitsAnywhere DEF Restart, EmptySession, Fresh
<1>18. CASE Stop \/ Finished \/ UNCHANGED vars
  BY <1>18 DEF Stop, Finished, vars, LogitsInv
<1> QED BY <1>1, <1>2, <1>3, <1>4, <1>5, <1>6, <1>7, <1>8, <1>9, <1>10, <1>11, <1>12, <1>13,
           <1>14, <1>15, <1>16, <1>17, <1>18 DEF Next, Serve

\* The first token of an answer is chosen from the logits of its prompt, when
\* no decode is greedy and no load leaves stale logits to be used.
THEOREM FirstTokensFollow ==
  ASSUME Tokenizer, TRUE \notin Greedy
  PROVE  Spec /\ []Undisturbed /\ []LoadsUsable => []FirstTokenFollowsPrompt
<1>1. Init => TypeInv /\ LogitsInv
  BY InitTyped, LogitsAnywhere DEF Init, EmptySession, LogitsInv, Fresh
<1>2. TypeInv /\ LogitsInv /\ Undisturbed /\ LoadsUsable /\ [Next]_vars
        => TypeInv' /\ LogitsInv'
  BY TypeInvNext, LogitsInvNext
<1>3. LogitsInv => FirstTokenFollowsPrompt
  BY DEF LogitsInv, LogitsOK, Fresh, FirstTokenFollowsPrompt
<1> QED BY <1>1, <1>2, <1>3, PTL DEF Spec
===============================================================================
