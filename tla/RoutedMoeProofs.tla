---------------------------- MODULE RoutedMoeProofs ----------------------------
(***************************************************************************)
(* Proofs about the routed experts: for any number of experts, tokens and  *)
(* lanes, any tile and any scores, and every order of the threads; and     *)
(* about the other choice of the best of a row, the sampler's.             *)
(*                                                                         *)
(* First what recursive functions, bags and cardinalities need.  Then the  *)
(* routers: both choose the experts that outscore all others, and there is *)
(* only one such set.  Then the counting sort and the tiles: every pair of *)
(* the batch is in exactly one block, with its own expert.  The invariant  *)
(* MoeInv says what each kernel has done with the blocks that have run.    *)
(* Last the sampler: what its walks over the vocabulary leave to draw      *)
(* from, and how often a draw takes each of it.                            *)
(***************************************************************************)
EXTENDS RoutedMoe, Sampling, SequenceTheorems, FiniteSetTheorems, WellFoundedInduction, TLAPS

-----------------------------------------------------------------------------
(* Recursion, bags and finite sets.                                        *)

LEMMA Least ==
  ASSUME NEW V, V \subseteq Nat, V # {}
  PROVE  \E v \in V : \A w \in V : v <= w
<1>1. IsWellFoundedOn(OpToRel(<, Nat), Nat)
  BY NatLessThanWellFounded
<1>2. PICK v \in V : \A w \in V : ~(<<w, v>> \in OpToRel(<, Nat))
  BY <1>1, WFMin
<1>3. \A w \in V : w \in Nat /\ v \in Nat /\ ~(w < v)
  BY <1>2 DEF OpToRel
<1> QED BY <1>3

\* Induction, stated for a set of numbers.
LEMMA Induct ==
  ASSUME NEW P, 0 \in P, \A n \in Nat : n \in P => n + 1 \in P
  PROVE  Nat \subseteq P
<1> DEFINE V == Nat \ P
<1>1. SUFFICES ASSUME V # {} PROVE FALSE
  OBVIOUS
<1>2. PICK v \in V : \A w \in V : v <= w
  BY <1>1, Least
<1>3. v # 0 /\ v \in Nat /\ v \notin P
  OBVIOUS
<1>4. v - 1 \in Nat /\ v - 1 \notin V
  BY <1>2, <1>3
<1> QED BY <1>3, <1>4

\* f is computed step by step up to n.
Steps(f, n, base, step) ==
  f[0] = base /\ \A i \in 1..n : f[i] = step[<<i, f[i - 1]>>]

\* A function that each value determines from the one before exists.
LEMMA Recursion ==
  ASSUME NEW V, NEW base \in V, NEW n \in Nat, NEW step,
         \A i \in 1..n, v \in V : step[<<i, v>>] \in V
  PROVE  \E f \in [0..n -> V] : Steps(f, n, base, step)
<1> DEFINE P == {m \in Nat : m <= n => \E f \in [0..m -> V] : Steps(f, m, base, step)}
<1>1. 0 \in P
  <2> DEFINE e == [i \in 0..0 |-> base]
  <2>1. e \in [0..0 -> V] /\ Steps(e, 0, base, step)
    BY DEF Steps
  <2> QED BY <2>1
<1>2. ASSUME NEW m \in Nat, m \in P PROVE m + 1 \in P
  <2>1. SUFFICES ASSUME m + 1 <= n
                 PROVE  \E g \in [0..(m + 1) -> V] : Steps(g, m + 1, base, step)
    OBVIOUS
  <2>2. PICK f \in [0..m -> V] : Steps(f, m, base, step)
    BY <1>2, <2>1
  <2> DEFINE last == step[<<m + 1, f[m]>>]
             g == [i \in 0..(m + 1) |-> IF i <= m THEN f[i] ELSE last]
  <2>3. last \in V
    BY <2>1, <2>2
  <2>4. g \in [0..(m + 1) -> V]
    <3> HIDE DEF last
    <3> QED BY <2>2, <2>3
  <2>5. /\ \A i \in 0..m : g[i] = f[i]
        /\ g[m + 1] = last
    OBVIOUS
  <2> HIDE DEF g
  <2>6. g[0] = base
    BY <2>2, <2>5 DEF Steps
  <2>7. ASSUME NEW i \in 1..(m + 1) PROVE g[i] = step[<<i, g[i - 1]>>]
    <3>1. g[i - 1] = f[i - 1]
      BY <2>5
    <3>2. CASE i = m + 1
      BY <2>5, <3>1, <3>2
    <3>3. CASE i # m + 1
      <4>1. i \in 1..m /\ i \in 0..m
        BY <3>3
      <4> QED BY <2>2, <2>5, <3>1, <4>1 DEF Steps
    <3> QED BY <3>2, <3>3
  <2> QED BY <2>4, <2>6, <2>7 DEF Steps
<1> HIDE DEF P
<1>3. n \in P
  BY <1>1, <1>2, Induct
<1> QED BY <1>3 DEF P

\* Bags of disjoint sets add up to the bag of the union.
LEMMA BagsJoin ==
  ASSUME NEW S, NEW R, S \cap R = {}
  PROVE  SetToBag(S) (+) SetToBag(R) = SetToBag(S \cup R)
BY DEF SetToBag, (+)

LEMMA NoBag == EmptyBag = SetToBag({})
BY DEF EmptyBag

\* The largest element of a finite set of numbers.
LEMMA MaxOf ==
  ASSUME NEW S, IsFiniteSet(S), S \subseteq Nat, S # {}
  PROVE  Max(S) \in S /\ \A x \in S : x <= Max(S)
<1> DEFINE P == {n \in Nat : \A U \in SUBSET S :
                   Cardinality(U) = n /\ U # {} => \E m \in U : \A x \in U : x <= m}
<1>1. 0 \in P
  <2>1. \A U \in SUBSET S : IsFiniteSet(U)
    BY FS_Subset
  <2> QED BY <2>1, FS_EmptySet
<1>2. ASSUME NEW n \in Nat, n \in P PROVE n + 1 \in P
  <2>1. SUFFICES ASSUME NEW U \in SUBSET S, Cardinality(U) = n + 1, U # {}
                 PROVE  \E m \in U : \A x \in U : x <= m
    OBVIOUS
  <2>2. PICK u : u \in U
    BY <2>1
  <2>3. IsFiniteSet(U)
    BY FS_Subset
  <2>4. Cardinality(U \ {u}) = n /\ U \ {u} \in SUBSET S
    <3>1. Cardinality(U \ {u}) = Cardinality(U) - 1
      BY <2>2, <2>3, FS_RemoveElement
    <3>2. (n + 1) - 1 = n
      OBVIOUS
    <3>3. U \ {u} \in SUBSET S
      OBVIOUS
    <3> QED BY <2>1, <3>1, <3>2, <3>3
  <2>5. CASE U \ {u} = {}
    <3>1. \A x \in U : x = u
      BY <2>5
    <3> QED BY <2>2, <3>1
  <2>6. CASE U \ {u} # {}
    <3>1. PICK m \in U \ {u} : \A x \in U \ {u} : x <= m
      BY <1>2, <2>4, <2>6
    <3>2. CASE u <= m
      BY <3>1, <3>2
    <3>3. CASE ~(u <= m)
      <4>1. \A x \in U : x <= u
        BY <2>2, <3>1, <3>3
      <4> QED BY <2>2, <4>1
    <3> QED BY <3>2, <3>3
  <2> QED BY <2>5, <2>6
<1> HIDE DEF P
<1>3. Cardinality(S) \in P
  BY <1>1, <1>2, Induct, FS_CardinalityType
<1>4. PICK m \in S : \A x \in S : x <= m
  BY <1>3 DEF P
<1>5. \E x \in S : \A y \in S : x >= y
  BY <1>4
<1>6. Max(S) \in S /\ \A y \in S : Max(S) >= y
  BY <1>5 DEF Max
<1> QED BY <1>6

\* The smallest element of a set of numbers.
LEMMA MinOf ==
  ASSUME NEW S, S \subseteq Nat, S # {}
  PROVE  Min(S) \in S /\ \A x \in S : Min(S) <= x
<1>1. \E x \in S : \A y \in S : x <= y
  BY Least
<1> QED BY <1>1 DEF Min

LEMMA MinOfTwo ==
  ASSUME NEW a \in Int, NEW b \in Int
  PROVE  Min({a, b}) = IF a <= b THEN a ELSE b
<1>1. \E x \in {a, b} : \A y \in {a, b} : x =< y
  OBVIOUS
<1>2. Min({a, b}) \in {a, b} /\ \A y \in {a, b} : Min({a, b}) =< y
  BY <1>1 DEF Min
<1> QED BY <1>2

-----------------------------------------------------------------------------
(* The routers.                                                            *)

Scores == [MoeExperts -> Int]

\* The experts of best are ahead of all the others of all.
Lead(sc, best, all) ==
  /\ best \subseteq all
  /\ \A a \in best, b \in all \ best : Outscores(sc, a, b)

LEMMA Constants ==
  /\ NumExperts \in Nat \ {0} /\ TopK \in Nat \ {0} /\ TopK <= NumExperts
  /\ TileM \in Nat \ {0}
  /\ \A n \in TokenCounts : n \in Nat \ {0}
  /\ ScoreVectors \subseteq Scores
  /\ MoeExperts \subseteq Nat
  /\ \A e : e \in MoeExperts <=> (e \in Nat /\ e < NumExperts)
  /\ IsFiniteSet(MoeExperts)
<1>1. NumExperts \in Nat \ {0} /\ TopK \in Nat \ {0} /\ TopK <= NumExperts
  BY RoutedMoeAssumption
<1>2. IsFiniteSet(MoeExperts)
  BY <1>1, FS_Interval DEF MoeExperts
<1> QED BY <1>1, <1>2, RoutedMoeAssumption DEF MoeExperts, Scores

LEMMA OutscoresTotal ==
  ASSUME NEW sc \in Scores, NEW a \in MoeExperts, NEW b \in MoeExperts
  PROVE  /\ a # b => Outscores(sc, a, b) \/ Outscores(sc, b, a)
         /\ ~(Outscores(sc, a, b) /\ Outscores(sc, b, a))
<1>1. a \in Nat /\ b \in Nat /\ a # -1 /\ b # -1 /\ sc[a] \in Int /\ sc[b] \in Int
  BY Constants DEF Scores
<1> QED BY <1>1 DEF Outscores

LEMMA OutscoresTransitive ==
  ASSUME NEW sc \in Scores,
         NEW a \in MoeExperts, NEW b \in MoeExperts, NEW c \in MoeExperts,
         Outscores(sc, a, b), Outscores(sc, b, c)
  PROVE  Outscores(sc, a, c)
<1>1. /\ a \in Nat /\ b \in Nat /\ c \in Nat /\ a # -1 /\ b # -1 /\ c # -1
      /\ sc[a] \in Int /\ sc[b] \in Int /\ sc[c] \in Int
  BY Constants DEF Scores
<1> QED BY <1>1 DEF Outscores

\* Two equally large sets of experts that are ahead of the others are the same.
LEMMA LeadersUnique ==
  ASSUME NEW sc \in Scores, NEW A, NEW B,
         Lead(sc, A, MoeExperts), Lead(sc, B, MoeExperts),
         Cardinality(A) = Cardinality(B)
  PROVE  A = B
<1>1. A \in SUBSET MoeExperts /\ B \in SUBSET MoeExperts
  BY DEF Lead
<1>2. IsFiniteSet(A) /\ IsFiniteSet(B)
  BY <1>1, Constants, FS_Subset
<1>3. A \subseteq B \/ B \subseteq A
  <2>1. SUFFICES ASSUME NEW a \in A \ B, NEW b \in B \ A PROVE FALSE
    OBVIOUS
  <2>2. Outscores(sc, a, b) /\ Outscores(sc, b, a)
    BY <1>1, <2>1 DEF Lead
  <2> QED BY <1>1, <2>1, <2>2, OutscoresTotal
<1> QED BY <1>2, <1>3, FS_Subset

\* The list is as long as top_k allows, in order, and ahead of the other experts.
Ranked(sc, list, n) ==
  /\ list \in Seq(MoeExperts)
  /\ Len(list) = IF n < TopK THEN n ELSE TopK
  /\ \A i, j \in 1..Len(list) : i < j => Outscores(sc, list[i], list[j])
  /\ Lead(sc, ToSet(list), 0..(n - 1))
  /\ n <= TopK => ToSet(list) = 0..(n - 1)

LEMMA RankedDistinct ==
  ASSUME NEW sc \in Scores, NEW list, NEW n \in Nat, Ranked(sc, list, n)
  PROVE  \A i, j \in 1..Len(list) : list[i] = list[j] => i = j
<1>1. SUFFICES ASSUME NEW i \in 1..Len(list), NEW j \in 1..Len(list),
                      list[i] = list[j], i < j
               PROVE  FALSE
  <2>1. \A i, j \in 1..Len(list) : i \in Int /\ j \in Int
    OBVIOUS
  <2> QED BY <1>1, <2>1
<1>2. list[i] \in MoeExperts /\ Outscores(sc, list[i], list[i])
  BY <1>1 DEF Ranked
<1> QED BY <1>2, OutscoresTotal

\* What the insertion of e before place m gives.
LEMMA InsertAtIs ==
  ASSUME NEW S, NEW s \in Seq(S), NEW m \in 1..(Len(s) + 1), NEW e \in S
  PROVE  /\ InsertAt(s, m, e) \in Seq(S)
         /\ Len(InsertAt(s, m, e)) = Len(s) + 1
         /\ \A j \in 1..(Len(s) + 1) :
              InsertAt(s, m, e)[j] = IF j < m THEN s[j] ELSE IF j = m THEN e ELSE s[j - 1]
<1> DEFINE a == SubSeq(s, 1, m - 1)
           b == SubSeq(s, m, Len(s))
<1>1. Len(s) \in Nat /\ m \in Int /\ \A i \in 1..Len(s) : s[i] \in S
  OBVIOUS
<1>2. a \in Seq(S) /\ Len(a) = m - 1 /\ \A j \in 1..(m - 1) : a[j] = s[j]
  <2>1. \A i \in 1..(m - 1) : s[i] \in S
    BY <1>1
  <2>2. /\ SubSeq(s, 1, m - 1) \in Seq(S)
        /\ Len(SubSeq(s, 1, m - 1)) = IF 1 <= m - 1 THEN m - 1 - 1 + 1 ELSE 0
        /\ \A j \in 1..(m - 1 - 1 + 1) : SubSeq(s, 1, m - 1)[j] = s[1 + j - 1]
    BY <1>1, <2>1, SubSeqProperties
  <2> QED BY <1>1, <2>2
<1>3. b \in Seq(S) /\ Len(b) = Len(s) - m + 1
      /\ \A j \in 1..(Len(s) - m + 1) : b[j] = s[m + j - 1]
  <2>1. \A i \in m..Len(s) : s[i] \in S
    BY <1>1
  <2>2. /\ SubSeq(s, m, Len(s)) \in Seq(S)
        /\ Len(SubSeq(s, m, Len(s))) = IF m <= Len(s) THEN Len(s) - m + 1 ELSE 0
        /\ \A j \in 1..(Len(s) - m + 1) : SubSeq(s, m, Len(s))[j] = s[m + j - 1]
    BY <1>1, <2>1, SubSeqProperties
  <2> QED BY <1>1, <2>2
<1>4. InsertAt(s, m, e) = a \o <<e>> \o b
  BY DEF InsertAt
<1> HIDE DEF a, b
<1> DEFINE c == a \o <<e>>
<1>5. c \in Seq(S) /\ Len(c) = m /\ \A j \in 1..m : c[j] = IF j < m THEN s[j] ELSE e
  <2>1. <<e>> \in Seq(S) /\ Len(<<e>>) = 1 /\ <<e>>[1] = e
    OBVIOUS
  <2>2. /\ a \o <<e>> \in Seq(S)
        /\ Len(a \o <<e>>) = Len(a) + 1
        /\ \A j \in 1..(Len(a) + 1) :
             (a \o <<e>>)[j] = IF j <= Len(a) THEN a[j] ELSE <<e>>[j - Len(a)]
    BY <1>2, <2>1, ConcatProperties
  <2> QED BY <1>1, <1>2, <2>1, <2>2
<1> HIDE DEF c
<1>6. /\ c \o b \in Seq(S)
      /\ Len(c \o b) = Len(c) + Len(b)
      /\ \A j \in 1..(Len(c) + Len(b)) :
           (c \o b)[j] = IF j <= Len(c) THEN c[j] ELSE b[j - Len(c)]
  BY <1>3, <1>5, ConcatProperties
<1>7. InsertAt(s, m, e) = c \o b
  BY <1>4 DEF c
<1>8. ASSUME NEW j \in 1..(Len(s) + 1)
      PROVE  (c \o b)[j] = IF j < m THEN s[j] ELSE IF j = m THEN e ELSE s[j - 1]
  <2>1. CASE j <= m
    BY <1>1, <1>3, <1>5, <1>6, <2>1
  <2>2. CASE j > m
    <3>1. (c \o b)[j] = b[j - m] /\ j - m \in 1..(Len(s) - m + 1)
      BY <1>1, <1>3, <1>5, <1>6, <2>2
    <3>2. b[j - m] = s[m + (j - m) - 1] /\ m + (j - m) - 1 = j - 1
      BY <1>1, <1>3, <3>1
    <3> QED BY <1>1, <2>2, <3>1, <3>2
  <2>3. j <= m \/ j > m
    BY <1>1
  <2> QED BY <2>1, <2>2, <2>3
<1> QED BY <1>1, <1>3, <1>5, <1>6, <1>7, <1>8

LEMMA RankedIntro ==
  ASSUME NEW sc, NEW list \in Seq(MoeExperts), NEW k,
         Len(list) = IF k < TopK THEN k ELSE TopK,
         \A i, j \in 1..Len(list) : i < j => Outscores(sc, list[i], list[j]),
         Lead(sc, ToSet(list), 0..(k - 1)),
         k <= TopK => ToSet(list) = 0..(k - 1)
  PROVE  Ranked(sc, list, k)
BY DEF Ranked

\* t is list with e put before its place p.
WithPut(t, list, p, e) ==
  /\ t \in Seq(MoeExperts)
  /\ Len(t) = Len(list) + 1
  /\ \A j \in 1..(Len(list) + 1) :
       t[j] = IF j < p THEN list[j] ELSE IF j = p THEN e ELSE list[j - 1]

LEMMA InsertExpert ==
  ASSUME NEW list \in Seq(MoeExperts), NEW p \in 1..(Len(list) + 1), NEW e \in MoeExperts
  PROVE  WithPut(InsertAt(list, p, e), list, p, e)
BY InsertAtIs DEF WithPut

\* One step of the scan keeps the list ranked.
LEMMA PlaceRanks ==
  ASSUME NEW sc \in Scores, NEW n \in MoeExperts, NEW list, Ranked(sc, list, n)
  PROVE  Ranked(sc, Place(sc, list, n), n + 1)
<1>0. list \in Seq(MoeExperts) /\
      \A p \in 1..(Len(list) + 1) : WithPut(InsertAt(list, p, n), list, p, n)
  BY InsertExpert DEF Ranked
<1> DEFINE len == Len(list)
           room == IF TopK <= len + 1 THEN TopK ELSE len + 1
           at == {j \in 1..room : j = len + 1 \/ sc[n] > sc[list[j]]}
           m == Min(at)
           longer == InsertAt(list, m, n)
           new == Place(sc, list, n)
<1>1. /\ list \in Seq(MoeExperts) /\ len \in Nat /\ len = (IF n < TopK THEN n ELSE TopK)
      /\ n \in Nat /\ TopK \in Nat \ {0} /\ sc[n] \in Int
      /\ \A j \in 1..len : list[j] \in MoeExperts /\ list[j] \in Nat /\ list[j] < n
                            /\ sc[list[j]] \in Int
  <2>1. list \in Seq(MoeExperts) /\ len \in Nat /\ len = (IF n < TopK THEN n ELSE TopK)
    BY DEF Ranked
  <2>2. n \in Nat /\ TopK \in Nat \ {0} /\ sc[n] \in Int
    BY Constants DEF Scores
  <2>3. ASSUME NEW j \in 1..len
        PROVE  list[j] \in MoeExperts /\ list[j] \in Nat /\ list[j] < n /\ sc[list[j]] \in Int
    <3>1. list[j] \in MoeExperts
      BY <2>1
    <3>2. list[j] \in ToSet(list)
      BY <2>1 DEF ToSet
    <3>3. list[j] \in 0..(n - 1)
      BY <3>2 DEF Ranked, Lead
    <3> QED BY <2>2, <3>1, <3>3, Constants DEF Scores
  <2> QED BY <2>1, <2>2, <2>3
<1>2. room = Min({TopK, len + 1}) /\ room \in Nat \ {0} /\ room <= len + 1 /\ room <= TopK
      /\ room = (IF n + 1 < TopK THEN n + 1 ELSE TopK)
  BY <1>1, MinOfTwo
<1>3. new = IF at = {} THEN list ELSE SubSeq(longer, 1, Min({TopK, Len(longer)}))
  BY <1>2 DEF Place
<1>4. \A i, j \in 1..len : i < j => Outscores(sc, list[i], list[j])
  BY DEF Ranked
<1>5. \A a \in ToSet(list), b \in (0..(n - 1)) \ ToSet(list) : Outscores(sc, a, b)
  BY DEF Ranked, Lead
<1>6. ToSet(list) = {list[j] : j \in 1..len}
  BY <1>1 DEF ToSet
<1>7. n <= TopK => ToSet(list) = 0..(n - 1)
  BY DEF Ranked
<1>8. n - 1 \in Int /\ 0..((n + 1) - 1) = (0..(n - 1)) \cup {n} /\ n \notin 0..(n - 1)
      /\ 0..(n - 1) \subseteq MoeExperts
  BY <1>1, Constants
<1>9. ToSet(list) \subseteq 0..(n - 1)
  BY DEF Ranked, Lead
<1> HIDE DEF room, at, m, longer, new, len
<1>10. CASE at = {}
  <2>1. room # len + 1
    <3>1. SUFFICES ASSUME room = len + 1 PROVE FALSE
      OBVIOUS
    <3>2. room \in at
      BY <1>2, <3>1 DEF at
    <3> QED BY <1>10, <3>2
  <2>2. room = TopK /\ len = TopK /\ TopK <= n
    BY <1>1, <1>2, <2>1
  <2>3. ASSUME NEW j \in 1..len PROVE Outscores(sc, list[j], n)
    <3>1. j \in 1..room /\ j \notin at
      BY <1>10, <2>2
    <3>2. ~(sc[n] > sc[list[j]])
      BY <3>1 DEF at
    <3> QED BY <1>1, <3>2 DEF Outscores
  <2>4. new = list
    BY <1>3, <1>10
  <2>5. Lead(sc, ToSet(list), 0..((n + 1) - 1))
    <3>1. ASSUME NEW a \in ToSet(list), NEW b \in (0..((n + 1) - 1)) \ ToSet(list)
          PROVE  Outscores(sc, a, b)
      <4>1. CASE b = n
        BY <1>6, <2>3, <4>1
      <4>2. CASE b # n
        BY <1>5, <1>8, <4>2
      <4> QED BY <4>1, <4>2
    <3> QED BY <1>8, <1>9, <3>1 DEF Lead
  <2>6. ~(n + 1 <= TopK)
    BY <1>1, <2>2
  <2>7. Len(list) = (IF n + 1 < TopK THEN n + 1 ELSE TopK)
    BY <1>1, <2>2 DEF len
  <2>8. \A i, j \in 1..Len(list) : i < j => Outscores(sc, list[i], list[j])
    BY <1>4 DEF len
  <2>9. Ranked(sc, list, n + 1)
    BY <1>1, <2>5, <2>6, <2>7, <2>8 DEF Ranked
  <2> QED BY <2>4, <2>9 DEF new
<1>11. CASE at # {}
  <2>1. m \in at /\ \A j \in at : m <= j
    <3>1. at \subseteq Nat
      BY <1>2 DEF at
    <3> QED BY <1>11, <3>1, MinOf DEF m
  <2>2. m \in 1..room /\ m \in 1..(len + 1) /\ (m = len + 1 \/ sc[n] > sc[list[m]])
    BY <1>1, <1>2, <2>1 DEF at
  <2>3. /\ longer \in Seq(MoeExperts) /\ Len(longer) = len + 1
        /\ \A j \in 1..(len + 1) :
             longer[j] = IF j < m THEN list[j] ELSE IF j = m THEN n ELSE list[j - 1]
    <3>1. list \in Seq(MoeExperts) /\ m \in 1..(Len(list) + 1) /\ n \in MoeExperts
      BY <1>1, <2>2 DEF len
    <3>2. WithPut(InsertAt(list, m, n), list, m, n)
      BY <3>1, <1>0
    <3> QED BY <3>2 DEF longer, len, WithPut
  <2>4. new = SubSeq(longer, 1, room)
    BY <1>2, <1>3, <1>11, <2>3
  <2>5. /\ new \in Seq(MoeExperts) /\ Len(new) = room
        /\ \A j \in 1..room :
             new[j] = IF j < m THEN list[j] ELSE IF j = m THEN n ELSE list[j - 1]
    <3>1. \A i \in 1..room : longer[i] \in MoeExperts
      BY <1>1, <1>2, <2>3
    <3>2. 1 <= room /\ room - 1 + 1 = room /\ \A j \in 1..room : 1 + j - 1 = j
      BY <1>2
    <3>3. /\ SubSeq(longer, 1, room) \in Seq(MoeExperts)
          /\ Len(SubSeq(longer, 1, room)) = IF 1 <= room THEN room - 1 + 1 ELSE 0
          /\ \A j \in 1..(room - 1 + 1) : SubSeq(longer, 1, room)[j] = longer[1 + j - 1]
      <4>1. room \in Int /\ 1 \in Int
        BY <1>2
      <4> QED BY <3>1, <4>1, SubSeqProperties
    <3>4. ASSUME NEW j \in 1..room PROVE new[j] = longer[j] /\ j \in 1..(len + 1)
      BY <1>1, <1>2, <2>4, <3>2, <3>3
    <3>5. new \in Seq(MoeExperts) /\ Len(new) = room
      BY <2>4, <3>2, <3>3
    <3> QED BY <2>3, <3>4, <3>5
  <2>6. ASSUME NEW j \in 1..len, j < m PROVE Outscores(sc, list[j], n)
    <3>1. j \in 1..room /\ j # len + 1 /\ j \notin at
      BY <1>1, <1>2, <2>1, <2>2, <2>6
    <3>2. ~(sc[n] > sc[list[j]])
      BY <3>1 DEF at
    <3> QED BY <1>1, <3>2 DEF Outscores
  <2>7. ASSUME NEW j \in 1..len, j >= m PROVE Outscores(sc, n, list[j])
    <3>1. m \in 1..len /\ sc[n] > sc[list[m]]
      BY <1>1, <2>2, <2>7
    <3>2. Outscores(sc, n, list[m])
      BY <1>1, <3>1 DEF Outscores
    <3>3. CASE j = m
      BY <3>2, <3>3
    <3>4. CASE j # m
      <4>1. m < j
        BY <2>7, <3>1, <3>4
      <4>2. Outscores(sc, list[m], list[j])
        BY <1>4, <3>1, <4>1
      <4> QED BY <1>1, <3>1, <3>2, <4>2, OutscoresTransitive
    <3> QED BY <3>3, <3>4
  <2>8. ASSUME NEW i \in 1..room, NEW j \in 1..room, i < j
        PROVE  Outscores(sc, new[i], new[j])
    <3>1. i \in Int /\ j \in Int /\ m \in Int
      BY <1>2, <2>2
    <3>2. CASE j < m
      <4>1. i \in 1..len /\ j \in 1..len /\ i < m
        BY <1>1, <1>2, <2>2, <2>8, <3>2
      <4>2. new[i] = list[i] /\ new[j] = list[j]
        BY <2>5, <3>2, <4>1
      <4> QED BY <1>4, <2>8, <4>1, <4>2
    <3>3. CASE j = m
      <4>1. i \in 1..len /\ i < m
        BY <1>1, <1>2, <2>2, <2>8, <3>3
      <4>2. new[i] = list[i] /\ new[j] = n
        BY <2>5, <3>3, <4>1
      <4> QED BY <2>6, <4>1, <4>2
    <3>4. CASE j > m
      <4>1. j - 1 \in 1..len /\ j - 1 >= m
        BY <1>1, <1>2, <2>2, <2>8, <3>4
      <4>2. new[j] = list[j - 1]
        BY <2>5, <3>1, <3>4
      <4>3. CASE i = m
        <5>1. new[i] = n
          BY <2>5, <4>3
        <5> QED BY <2>7, <4>1, <4>2, <5>1
      <4>4. CASE i < m
        <5>1. i \in 1..len /\ i < j - 1
          BY <1>1, <1>2, <2>2, <3>4, <4>1, <4>4
        <5>2. new[i] = list[i]
          BY <2>5, <4>4
        <5> QED BY <1>4, <4>1, <4>2, <5>1, <5>2
      <4>5. CASE i > m
        <5>1. i - 1 \in 1..len /\ i - 1 < j - 1
          BY <1>1, <1>2, <2>2, <2>8, <3>1, <4>5
        <5>2. new[i] = list[i - 1]
          BY <2>5, <3>1, <4>5
        <5> QED BY <1>4, <4>1, <4>2, <5>1, <5>2
      <4> QED BY <3>1, <4>3, <4>4, <4>5
    <3> QED BY <3>1, <3>2, <3>3, <3>4
  <2>9. ToSet(new) = {new[j] : j \in 1..room}
    BY <2>5 DEF ToSet
  <2>10. n \in ToSet(new)
    BY <2>2, <2>5, <2>9
  <2>11. ToSet(new) \subseteq ToSet(list) \cup {n}
    <3>1. ASSUME NEW j \in 1..room PROVE new[j] \in ToSet(list) \cup {n}
      <4>1. CASE j < m
        <5>1. j \in 1..len
          BY <1>1, <1>2, <2>2, <4>1
        <5> QED BY <1>6, <2>5, <4>1, <5>1
      <4>2. CASE j = m
        BY <2>5, <4>2
      <4>3. CASE j > m
        <5>1. j - 1 \in 1..len
          BY <1>1, <1>2, <2>2, <4>3
        <5>2. new[j] = list[j - 1]
          BY <2>2, <2>5, <4>3
        <5> QED BY <1>6, <5>1, <5>2
      <4> QED BY <2>2, <4>1, <4>2, <4>3
    <3> QED BY <2>9, <3>1
  <2>12. \A j \in 1..len : list[j] \in ToSet(new) \/ (j = room /\ j = len)
    <3>1. SUFFICES ASSUME NEW j \in 1..len, ~(j = room /\ j = len)
                   PROVE  list[j] \in ToSet(new)
      OBVIOUS
    <3>2. CASE j < m
      <4>1. j \in 1..room
        BY <1>1, <1>2, <2>2, <3>2
      <4>2. new[j] = list[j]
        BY <2>5, <3>2, <4>1
      <4> QED BY <2>9, <4>1, <4>2
    <3>3. CASE j >= m
      <4>1. len = TopK \/ room = len + 1
        BY <1>1, <1>2
      <4>2. j + 1 \in 1..room
        <5>1. j \in Int /\ 1 <= j /\ j <= len /\ room \in Int /\ len \in Int
          BY <1>1, <1>2
        <5>2. CASE room = len + 1
          BY <5>1, <5>2
        <5>3. CASE len = TopK
          <6>1. room = len
            BY <1>1, <1>2, <5>3
          <6> QED BY <3>1, <5>1, <6>1
        <5> QED BY <4>1, <5>2, <5>3
      <4>3. new[j + 1] = list[j]
        <5>1. ~(j + 1 < m) /\ j + 1 # m /\ (j + 1) - 1 = j
          BY <2>2, <3>3
        <5> QED BY <2>5, <4>2, <5>1
      <4> QED BY <2>9, <4>2, <4>3
    <3> QED BY <1>1, <2>2, <3>2, <3>3
  <2>13. Lead(sc, ToSet(new), 0..((n + 1) - 1))
    <3>1. ASSUME NEW a \in ToSet(new), NEW b \in (0..((n + 1) - 1)) \ ToSet(new)
          PROVE  Outscores(sc, a, b)
      <4>1. b \in 0..(n - 1) /\ b \in MoeExperts
        BY <1>8, <2>10
      <4>2. CASE b \in ToSet(list)
        <5>1. PICK j \in 1..len : b = list[j]
          BY <1>6, <4>2
        <5>2. j = room /\ j = len
          BY <2>12, <5>1
        <5>3. PICK i \in 1..room : a = new[i]
          BY <2>9
        <5>4. CASE i < m
          <6>1. i \in 1..len /\ i < j
            BY <1>1, <2>2, <5>2, <5>4
          <6> QED BY <1>4, <2>5, <5>1, <5>3, <5>4, <6>1
        <5>5. CASE i = m
          <6>1. j >= m
            BY <1>2, <2>2, <5>2
          <6> QED BY <2>5, <2>7, <5>1, <5>3, <5>5, <6>1
        <5>6. CASE i > m
          <6>1. i - 1 \in 1..len /\ i - 1 < j
            BY <1>1, <2>2, <5>2, <5>6
          <6>2. a = list[i - 1]
            BY <2>2, <2>5, <5>3, <5>6
          <6> QED BY <1>4, <5>1, <6>1, <6>2
        <5> QED BY <2>2, <5>4, <5>5, <5>6
      <4>3. CASE b \notin ToSet(list)
        <5>1. ToSet(list) # 0..(n - 1)
          BY <4>1, <4>3
        <5>2. ~(n <= TopK)
          BY <1>7, <5>1
        <5>3. len = TopK /\ room = len /\ len \in 1..len
          BY <1>1, <1>2, <5>2
        <5>4. Outscores(sc, list[len], b) /\ list[len] \in MoeExperts
          BY <1>1, <1>5, <1>6, <4>1, <4>3, <5>3
        <5>5. CASE a = n
          <6>1. Outscores(sc, n, list[len])
            <7>1. len >= m
              BY <1>1, <2>2, <5>3
            <7> QED BY <2>7, <5>3, <7>1
          <6> QED BY <4>1, <5>4, <5>5, <6>1, OutscoresTransitive
        <5>6. CASE a # n
          BY <1>5, <2>11, <4>1, <4>3, <5>6
        <5> QED BY <5>5, <5>6
      <4> QED BY <4>2, <4>3
    <3>2. ToSet(new) \subseteq 0..((n + 1) - 1)
      BY <1>8, <1>9, <2>11
    <3> QED BY <3>1, <3>2 DEF Lead
  <2>14. n + 1 <= TopK => ToSet(new) = 0..((n + 1) - 1)
    <3>1. SUFFICES ASSUME n + 1 <= TopK PROVE ToSet(new) = 0..((n + 1) - 1)
      OBVIOUS
    <3>2. len = n /\ room = len + 1
      BY <1>1, <1>2, <3>1
    <3>3. ToSet(list) = 0..(n - 1)
      <4>1. n <= TopK
        BY <1>1, <3>1
      <4> QED BY <1>7, <4>1
    <3>4. \A j \in 1..len : list[j] \in ToSet(new)
      <4>1. ~(len = room)
        BY <1>1, <3>2
      <4> QED BY <2>12, <4>1
    <3>5. ToSet(list) \subseteq ToSet(new)
      BY <1>6, <3>4
    <3> QED BY <1>8, <2>10, <2>11, <3>3, <3>5
  <2>15. Ranked(sc, new, n + 1)
    <3>1. new \in Seq(MoeExperts) /\ Len(new) = room
      BY <2>5
    <3>2. Len(new) = (IF n + 1 < TopK THEN n + 1 ELSE TopK)
      BY <1>2, <3>1
    <3>3. \A i, j \in 1..Len(new) : i < j => Outscores(sc, new[i], new[j])
      BY <2>8, <3>1
    <3> QED BY <2>13, <2>14, <3>1, <3>2, <3>3, RankedIntro
  <2> QED BY <2>15 DEF new
<1> QED BY <1>10, <1>11

ScanIs(best, sc) ==
  best = [n \in 0..NumExperts |->
            IF n = 0 THEN <<>> ELSE Place(sc, best[n - 1], n - 1)]

LEMMA ScanInduct ==
  ASSUME NEW sc \in Scores, NEW best, best[0] = <<>>,
         \A i \in 1..NumExperts :
           Ranked(sc, best[i - 1], i - 1) => best[i] = Place(sc, best[i - 1], i - 1)
  PROVE  \A i \in 0..NumExperts : Ranked(sc, best[i], i)
<1> DEFINE P == {i \in Nat : i <= NumExperts => Ranked(sc, best[i], i)}
<1>1. 0 \in P
  <2>1. ToSet(<<>>) = {} /\ 0..(0 - 1) = {}
    BY DEF ToSet
  <2>2. Lead(sc, ToSet(<<>>), 0..(0 - 1))
    BY <2>1 DEF Lead
  <2>3. Ranked(sc, <<>>, 0)
    <3>1. <<>> \in Seq(MoeExperts) /\ Len(<<>>) = 0 /\ 0 < TopK
      BY Constants
    <3>2. Len(<<>>) = IF 0 < TopK THEN 0 ELSE TopK
      BY <3>1
    <3>3. \A i, j \in 1..Len(<<>>) : i < j => Outscores(sc, <<>>[i], <<>>[j])
      BY <3>1
    <3>4. 0 <= TopK => ToSet(<<>>) = 0..(0 - 1)
      BY <2>1
    <3>5. <<>> \in Seq(MoeExperts)
      BY <3>1
    <3> HIDE DEF P
    <3> QED BY <2>2, <3>2, <3>3, <3>4, <3>5, RankedIntro
  <2> QED BY <2>3
<1>2. ASSUME NEW n \in Nat, n \in P PROVE n + 1 \in P
  <2>1. SUFFICES ASSUME n + 1 <= NumExperts PROVE Ranked(sc, best[n + 1], n + 1)
    OBVIOUS
  <2>2. Ranked(sc, best[n], n) /\ n \in MoeExperts
    BY <1>2, <2>1, Constants
  <2>3. n + 1 \in 1..NumExperts /\ (n + 1) - 1 = n
    BY <2>1, Constants
  <2>4. best[n + 1] = Place(sc, best[n], n)
    BY <2>2, <2>3
  <2> QED BY <2>2, <2>4, PlaceRanks
<1> HIDE DEF P
<1>3. Nat \subseteq P
  BY <1>1, <1>2, Induct
<1>4. ASSUME NEW i \in 0..NumExperts PROVE Ranked(sc, best[i], i)
  <2>1. i \in Nat /\ i <= NumExperts
    BY Constants
  <2> QED BY <1>3, <2>1 DEF P
<1> QED BY <1>4

LEMMA ScanExists ==
  ASSUME NEW sc \in Scores
  PROVE  \E best : ScanIs(best, sc)
<1> DEFINE V == Seq(MoeExperts)
           step == [x \in (1..NumExperts) \X V |->
                      IF Place(sc, x[2], x[1] - 1) \in V THEN Place(sc, x[2], x[1] - 1)
                      ELSE <<>>]
<1>1. \A i \in 1..NumExperts, v \in V :
        step[<<i, v>>] = IF Place(sc, v, i - 1) \in V THEN Place(sc, v, i - 1) ELSE <<>>
  OBVIOUS
<1>2. <<>> \in V /\ NumExperts \in Nat
  BY Constants
<1>3. \A i \in 1..NumExperts, v \in V : step[<<i, v>>] \in V
  BY <1>1, <1>2
<1> HIDE DEF step
<1>4. PICK f \in [0..NumExperts -> V] : Steps(f, NumExperts, <<>>, step)
  BY <1>2, <1>3, Recursion
<1>5. \A i \in 1..NumExperts : i \in 0..NumExperts /\ i - 1 \in 0..NumExperts
  BY <1>2
<1>6. ASSUME NEW i \in 1..NumExperts, Ranked(sc, f[i - 1], i - 1)
      PROVE  f[i] = Place(sc, f[i - 1], i - 1)
  <2>1. f[i - 1] \in V /\ f[i] = step[<<i, f[i - 1]>>]
    BY <1>4, <1>5 DEF Steps
  <2>2. i - 1 \in MoeExperts /\ (i - 1) + 1 = i
    <3>1. i - 1 \in Nat /\ i - 1 < NumExperts /\ (i - 1) + 1 = i
      BY <1>2
    <3> QED BY <3>1, Constants
  <2>3. Ranked(sc, Place(sc, f[i - 1], i - 1), (i - 1) + 1)
    BY <1>6, <2>2, PlaceRanks
  <2>4. Place(sc, f[i - 1], i - 1) \in V
    BY <2>3 DEF Ranked
  <2> QED BY <1>1, <2>1, <2>4
<1>7. f[0] = <<>>
  BY <1>4 DEF Steps
<1>8. \A i \in 0..NumExperts : Ranked(sc, f[i], i)
  BY <1>6, <1>7, ScanInduct
<1>9. \A i \in 1..NumExperts : f[i] = Place(sc, f[i - 1], i - 1)
  BY <1>5, <1>6, <1>8
<1>10. \A i \in 0..NumExperts : f[i] = IF i = 0 THEN <<>> ELSE Place(sc, f[i - 1], i - 1)
  BY <1>2, <1>7, <1>9
<1>11. f = [i \in 0..NumExperts |-> f[i]]
  BY <1>4
<1>12. ScanIs(f, sc)
  BY <1>10, <1>11 DEF ScanIs
<1> QED BY <1>12

LEMMA ScanRanks ==
  ASSUME NEW sc \in Scores
  PROVE  Ranked(sc, ScanSelect(sc), NumExperts)
<1> DEFINE c == CHOOSE best : ScanIs(best, sc)
<1>1. ScanIs(c, sc)
  BY ScanExists
<1>2. ScanSelect(sc) = c[NumExperts]
  BY DEF ScanSelect, ScanIs
<1> HIDE DEF c
<1>3. \A i \in 0..NumExperts : c[i] = IF i = 0 THEN <<>> ELSE Place(sc, c[i - 1], i - 1)
  <2> DEFINE rhs == [n \in 0..NumExperts |->
                       IF n = 0 THEN <<>> ELSE Place(sc, c[n - 1], n - 1)]
  <2>1. \A i \in 0..NumExperts : rhs[i] = IF i = 0 THEN <<>> ELSE Place(sc, c[i - 1], i - 1)
    OBVIOUS
  <2>2. c = rhs
    BY <1>1, Zenon DEF ScanIs
  <2> HIDE DEF rhs
  <2> QED BY <2>1, <2>2
<1>4. 0 \in 0..NumExperts /\ NumExperts \in 0..NumExperts
      /\ \A i \in 1..NumExperts : i \in 0..NumExperts /\ i # 0
  BY Constants
<1>5. c[0] = <<>> /\ \A i \in 1..NumExperts : c[i] = Place(sc, c[i - 1], i - 1)
  BY <1>3, <1>4
<1>6. \A i \in 0..NumExperts : Ranked(sc, c[i], i)
  BY <1>5, ScanInduct
<1> QED BY <1>2, <1>4, <1>6

\* b is the expert of S that outscores the others, or -1 if there is none.
Best(sc, S, b) ==
  IF S = {} THEN b = -1 ELSE b \in S /\ \A f \in S \ {b} : Outscores(sc, b, f)

LEMMA BestJoin ==
  ASSUME NEW sc \in Scores, NEW S \in SUBSET MoeExperts, NEW R \in SUBSET MoeExperts,
         NEW mine, NEW other, Best(sc, S, mine), Best(sc, R, other)
  PROVE  Best(sc, S \cup R, IF Outscores(sc, other, mine) THEN other ELSE mine)
<1>1. \A e \in MoeExperts : e # -1
  BY Constants
<1>2. CASE S = {}
  <2>1. mine = -1
    BY <1>2 DEF Best
  <2>2. CASE R = {}
    <3>1. other = -1 /\ S \cup R = {}
      BY <1>2, <2>2 DEF Best
    <3> QED BY <2>1, <3>1 DEF Best
  <2>3. CASE R # {}
    <3>1. other \in R
      BY <2>3 DEF Best
    <3>2. Outscores(sc, other, mine)
      BY <1>1, <2>1, <3>1 DEF Outscores
    <3> QED BY <1>2, <3>2
  <2> QED BY <2>2, <2>3
<1>3. CASE S # {} /\ R = {}
  <2>1. other = -1
    BY <1>3 DEF Best
  <2>2. ~Outscores(sc, other, mine)
    BY <2>1 DEF Outscores
  <2> QED BY <1>3, <2>2
<1>4. CASE S # {} /\ R # {}
  <2>1. /\ mine \in S /\ mine \in MoeExperts /\ \A f \in S \ {mine} : Outscores(sc, mine, f)
        /\ other \in R /\ other \in MoeExperts /\ \A f \in R \ {other} : Outscores(sc, other, f)
    BY <1>4 DEF Best
  <2>2. CASE Outscores(sc, other, mine)
    <3>1. ASSUME NEW f \in (S \cup R) \ {other} PROVE Outscores(sc, other, f)
      <4>1. CASE f \in R \/ f = mine
        BY <2>1, <2>2, <4>1
      <4>2. CASE f \in S /\ f # mine
        BY <2>1, <2>2, <4>2, OutscoresTransitive
      <4> QED BY <4>1, <4>2
    <3> QED BY <1>4, <2>1, <2>2, <3>1 DEF Best
  <2>3. CASE ~Outscores(sc, other, mine)
    <3>1. mine = other \/ Outscores(sc, mine, other)
      BY <2>1, <2>3, OutscoresTotal
    <3>2. ASSUME NEW f \in (S \cup R) \ {mine} PROVE Outscores(sc, mine, f)
      <4>1. CASE f \in S \/ f = other
        BY <2>1, <3>1, <4>1
      <4>2. CASE f \in R /\ f # other
        BY <2>1, <3>1, <4>2, OutscoresTransitive
      <4> QED BY <4>1, <4>2
    <3> QED BY <1>4, <2>1, <2>3, <3>2 DEF Best
  <2> QED BY <2>2, <2>3
<1> QED BY <1>2, <1>3, <1>4

LEMMA BestExists ==
  ASSUME NEW sc \in Scores, NEW S \in SUBSET MoeExperts
  PROVE  \E b : Best(sc, S, b)
<1> DEFINE P == {n \in Nat : \A U \in SUBSET MoeExperts :
                   Cardinality(U) = n => \E b : Best(sc, U, b)}
<1>0. \A U \in SUBSET MoeExperts : IsFiniteSet(U) /\ Cardinality(U) \in Nat
  BY Constants, FS_Subset, FS_CardinalityType
<1>1. 0 \in P
  <2>1. ASSUME NEW U \in SUBSET MoeExperts, Cardinality(U) = 0 PROVE \E b : Best(sc, U, b)
    <3>1. U = {}
      BY <1>0, <2>1, FS_EmptySet
    <3>2. Best(sc, U, -1)
      BY <3>1 DEF Best
    <3> QED BY <3>2
  <2> QED BY <2>1
<1>2. ASSUME NEW n \in Nat, n \in P PROVE n + 1 \in P
  <2>1. SUFFICES ASSUME NEW U \in SUBSET MoeExperts, Cardinality(U) = n + 1
                 PROVE  \E b : Best(sc, U, b)
    OBVIOUS
  <2>2. PICK u : u \in U
    <3>1. U # {}
      BY <1>0, <2>1, FS_EmptySet
    <3> QED BY <3>1
  <2>3. Cardinality(U \ {u}) = n
    BY <1>0, <2>1, <2>2, FS_RemoveElement
  <2>4. PICK b : Best(sc, U \ {u}, b)
    BY <1>2, <2>3
  <2>5. Best(sc, {u}, u)
    BY DEF Best
  <2>6. U \ {u} \in SUBSET MoeExperts /\ {u} \in SUBSET MoeExperts /\ (U \ {u}) \cup {u} = U
    BY <2>2
  <2>7. Best(sc, (U \ {u}) \cup {u}, IF Outscores(sc, u, b) THEN u ELSE b)
    BY <2>4, <2>5, <2>6, BestJoin
  <2> QED BY <2>6, <2>7
<1> HIDE DEF P
<1>3. Cardinality(S) \in P
  BY <1>0, <1>1, <1>2, Induct
<1> QED BY <1>3 DEF P

LEMMA LaneBestIs ==
  ASSUME NEW sc \in Scores, NEW used, NEW lane
  PROVE  Best(sc, {e \in MoeExperts \ used : e % WarpWidth = lane}, LaneBest(sc, used, lane))
<1> DEFINE own == {e \in MoeExperts \ used : e % WarpWidth = lane}
           b == CHOOSE e \in own : \A f \in own \ {e} : Outscores(sc, e, f)
<1>1. LaneBest(sc, used, lane) = IF own = {} THEN -1 ELSE b
  BY DEF LaneBest
<1>2. CASE own = {}
  BY <1>1, <1>2 DEF Best
<1>3. CASE own # {}
  <2>1. own \in SUBSET MoeExperts
    OBVIOUS
  <2> HIDE DEF own
  <2>2. PICK a : Best(sc, own, a)
    BY <2>1, BestExists
  <2>3. a \in own /\ \A f \in own \ {a} : Outscores(sc, a, f)
    BY <1>3, <2>2 DEF Best
  <2>4. b \in own /\ \A f \in own \ {b} : Outscores(sc, b, f)
    BY <2>3
  <2>5. Best(sc, own, b)
    BY <1>3, <2>4 DEF Best
  <2> QED BY <1>1, <1>3, <2>5 DEF own
<1> QED BY <1>2, <1>3

LEMMA OffsetsHalve ==
  /\ Len(Offsets) \in Nat \ {0} /\ Offsets[Len(Offsets)] = 1
  /\ \A i \in 1..Len(Offsets) : Offsets[i] \in Nat \ {0}
  /\ WarpWidth \in Nat \ {0} /\ WarpWidth = 2 * Offsets[1]
  /\ \A i \in 1..(Len(Offsets) - 1) : Offsets[i] = 2 * Offsets[i + 1]
<1>1. Offsets \in Seq(Nat \ {0}) /\ Offsets # <<>> /\ Offsets[Len(Offsets)] = 1
      /\ \A i \in 1..(Len(Offsets) - 1) : Offsets[i] = 2 * Offsets[i + 1]
  BY RoutedMoeAssumption
<1>2. Len(Offsets) \in Nat \ {0}
  BY <1>1, EmptySeq
<1>3. \A i \in 1..Len(Offsets) : Offsets[i] \in Nat \ {0}
  BY <1>1
<1>4. Offsets[1] \in Nat \ {0}
  BY <1>2, <1>3
<1>5. WarpWidth \in Nat \ {0} /\ WarpWidth = 2 * Offsets[1]
  BY <1>4 DEF WarpWidth
<1> QED BY <1>1, <1>2, <1>3, <1>5

\* The remainder by twice w is the remainder by w, or w more.
LEMMA HalfModulus ==
  ASSUME NEW w \in Nat \ {0}, NEW e \in Nat, NEW lane \in 0..(w - 1)
  PROVE  e % w = lane <=> (e % (2 * w) = lane \/ e % (2 * w) = lane + w)
<1> DEFINE q == e \div (2 * w)
           r == e % (2 * w)
<1>1. q \in Nat /\ r \in 0..(2 * w - 1) /\ e = (2 * w) * q + r
  OBVIOUS
<1>2. e % w \in 0..(w - 1) /\ e \div w \in Nat /\ e = w * (e \div w) + (e % w)
  OBVIOUS
<1> DEFINE d == e \div w
           s == e % w
<1>3. d \in Nat /\ s \in 0..(w - 1) /\ e = w * d + s
  BY <1>2
<1> HIDE DEF q, r, d, s
<1>4. w * (2 * q) = (2 * w) * q
  BY <1>1
<1>5. ASSUME NEW k \in 0..1, r - k * w \in 0..(w - 1) PROVE s = r - k * w
  <2> DEFINE m == 2 * q + k
             v == r - k * w
  <2>1. m \in Nat /\ v \in 0..(w - 1)
    BY <1>1, <1>5
  <2>2. w * m = (2 * w) * q + k * w
    BY <1>1
  <2>3. e = w * m + v
    BY <1>1, <2>2
  <2> HIDE DEF m, v
  <2>4. w * d + s = w * m + v
    BY <1>3, <2>3
  <2>5. d = m
    <3>1. CASE d < m
      <4>1. w * d + w <= w * m
        BY <1>3, <2>1, <3>1
      <4>2. w * d \in Int /\ w * m \in Int
        BY <1>3, <2>1
      <4> HIDE DEF m, v
      <4> QED BY <1>3, <2>1, <2>4, <4>1, <4>2
    <3>2. CASE d > m
      <4>1. w * m + w <= w * d
        BY <1>3, <2>1, <3>2
      <4>2. w * d \in Int /\ w * m \in Int
        BY <1>3, <2>1
      <4> QED BY <1>3, <2>1, <2>4, <4>1, <4>2
    <3> QED BY <1>3, <2>1, <3>1, <3>2
  <2>6. s = v
    <3>1. w * m \in Int /\ w * d = w * m
      BY <1>3, <2>1, <2>5
    <3> QED BY <1>3, <2>1, <2>4, <3>1
  <2> QED BY <2>6 DEF v
<1>6. r \in 0..(w - 1) => s = r
  <2>1. r - 0 * w = r
    BY <1>1
  <2> QED BY <1>5, <2>1
<1>7. r - w \in 0..(w - 1) => s = r - w
  <2>1. r - 1 * w = r - w
    BY <1>1
  <2> QED BY <1>5, <2>1
<1>8. s = lane <=> (r = lane \/ r = lane + w)
  BY <1>1, <1>3, <1>6, <1>7
<1> QED BY <1>8 DEF r, s

\* The lanes that still count after k steps of the tree.
Width(k) == IF k = 0 THEN WarpWidth ELSE Offsets[k]

TreeStep(sc, k, before) ==
  [lane \in 0..(WarpWidth - 1) |->
     LET from == lane + Offsets[k]
         mine == before[lane]
         other == IF from \in 0..(WarpWidth - 1) THEN before[from] ELSE mine
     IN IF Outscores(sc, other, mine) THEN other ELSE mine]

TreeIs(reduced, sc, used) ==
  reduced = [k \in 0..Len(Offsets) |->
               IF k = 0 THEN [lane \in 0..(WarpWidth - 1) |-> LaneBest(sc, used, lane)]
               ELSE TreeStep(sc, k, reduced[k - 1])]

LEMMA TreeExists ==
  ASSUME NEW sc \in Scores, NEW used
  PROVE  \E reduced : TreeIs(reduced, sc, used)
<1> DEFINE V == [0..(WarpWidth - 1) -> MoeExperts \cup {-1}]
           base == [lane \in 0..(WarpWidth - 1) |-> LaneBest(sc, used, lane)]
           step == [x \in (1..Len(Offsets)) \X V |-> TreeStep(sc, x[1], x[2])]
<1>1. base \in V
  <2>1. ASSUME NEW lane \in 0..(WarpWidth - 1) PROVE LaneBest(sc, used, lane) \in MoeExperts \cup {-1}
    BY LaneBestIs DEF Best
  <2> QED BY <2>1
<1>2. \A k \in 1..Len(Offsets), v \in V : step[<<k, v>>] = TreeStep(sc, k, v)
  OBVIOUS
<1>3. \A k \in 1..Len(Offsets), v \in V : TreeStep(sc, k, v) \in V
  BY DEF TreeStep
<1>4. \A k \in 1..Len(Offsets), v \in V : step[<<k, v>>] \in V
  BY <1>2, <1>3
<1>5. Len(Offsets) \in Nat
  BY OffsetsHalve
<1> HIDE DEF step, base, V
<1>6. PICK f \in [0..Len(Offsets) -> V] : Steps(f, Len(Offsets), base, step)
  BY <1>1, <1>4, <1>5, Recursion
<1>7. \A k \in 1..Len(Offsets) : k - 1 \in 0..Len(Offsets)
  BY <1>5
<1>8. f[0] = base /\ \A k \in 1..Len(Offsets) : f[k] = TreeStep(sc, k, f[k - 1])
  BY <1>2, <1>6, <1>7 DEF Steps
<1>9. \A k \in 0..Len(Offsets) : f[k] = IF k = 0 THEN base ELSE TreeStep(sc, k, f[k - 1])
  BY <1>5, <1>8
<1>10. f = [k \in 0..Len(Offsets) |-> f[k]]
  BY <1>6
<1>11. TreeIs(f, sc, used)
  BY <1>9, <1>10 DEF TreeIs, base
<1> QED BY <1>11

\* The tree finds the expert that outscores all the others that are not used.
LEMMA WarpBestIs ==
  ASSUME NEW sc \in Scores, NEW used
  PROVE  Best(sc, MoeExperts \ used, WarpBest(sc, used))
<1> DEFINE c == CHOOSE reduced : TreeIs(reduced, sc, used)
           n == Len(Offsets)
           of(w, lane) == {e \in MoeExperts \ used : e % w = lane}
           base == [lane \in 0..(WarpWidth - 1) |-> LaneBest(sc, used, lane)]
<1>1. TreeIs(c, sc, used)
  BY TreeExists
<1>2. WarpBest(sc, used) = c[n][0]
  BY DEF WarpBest, TreeIs, TreeStep
<1> HIDE DEF c
<1>3. n \in Nat \ {0} /\ WarpWidth \in Nat \ {0}
  BY OffsetsHalve
<1>4. \A k \in 0..n : c[k] = IF k = 0 THEN base ELSE TreeStep(sc, k, c[k - 1])
  <2> DEFINE rhs == [k \in 0..n |-> IF k = 0 THEN base ELSE TreeStep(sc, k, c[k - 1])]
  <2>1. \A k \in 0..n : rhs[k] = IF k = 0 THEN base ELSE TreeStep(sc, k, c[k - 1])
    OBVIOUS
  <2>2. c = rhs
    BY <1>1, Zenon DEF TreeIs
  <2> HIDE DEF rhs
  <2> QED BY <2>1, <2>2
<1>5. \A k \in 0..n : Width(k) \in Nat \ {0} /\ Width(k) <= WarpWidth
  <2> DEFINE P == {k \in Nat : k <= n => Width(k) <= WarpWidth}
  <2>0. \A k \in 0..n : Width(k) \in Nat \ {0}
    BY <1>3, OffsetsHalve DEF Width
  <2>1. 0 \in P
    BY <1>3 DEF Width
  <2>2. ASSUME NEW k \in Nat, k \in P PROVE k + 1 \in P
    <3>1. SUFFICES ASSUME k + 1 <= n PROVE Width(k + 1) <= WarpWidth
      OBVIOUS
    <3>2. k \in 0..n /\ k + 1 \in 0..n /\ k + 1 # 0
      BY <1>3, <3>1
    <3>3. Width(k) <= WarpWidth /\ Width(k) \in Nat /\ Width(k + 1) \in Nat
      BY <2>0, <2>2, <3>1, <3>2
    <3>4. Width(k) = 2 * Width(k + 1)
      <4>1. CASE k = 0
        BY <4>1, OffsetsHalve DEF Width
      <4>2. CASE k # 0
        <5>1. k \in 1..(n - 1)
          BY <1>3, <3>1, <4>2
        <5> QED BY <3>2, <4>2, <5>1, OffsetsHalve DEF Width
      <4> QED BY <4>1, <4>2
    <3> QED BY <1>3, <3>3, <3>4
  <2> HIDE DEF P
  <2>3. Nat \subseteq P
    BY <2>1, <2>2, Induct
  <2>4. \A k \in 0..n : k \in P
    BY <1>3, <2>3
  <2> QED BY <1>3, <2>0, <2>4 DEF P
<1>6. \A k \in 0..(n - 1) : Width(k) = 2 * Width(k + 1) /\ Width(k + 1) = Offsets[k + 1]
  <2>1. SUFFICES ASSUME NEW k \in 0..(n - 1)
                 PROVE  Width(k) = 2 * Width(k + 1) /\ Width(k + 1) = Offsets[k + 1]
    OBVIOUS
  <2>2. k + 1 # 0
    BY <1>3, <2>1
  <2>3. CASE k = 0
    BY <2>2, <2>3, OffsetsHalve DEF Width
  <2>4. CASE k # 0
    <3>1. k \in 1..(n - 1)
      BY <1>3, <2>1, <2>4
    <3> QED BY <2>2, <2>4, <3>1, OffsetsHalve DEF Width
  <2> QED BY <2>3, <2>4
<1> HIDE DEF of, base
<1> DEFINE P == {k \in Nat : k <= n =>
                   \A lane \in 0..(Width(k) - 1) : Best(sc, of(Width(k), lane), c[k][lane])}
<1>7. 0 \in P
  <2>1. Width(0) = WarpWidth /\ 0 \in 0..n
    BY <1>3 DEF Width
  <2>2. c[0] = base
    BY <1>4, <2>1
  <2>3. ASSUME NEW lane \in 0..(WarpWidth - 1) PROVE Best(sc, of(WarpWidth, lane), c[0][lane])
    <3>1. c[0][lane] = LaneBest(sc, used, lane)
      BY <2>2 DEF base
    <3> QED BY <3>1, LaneBestIs DEF of
  <2> QED BY <2>1, <2>3
<1>8. ASSUME NEW k \in Nat, k \in P PROVE k + 1 \in P
  <2>0. SUFFICES ASSUME k + 1 <= n
                 PROVE  \A lane \in 0..(Width(k + 1) - 1) :
                          Best(sc, of(Width(k + 1), lane), c[k + 1][lane])
    OBVIOUS
  <2>1. SUFFICES ASSUME NEW lane \in 0..(Width(k + 1) - 1)
                 PROVE  Best(sc, of(Width(k + 1), lane), c[k + 1][lane])
    OBVIOUS
  <2> DEFINE w == Width(k + 1)
             mine == c[k][lane]
             other == c[k][lane + w]
  <2>2. /\ k \in 0..(n - 1) /\ k \in 0..n /\ k + 1 \in 0..n /\ k + 1 # 0 /\ (k + 1) - 1 = k
    BY <1>3, <2>0
  <2>3. w \in Nat \ {0} /\ Width(k) = 2 * w /\ w = Offsets[k + 1] /\ 2 * w <= WarpWidth
    <3>1. w \in Nat \ {0} /\ Width(k) <= WarpWidth
      BY <1>5, <2>2
    <3>2. Width(k) = 2 * w /\ w = Offsets[k + 1]
      BY <1>6, <2>2
    <3> QED BY <3>1, <3>2
  <2>4. lane \in 0..(w - 1)
    BY <2>1
  <2> HIDE DEF w
  <2>5. /\ lane \in 0..(2 * w - 1) /\ lane + w \in 0..(2 * w - 1)
        /\ lane \in 0..(WarpWidth - 1) /\ lane + w \in 0..(WarpWidth - 1) /\ lane \in Nat
    <3>1. lane \in Nat /\ lane < w /\ w \in Nat /\ w >= 1 /\ WarpWidth \in Nat /\ 2 * w <= WarpWidth
      BY <1>3, <2>3, <2>4
    <3> HIDE DEF P, mine, other, n
    <3> QED BY <3>1
  <2>6. Best(sc, of(2 * w, lane), mine) /\ Best(sc, of(2 * w, lane + w), other)
    <3>1. k <= n
      BY <2>2
    <3>2. \A l \in 0..(2 * w - 1) : Best(sc, of(2 * w, l), c[k][l])
      BY <1>8, <2>3, <3>1
    <3> QED BY <2>5, <3>2
  <2>7. c[k + 1][lane] = IF Outscores(sc, other, mine) THEN other ELSE mine
    <3>1. c[k + 1] = TreeStep(sc, k + 1, c[k])
      BY <1>4, <2>2
    <3>2. Offsets[k + 1] = w
      BY <2>3
    <3> QED BY <2>5, <3>1, <3>2 DEF TreeStep
  <2>8. of(2 * w, lane) \cup of(2 * w, lane + w) = of(w, lane)
    <3>1. ASSUME NEW e \in MoeExperts
          PROVE  e % w = lane <=> (e % (2 * w) = lane \/ e % (2 * w) = lane + w)
      <4>1. e \in Nat
        BY Constants
      <4> QED BY <2>3, <2>4, <4>1, HalfModulus
    <3> QED BY <3>1 DEF of
  <2>9. of(2 * w, lane) \in SUBSET MoeExperts /\ of(2 * w, lane + w) \in SUBSET MoeExperts
    BY DEF of
  <2> HIDE DEF mine, other
  <2>10. Best(sc, of(w, lane), IF Outscores(sc, other, mine) THEN other ELSE mine)
    BY <2>6, <2>8, <2>9, BestJoin
  <2> QED BY <2>7, <2>10 DEF w
<1> HIDE DEF P
<1>9. n \in P
  BY <1>3, <1>7, <1>8, Induct
<1>10. Width(n) = 1
  BY <1>3, OffsetsHalve DEF Width
<1>11. Best(sc, of(1, 0), c[n][0])
  <2>1. 0 \in 0..(Width(n) - 1) /\ n <= n
    BY <1>3, <1>10
  <2>2. Best(sc, of(Width(n), 0), c[n][0])
    BY <1>9, <2>1 DEF P
  <2> QED BY <1>10, <2>2
<1>12. of(1, 0) = MoeExperts \ used
  <2>1. \A e \in MoeExperts : e % 1 = 0
    <3>1. \A e \in Nat : e % 1 = 0
      OBVIOUS
    <3> QED BY <3>1, Constants
  <2> QED BY <2>1 DEF of
<1> HIDE DEF n
<1> QED BY <1>2, <1>11, <1>12

\* n different experts, ahead of all the others.
Picked(sc, list, n) ==
  /\ list \in Seq(MoeExperts) /\ Len(list) = n
  /\ \A i, j \in 1..n : list[i] = list[j] => i = j
  /\ Lead(sc, ToSet(list), MoeExperts)

LEMMA ListCard ==
  ASSUME NEW S, NEW list \in Seq(S),
         \A i, j \in 1..Len(list) : list[i] = list[j] => i = j
  PROVE  IsFiniteSet(ToSet(list)) /\ Cardinality(ToSet(list)) = Len(list)
<1>1. Len(list) \in Nat /\ DOMAIN list = 1..Len(list)
  OBVIOUS
<1>2. ToSet(list) = {list[i] : i \in 1..Len(list)}
  BY <1>1 DEF ToSet
<1>3. list \in [1..Len(list) -> ToSet(list)]
  BY <1>1, <1>2
<1>4. list \in Bijection(1..Len(list), ToSet(list))
  BY <1>2, <1>3 DEF Bijection, Injection, Surjection, IsInjective
<1>5. IsFiniteSet(1..Len(list)) /\ Cardinality(1..Len(list)) = Len(list)
  BY <1>1, FS_Interval
<1>6. ExistsBijection(1..Len(list), ToSet(list))
  BY <1>4 DEF ExistsBijection
<1> QED BY <1>5, <1>6, FS_Bijection

LEMMA PickNext ==
  ASSUME NEW sc \in Scores, NEW n \in 0..(TopK - 1), NEW list, Picked(sc, list, n)
  PROVE  Picked(sc, Append(list, WarpBest(sc, ToSet(list))), n + 1)
<1> DEFINE b == WarpBest(sc, ToSet(list))
           new == Append(list, b)
<1>1. n \in Nat /\ n < NumExperts
  BY Constants
<1>2. list \in Seq(MoeExperts) /\ Len(list) = n
      /\ \A i, j \in 1..n : list[i] = list[j] => i = j
  BY DEF Picked
<1>3. Cardinality(ToSet(list)) = n
  BY <1>2, ListCard
<1>4. Cardinality(MoeExperts) = NumExperts
  BY Constants, FS_Interval DEF MoeExperts
<1>5. ToSet(list) \subseteq MoeExperts
  BY DEF Picked, Lead
<1>6. MoeExperts \ ToSet(list) # {}
  <2>1. SUFFICES ASSUME MoeExperts \ ToSet(list) = {} PROVE FALSE
    OBVIOUS
  <2>2. ToSet(list) = MoeExperts
    BY <1>5, <2>1
  <2>3. n = NumExperts
    BY <1>3, <1>4, <2>2
  <2> QED BY <1>1, <2>3, Constants
<1>7. b \in MoeExperts \ ToSet(list)
      /\ \A f \in (MoeExperts \ ToSet(list)) \ {b} : Outscores(sc, b, f)
  BY <1>6, WarpBestIs DEF Best
<1> HIDE DEF b
<1>8. new \in Seq(MoeExperts) /\ Len(new) = n + 1
      /\ \A i \in 1..(n + 1) : new[i] = IF i = n + 1 THEN b ELSE list[i]
  BY <1>1, <1>2, <1>7
<1>9. \A i \in 1..n : list[i] \in ToSet(list)
  BY <1>2 DEF ToSet
<1> HIDE DEF new
<1>10. ASSUME NEW i \in 1..(n + 1), NEW j \in 1..(n + 1), new[i] = new[j] PROVE i = j
  <2>1. CASE i = n + 1 /\ j # n + 1
    <3>1. j \in 1..n
      BY <1>1, <2>1
    <3>2. b = list[j]
      BY <1>8, <1>10, <2>1
    <3> QED BY <1>7, <1>9, <3>1, <3>2
  <2>2. CASE i # n + 1 /\ j = n + 1
    <3>1. i \in 1..n
      BY <1>1, <2>2
    <3>2. b = list[i]
      BY <1>8, <1>10, <2>2
    <3> QED BY <1>7, <1>9, <3>1, <3>2
  <2>3. CASE i # n + 1 /\ j # n + 1
    <3>1. i \in 1..n /\ j \in 1..n
      BY <1>1, <2>3
    <3>2. list[i] = list[j]
      BY <1>8, <1>10, <2>3
    <3> QED BY <1>2, <3>1, <3>2
  <2> QED BY <2>1, <2>2, <2>3
<1>11. ToSet(new) = ToSet(list) \cup {b}
  <2>1. ToSet(new) = {new[i] : i \in 1..(n + 1)}
    BY <1>8 DEF ToSet
  <2>2. ToSet(list) = {list[i] : i \in 1..n}
    BY <1>2 DEF ToSet
  <2>3. 1..(n + 1) = (1..n) \cup {n + 1} /\ \A i \in 1..n : i # n + 1
    BY <1>1
  <2>4. new[n + 1] = b /\ \A i \in 1..n : new[i] = list[i]
    BY <1>8, <2>3
  <2> QED BY <2>1, <2>2, <2>3, <2>4
<1>12. Lead(sc, ToSet(new), MoeExperts)
  <2>1. ASSUME NEW a \in ToSet(new), NEW f \in MoeExperts \ ToSet(new)
        PROVE  Outscores(sc, a, f)
    <3>1. CASE a = b
      BY <1>7, <1>11, <3>1
    <3>2. CASE a # b
      BY <1>11, <3>2 DEF Picked, Lead
    <3> QED BY <3>1, <3>2
  <2> QED BY <1>5, <1>7, <1>11, <2>1 DEF Lead
<1>13. Picked(sc, new, n + 1)
  BY <1>8, <1>10, <1>12 DEF Picked
<1> QED BY <1>13 DEF new, b

WarpIs(best, sc) ==
  best = [n \in 0..TopK |->
            IF n = 0 THEN <<>> ELSE Append(best[n - 1], WarpBest(sc, ToSet(best[n - 1])))]

LEMMA WarpInduct ==
  ASSUME NEW sc \in Scores, NEW best, best[0] = <<>>,
         \A i \in 1..TopK :
           Picked(sc, best[i - 1], i - 1) =>
             best[i] = Append(best[i - 1], WarpBest(sc, ToSet(best[i - 1])))
  PROVE  \A i \in 0..TopK : Picked(sc, best[i], i)
<1> DEFINE P == {i \in Nat : i <= TopK => Picked(sc, best[i], i)}
<1>1. 0 \in P
  <2>1. ToSet(<<>>) = {}
    BY DEF ToSet
  <2>2. Lead(sc, ToSet(<<>>), MoeExperts)
    BY <2>1 DEF Lead
  <2>3. Picked(sc, <<>>, 0)
    BY <2>2 DEF Picked
  <2> QED BY <2>3
<1>2. ASSUME NEW n \in Nat, n \in P PROVE n + 1 \in P
  <2>1. SUFFICES ASSUME n + 1 <= TopK PROVE Picked(sc, best[n + 1], n + 1)
    OBVIOUS
  <2>2. TopK \in Nat /\ n \in 0..(TopK - 1) /\ n + 1 \in 1..TopK /\ (n + 1) - 1 = n
    BY <2>1, Constants
  <2>3. Picked(sc, best[n], n)
    BY <1>2, <2>2
  <2>4. best[n + 1] = Append(best[n], WarpBest(sc, ToSet(best[n])))
    BY <2>2, <2>3
  <2> QED BY <2>2, <2>3, <2>4, PickNext
<1> HIDE DEF P
<1>3. Nat \subseteq P
  BY <1>1, <1>2, Induct
<1>4. ASSUME NEW i \in 0..TopK PROVE Picked(sc, best[i], i)
  <2>1. i \in Nat /\ i <= TopK
    BY Constants
  <2> QED BY <1>3, <2>1 DEF P
<1> QED BY <1>4

LEMMA WarpExists ==
  ASSUME NEW sc \in Scores
  PROVE  \E best : WarpIs(best, sc)
<1> DEFINE V == Seq(MoeExperts)
           next(v) == Append(v, WarpBest(sc, ToSet(v)))
           step == [x \in (1..TopK) \X V |-> IF next(x[2]) \in V THEN next(x[2]) ELSE <<>>]
<1>1. \A i \in 1..TopK, v \in V : step[<<i, v>>] = IF next(v) \in V THEN next(v) ELSE <<>>
  <2> HIDE DEF next
  <2> QED OBVIOUS
<1>2. <<>> \in V /\ TopK \in Nat
  BY Constants
<1> HIDE DEF step
<1>3. \A i \in 1..TopK, v \in V : step[<<i, v>>] \in V
  <2> HIDE DEF next
  <2> QED BY <1>1, <1>2
<1>4. PICK f \in [0..TopK -> V] : Steps(f, TopK, <<>>, step)
  BY <1>2, <1>3, Recursion
<1>5. \A i \in 1..TopK : i \in 0..TopK /\ i - 1 \in 0..TopK
  BY <1>2
<1>6. ASSUME NEW i \in 1..TopK, Picked(sc, f[i - 1], i - 1)
      PROVE  f[i] = next(f[i - 1])
  <2>1. f[i - 1] \in V /\ f[i] = step[<<i, f[i - 1]>>]
    BY <1>4, <1>5 DEF Steps
  <2>2. i - 1 \in 0..(TopK - 1) /\ (i - 1) + 1 = i
    BY <1>2
  <2>3. Picked(sc, next(f[i - 1]), (i - 1) + 1)
    BY <1>6, <2>2, PickNext
  <2>4. next(f[i - 1]) \in V
    BY <2>3 DEF Picked
  <2> QED BY <1>1, <2>1, <2>4
<1>7. f[0] = <<>>
  BY <1>4 DEF Steps
<1>8. \A i \in 0..TopK : Picked(sc, f[i], i)
  BY <1>6, <1>7, WarpInduct
<1>9. \A i \in 1..TopK : f[i] = next(f[i - 1])
  BY <1>5, <1>6, <1>8
<1>10. \A i \in 0..TopK : f[i] = IF i = 0 THEN <<>> ELSE next(f[i - 1])
  <2> HIDE DEF next
  <2> QED BY <1>2, <1>7, <1>9
<1>11. f = [i \in 0..TopK |-> f[i]]
  BY <1>4
<1>12. WarpIs(f, sc)
  BY <1>10, <1>11 DEF WarpIs
<1> QED BY <1>12

LEMMA WarpPicks ==
  ASSUME NEW sc \in Scores
  PROVE  Picked(sc, WarpSelect(sc), TopK)
<1> DEFINE c == CHOOSE best : WarpIs(best, sc)
           next(v) == Append(v, WarpBest(sc, ToSet(v)))
<1>1. WarpIs(c, sc)
  BY WarpExists
<1>2. WarpSelect(sc) = c[TopK]
  BY DEF WarpSelect, WarpIs
<1> HIDE DEF c
<1>3. \A i \in 0..TopK : c[i] = IF i = 0 THEN <<>> ELSE next(c[i - 1])
  <2> DEFINE rhs == [n \in 0..TopK |-> IF n = 0 THEN <<>> ELSE next(c[n - 1])]
  <2>1. \A i \in 0..TopK : rhs[i] = IF i = 0 THEN <<>> ELSE next(c[i - 1])
    <3> HIDE DEF next
    <3> QED OBVIOUS
  <2>2. c = rhs
    BY <1>1, Zenon DEF WarpIs
  <2> HIDE DEF rhs
  <2> QED BY <2>1, <2>2
<1>4. 0 \in 0..TopK /\ TopK \in 0..TopK /\ \A i \in 1..TopK : i \in 0..TopK /\ i # 0
  BY Constants
<1>5. c[0] = <<>> /\ \A i \in 1..TopK : c[i] = next(c[i - 1])
  <2> HIDE DEF next
  <2> QED BY <1>3, <1>4
<1>6. \A i \in 0..TopK : Picked(sc, c[i], i)
  BY <1>5, WarpInduct
<1> QED BY <1>2, <1>4, <1>6

\* Both routers choose the same experts, each once.
LEMMA RoutersAgree ==
  ASSUME NEW sc \in ScoreVectors, NEW router \in Routers
  PROVE  /\ Picked(sc, Select(router, sc), TopK)
         /\ ToSet(Select(router, sc)) = ToSet(ScanSelect(sc))
<1>1. sc \in Scores
  BY Constants
<1>2. Picked(sc, ScanSelect(sc), TopK)
  <2>1. Ranked(sc, ScanSelect(sc), NumExperts) /\ NumExperts \in Nat
    BY <1>1, ScanRanks, Constants
  <2>2. Len(ScanSelect(sc)) = TopK
    BY <2>1, Constants DEF Ranked
  <2>3. \A i, j \in 1..TopK : ScanSelect(sc)[i] = ScanSelect(sc)[j] => i = j
    BY <1>1, <2>1, <2>2, RankedDistinct
  <2>4. Lead(sc, ToSet(ScanSelect(sc)), MoeExperts) /\ ScanSelect(sc) \in Seq(MoeExperts)
    BY <2>1 DEF Ranked, MoeExperts
  <2> QED BY <2>2, <2>3, <2>4 DEF Picked
<1>3. Picked(sc, WarpSelect(sc), TopK)
  BY <1>1, WarpPicks
<1>4. Picked(sc, Select(router, sc), TopK)
  BY <1>2, <1>3 DEF Select
<1>5. \A list : Picked(sc, list, TopK) => Cardinality(ToSet(list)) = TopK
  BY ListCard DEF Picked
<1>6. ToSet(Select(router, sc)) = ToSet(ScanSelect(sc))
  <2>1. Cardinality(ToSet(Select(router, sc))) = Cardinality(ToSet(ScanSelect(sc)))
    BY <1>2, <1>4, <1>5
  <2> QED BY <1>1, <1>2, <1>4, <2>1, LeadersUnique DEF Picked
<1> QED BY <1>4, <1>6

-----------------------------------------------------------------------------
(* Pairs, tokens and slots.                                                *)

LEMMA DivMod ==
  ASSUME NEW d \in Nat \ {0}, NEW q \in Int, NEW r \in 0..(d - 1)
  PROVE  (q * d + r) \div d = q /\ (q * d + r) % d = r
<1> DEFINE x == q * d + r
           a == x \div d
           b == x % d
<1>0. x \in Int
  OBVIOUS
<1> HIDE DEF x
<1>1. a \in Int /\ b \in 0..(d - 1) /\ x = d * a + b
  BY <1>0
<1> HIDE DEF a, b
<1>2. d * a + b = d * q + r
  BY <1>1 DEF x
<1>3. d * a \in Int /\ d * q \in Int
  BY <1>1
<1>4. ASSUME a < q PROVE FALSE
  <2>1. d * a + d <= d * q
    BY <1>1, <1>4
  <2> QED BY <1>1, <1>2, <1>3, <2>1
<1>5. ASSUME a > q PROVE FALSE
  <2>1. d * q + d <= d * a
    BY <1>1, <1>5
  <2> QED BY <1>1, <1>2, <1>3, <2>1
<1>6. a = q
  BY <1>1, <1>4, <1>5
<1>7. b = r
  BY <1>1, <1>2, <1>3, <1>6
<1> QED BY <1>6, <1>7 DEF a, b, x

LEMMA PairSplit ==
  ASSUME NEW n \in Nat, NEW p \in PairsOf(n)
  PROVE  /\ TokenOf(p) \in 0..(n - 1) /\ SlotOf(p) \in 0..(TopK - 1)
         /\ p = TokenOf(p) * TopK + SlotOf(p) /\ p \in Nat
<1>1. TopK \in Nat \ {0}
  BY Constants
<1>2. n * TopK \in Nat /\ p \in Nat /\ p < n * TopK
  BY <1>1 DEF PairsOf
<1> DEFINE a == p \div TopK
           b == p % TopK
<1>3. a \in Nat /\ b \in 0..(TopK - 1) /\ p = TopK * a + b
  BY <1>1, <1>2
<1>4. a * TopK = TopK * a
  BY <1>1, <1>3
<1> HIDE DEF a, b
<1>5. a < n
  <2>1. SUFFICES ASSUME a >= n PROVE FALSE
    BY <1>3
  <2>2. n * TopK <= TopK * a
    BY <1>1, <1>3, <2>1
  <2>3. TopK * a \in Nat
    BY <1>1, <1>3
  <2> QED BY <1>2, <1>3, <2>2, <2>3
<1>6. p = a * TopK + b
  BY <1>3, <1>4
<1> QED BY <1>2, <1>3, <1>5, <1>6 DEF a, b, TokenOf, SlotOf

LEMMA PairJoin ==
  ASSUME NEW n \in Nat, NEW t \in 0..(n - 1), NEW s \in 0..(TopK - 1)
  PROVE  /\ t * TopK + s \in PairsOf(n)
         /\ TokenOf(t * TopK + s) = t /\ SlotOf(t * TopK + s) = s
<1>1. TopK \in Nat \ {0} /\ t \in Nat /\ t + 1 <= n /\ s \in Nat /\ s < TopK
  BY Constants
<1>2. (t + 1) * TopK <= n * TopK
  BY <1>1
<1>3. (t + 1) * TopK = t * TopK + TopK /\ t * TopK \in Nat /\ n * TopK \in Nat
  BY <1>1
<1>4. t * TopK + s \in 0..(n * TopK - 1)
  BY <1>1, <1>2, <1>3
<1>5. (t * TopK + s) \div TopK = t /\ (t * TopK + s) % TopK = s
  BY <1>1, DivMod
<1> QED BY <1>4, <1>5 DEF PairsOf, TokenOf, SlotOf

\* Fewer tokens have fewer pairs, and there are finitely many.
LEMMA PairsGrow ==
  ASSUME NEW n \in Nat, NEW m \in Nat, n <= m
  PROVE  PairsOf(n) \subseteq PairsOf(m) /\ IsFiniteSet(PairsOf(n)) /\ PairsOf(n) \subseteq Nat
         /\ Cardinality(PairsOf(n)) = n * TopK
<1>1. TopK \in Nat \ {0}
  BY Constants
<1>2. n * TopK \in Nat /\ m * TopK \in Nat /\ n * TopK <= m * TopK
  BY <1>1
<1>3. ASSUME NEW k \in Nat PROVE IsFiniteSet(0..(k - 1)) /\ Cardinality(0..(k - 1)) = k
  <2>1. k - 1 \in Int /\ k - 1 - 0 + 1 = k
    OBVIOUS
  <2>2. /\ IsFiniteSet(0..(k - 1))
        /\ Cardinality(0..(k - 1)) = IF 0 > k - 1 THEN 0 ELSE (k - 1) - 0 + 1
    BY <2>1, FS_Interval
  <2> QED BY <2>2
<1>4. PairsOf(n) \subseteq PairsOf(m) /\ PairsOf(n) \subseteq Nat
  BY <1>2 DEF PairsOf
<1>5. IsFiniteSet(PairsOf(n)) /\ Cardinality(PairsOf(n)) = n * TopK
  BY <1>2, <1>3 DEF PairsOf
<1> QED BY <1>4, <1>5

-----------------------------------------------------------------------------
(* The invariant.                                                          *)

Stages == {"idle", "routed", "count", "scatter", "gate_up", "down", "rows",
           "summed", "added", "failed"}

TypeInv ==
  /\ moeStage \in Stages /\ collecting \in BOOLEAN
  /\ path \in [kind : {"none", "tiles", "sorted", "rows", "single"}, direct : BOOLEAN]
  /\ ntok \in Nat /\ (moeStage # "idle" => ntok \in TokenCounts)
  /\ counts \in [MoeExperts -> Int] /\ cursors \in [MoeExperts -> Int]
  /\ DOMAIN sortedPairs = PairsOf(MaxTokens)
  /\ DOMAIN mid = PairsOf(MaxTokens) /\ DOMAIN routedMid = PairsOf(MaxTokens)
  /\ DOMAIN down = PairsOf(MaxTokens) /\ DOMAIN out = 0..(MaxTokens - 1)
  /\ (moeStage # "added" => stats = NoStats)

PairsOfToken(t) == {p \in Pairs : TokenOf(p) = t}

\* Every token has its own experts, those of the CPU, each once.
Chosen ==
  /\ score \in [0..(ntok - 1) -> ScoreVectors]
  /\ selected \in [Pairs -> MoeExperts]
  /\ \A p, q \in Pairs : TokenOf(p) = TokenOf(q) /\ selected[p] = selected[q] => p = q
  /\ \A t \in 0..(ntok - 1) :
       {selected[p] : p \in PairsOfToken(t)} = ToSet(ScanSelect(score[t]))

Of(set, e) == {p \in set : selected[p] = e}
Below(e) == {p \in Pairs : selected[p] < e}

\* The places from offsets[e] to end hold the pairs of set, each once.
Filled(e, end, set) ==
  /\ end = offsets[e] + Cardinality(set)
  /\ {sortedPairs[i] : i \in offsets[e]..(end - 1)} = set
  /\ \A i, j \in offsets[e]..(end - 1) : sortedPairs[i] = sortedPairs[j] => i = j

Counted(set) == \A e \in MoeExperts : counts[e] = Cardinality(Of(set, e))
Ordered == \A e \in 0..NumExperts : offsets[e] = Cardinality(Below(e))
Scattered(set) == \A e \in MoeExperts : Filled(e, cursors[e], Of(set, e))
Sorted == \A e \in MoeExperts : Filled(e, offsets[e] + counts[e], Of(Pairs, e))

\* A tile starts at a pair of its expert.
StartsIn(e, start) == \E k \in 1..TilesOf(e) : start = (k - 1) * TileM

\* The tiles of the experts below n: each once, and few enough for the grid.
Tiled(list, n) ==
  /\ list \in Seq([expert : MoeExperts, start : Nat])
  /\ \A b \in 1..Len(list) : list[b].expert < n /\ StartsIn(list[b].expert, list[b].start)
  /\ \A b, c \in 1..Len(list) : list[b] = list[c] => b = c
  /\ \A e \in 0..(n - 1), start \in Nat :
       StartsIn(e, start) => \E b \in 1..Len(list) : list[b] = [expert |-> e, start |-> start]
  /\ TileM * Len(list) <= Cardinality(Below(n)) + n * (TileM - 1)

\* What the kernels have computed, pair by pair.
MidOf(p) == CpuMid(selected[p], TokenOf(p))
PartOf(p) == [down |-> selected[p], of |-> MidOf(p)]
DonePairs == UNION {BlockPairs(b) : b \in Blocks(tiles) \ moeTodo}
PartsOf(set) == SetToBag({PartOf(p) : p \in set})

Counting ==
  moeStage = "count" => moeTodo \subseteq Pairs /\ Counted(Pairs \ moeTodo)
Scattering ==
  moeStage = "scatter" =>
    moeTodo \subseteq Pairs /\ Counted(Pairs) /\ Ordered /\ Scattered(Pairs \ moeTodo)
Tiling ==
  moeStage \in {"gate_up", "down"} =>
    /\ moeTodo \subseteq Blocks(tiles) /\ Counted(Pairs) /\ Ordered /\ Sorted
    /\ path.kind = "tiles" => Tiled(tiles, NumExperts) /\ Len(tiles) <= TileCapacity
Activating ==
  moeStage = "gate_up" => \A p \in DonePairs : mid[p] = MidOf(p)
Adding ==
  moeStage = "down" =>
    /\ \A p \in Pairs : mid[p] = MidOf(p)
    /\ path.direct =>
         \A t \in 0..(ntok - 1) : out[t] = PartsOf(PairsOfToken(t) \cap DonePairs)
    /\ ~path.direct => \A p \in DonePairs : down[p] = PartOf(p)
Rows ==
  moeStage = "rows" =>
    /\ moeTodo \subseteq 0..(ntok - 1)
    /\ \A t \in (0..(ntok - 1)) \ moeTodo : out[t] = CpuRouted(t)
Exported ==
  collecting =>
    /\ moeStage = "rows" => \A p \in Pairs : TokenOf(p) \notin moeTodo => routedMid[p] = MidOf(p)
    /\ moeStage \in {"down", "summed"} => \A p \in Pairs : routedMid[p] = MidOf(p)

MoeInv ==
  /\ TypeInv /\ (moeStage # "idle" => Chosen)
  /\ Counting /\ Scattering /\ Tiling /\ Activating /\ Adding /\ Rows /\ Exported
  /\ RoutedAsOnCpu /\ ImatrixExact

-----------------------------------------------------------------------------
(* How many pairs an expert has, and how many come before them.            *)

LEMMA Fits ==
  ASSUME TypeInv, moeStage # "idle"
  PROVE  /\ ntok \in Nat \ {0} /\ MaxTokens \in Nat /\ ntok <= MaxTokens
         /\ Pairs \subseteq PairsOf(MaxTokens) /\ Pairs \subseteq Nat /\ IsFiniteSet(Pairs)
         /\ Cardinality(Pairs) = ntok * TopK /\ ntok * TopK \in Nat
         /\ 0..(ntok - 1) \subseteq 0..(MaxTokens - 1)
<1>1. ntok \in TokenCounts /\ TokenCounts \subseteq Nat /\ IsFiniteSet(TokenCounts)
  BY RoutedMoeAssumption DEF TypeInv
<1>2. ntok \in Nat \ {0} /\ TopK \in Nat
  BY <1>1, Constants
<1>3. MaxTokens \in TokenCounts /\ ntok <= MaxTokens
  BY <1>1, MaxOf DEF MaxTokens
<1>4. MaxTokens \in Nat
  BY <1>1, <1>3
<1>5. /\ PairsOf(ntok) \subseteq PairsOf(MaxTokens) /\ IsFiniteSet(PairsOf(ntok))
      /\ PairsOf(ntok) \subseteq Nat /\ Cardinality(PairsOf(ntok)) = ntok * TopK
  BY <1>2, <1>3, <1>4, PairsGrow
<1>6. ntok * TopK \in Nat
  BY <1>2
<1>7. 0..(ntok - 1) \subseteq 0..(MaxTokens - 1)
  BY <1>2, <1>3, <1>4
<1> QED BY <1>2, <1>3, <1>4, <1>5, <1>6, <1>7 DEF Pairs

LEMMA Cards ==
  ASSUME TypeInv, moeStage # "idle", Chosen
  PROVE  /\ \A e, set : set \subseteq Pairs =>
              /\ IsFiniteSet(Of(set, e)) /\ Cardinality(Of(set, e)) \in Nat
              /\ Cardinality(Of(set, e)) <= Cardinality(Of(Pairs, e))
         /\ \A e \in 0..NumExperts : IsFiniteSet(Below(e)) /\ Cardinality(Below(e)) \in Nat
         /\ Cardinality(Below(0)) = 0 /\ Cardinality(Below(NumExperts)) = Cardinality(Pairs)
         /\ \A e \in MoeExperts :
              Cardinality(Below(e)) + Cardinality(Of(Pairs, e)) = Cardinality(Below(e + 1))
         /\ \A e \in MoeExperts, f \in 0..NumExperts :
              e < f => Cardinality(Below(e)) + Cardinality(Of(Pairs, e)) <= Cardinality(Below(f))
<1>1. IsFiniteSet(Pairs)
  BY Fits
<1>2. \A p \in Pairs : selected[p] \in Nat /\ selected[p] < NumExperts
  BY Constants DEF Chosen
<1>3. ASSUME NEW e, NEW set, set \subseteq Pairs
      PROVE  /\ IsFiniteSet(Of(set, e)) /\ Cardinality(Of(set, e)) \in Nat
             /\ Cardinality(Of(set, e)) <= Cardinality(Of(Pairs, e))
  <2>1. Of(Pairs, e) \in SUBSET Pairs /\ Of(set, e) \in SUBSET Of(Pairs, e)
    BY <1>3 DEF Of
  <2>2. IsFiniteSet(Of(Pairs, e))
    BY <1>1, <2>1, FS_Subset
  <2> QED BY <2>1, <2>2, FS_Subset, FS_CardinalityType
<1>4. ASSUME NEW e PROVE IsFiniteSet(Below(e)) /\ Cardinality(Below(e)) \in Nat
  <2>1. Below(e) \in SUBSET Pairs
    BY DEF Below
  <2> QED BY <1>1, <2>1, FS_Subset, FS_CardinalityType
<1>5. Below(0) = {} /\ Below(NumExperts) = Pairs
  BY <1>2 DEF Below
<1>6. ASSUME NEW e \in MoeExperts, NEW f \in 0..NumExperts, e < f
      PROVE  /\ Cardinality(Below(e) \cup Of(Pairs, e))
                  = Cardinality(Below(e)) + Cardinality(Of(Pairs, e))
             /\ Below(e) \cup Of(Pairs, e) \in SUBSET Below(f)
  <2>1. e \in Nat /\ f \in Nat
    BY Constants
  <2>2. Below(e) \cap Of(Pairs, e) = {}
    BY <1>2, <2>1 DEF Below, Of
  <2>3. Below(e) \cup Of(Pairs, e) \in SUBSET Below(f)
    BY <1>2, <1>6, <2>1 DEF Below, Of
  <2>4. Cardinality(Below(e) \cup Of(Pairs, e))
          = Cardinality(Below(e)) + Cardinality(Of(Pairs, e)) - Cardinality({})
    BY <1>3, <1>4, <2>2, FS_Union
  <2>5. Cardinality({}) = 0 /\ Cardinality(Below(e)) \in Nat /\ Cardinality(Of(Pairs, e)) \in Nat
    BY <1>3, <1>4, FS_EmptySet
  <2> QED BY <2>3, <2>4, <2>5
<1>7. ASSUME NEW e \in MoeExperts, NEW f \in 0..NumExperts, e < f
      PROVE  Cardinality(Below(e)) + Cardinality(Of(Pairs, e)) <= Cardinality(Below(f))
  <2>1. Cardinality(Below(e) \cup Of(Pairs, e)) <= Cardinality(Below(f))
    BY <1>4, <1>6, <1>7, FS_Subset
  <2> QED BY <1>6, <1>7, <2>1
<1>8. ASSUME NEW e \in MoeExperts
      PROVE  Cardinality(Below(e)) + Cardinality(Of(Pairs, e)) = Cardinality(Below(e + 1))
  <2>1. e \in Nat /\ e + 1 \in 0..NumExperts /\ e < e + 1
    BY Constants
  <2>2. Below(e + 1) \subseteq Below(e) \cup Of(Pairs, e)
    BY <1>2, <2>1 DEF Below, Of
  <2>3. Below(e) \cup Of(Pairs, e) = Below(e + 1)
    BY <1>6, <2>1, <2>2
  <2> QED BY <1>6, <2>1, <2>3
<1> QED BY <1>3, <1>4, <1>5, <1>7, <1>8, FS_EmptySet

\* The prefix sums are the numbers of pairs of smaller experts.
LEMMA CountBeforeIs ==
  ASSUME TypeInv, moeStage # "idle", Chosen, Counted(Pairs)
  PROVE  \A e \in 0..NumExperts : CountBefore(e) = Cardinality(Below(e))
<1> DEFINE Is(sum) == sum = [n \in 0..NumExperts |->
                               IF n = 0 THEN 0 ELSE sum[n - 1] + counts[n - 1]]
           g == [n \in 0..NumExperts |-> Cardinality(Below(n))]
           c == CHOOSE sum : Is(sum)
<1>1. NumExperts \in Nat
  BY Constants
<1>2. ASSUME NEW n \in 0..NumExperts, n # 0
      PROVE  /\ n - 1 \in MoeExperts /\ n - 1 \in 0..NumExperts
             /\ Cardinality(Below(n)) = Cardinality(Below(n - 1)) + counts[n - 1]
  <2>1. n - 1 \in MoeExperts /\ n - 1 \in 0..NumExperts /\ (n - 1) + 1 = n
    BY <1>1, <1>2, Constants
  <2> QED BY <2>1, Cards DEF Counted
<1>3. Is(g)
  <2>1. ASSUME NEW n \in 0..NumExperts
        PROVE  g[n] = IF n = 0 THEN 0 ELSE g[n - 1] + counts[n - 1]
    <3>1. CASE n = 0
      BY <3>1, Cards
    <3>2. CASE n # 0
      BY <1>2, <3>2
    <3> QED BY <3>1, <3>2
  <2>2. g = [n \in 0..NumExperts |-> g[n]]
    OBVIOUS
  <2> HIDE DEF g
  <2> QED BY <2>1, <2>2
<1>4. Is(c)
  BY <1>3
<1>5. \A e : CountBefore(e) = c[e]
  BY DEF CountBefore
<1> HIDE DEF c, g
<1>6. ASSUME NEW n \in 0..NumExperts
      PROVE  c[n] = IF n = 0 THEN 0 ELSE c[n - 1] + counts[n - 1]
  <2> DEFINE rhs == [m \in 0..NumExperts |-> IF m = 0 THEN 0 ELSE c[m - 1] + counts[m - 1]]
  <2>1. rhs[n] = IF n = 0 THEN 0 ELSE c[n - 1] + counts[n - 1]
    OBVIOUS
  <2>2. c = rhs
    BY <1>4, Zenon
  <2> HIDE DEF rhs
  <2> QED BY <2>1, <2>2
<1> HIDE DEF Is
<1> DEFINE P == {n \in Nat : n <= NumExperts => c[n] = Cardinality(Below(n))}
<1>7. 0 \in P
  BY <1>1, <1>6, Cards
<1>8. ASSUME NEW n \in Nat, n \in P PROVE n + 1 \in P
  <2>1. SUFFICES ASSUME n + 1 <= NumExperts PROVE c[n + 1] = Cardinality(Below(n + 1))
    OBVIOUS
  <2>2. n + 1 \in 0..NumExperts /\ n + 1 # 0 /\ (n + 1) - 1 = n /\ n <= NumExperts
    BY <1>1, <2>1
  <2>3. c[n + 1] = c[n] + counts[n]
    BY <1>6, <2>2
  <2>4. c[n] = Cardinality(Below(n))
    BY <1>8, <2>2
  <2> QED BY <1>2, <2>2, <2>3, <2>4
<1> HIDE DEF P
<1>9. Nat \subseteq P
  BY <1>7, <1>8, Induct
<1>10. ASSUME NEW e \in 0..NumExperts PROVE CountBefore(e) = Cardinality(Below(e))
  <2>1. e \in Nat /\ e <= NumExperts
    BY <1>1
  <2> QED BY <1>5, <1>9, <2>1 DEF P
<1> QED BY <1>10

\* The places of an expert's pairs are those of no other expert.
LEMMA Segments ==
  ASSUME TypeInv, moeStage # "idle", Chosen, Counted(Pairs), Ordered
  PROVE  /\ \A e \in MoeExperts :
              /\ counts[e] \in Nat /\ offsets[e] \in Nat
              /\ counts[e] = Cardinality(Of(Pairs, e))
              /\ offsets[e] + counts[e] <= ntok * TopK
         /\ \A e, f \in MoeExperts : e < f => offsets[e] + counts[e] <= offsets[f]
         /\ \A i \in Pairs : \E e \in MoeExperts : i \in offsets[e]..(offsets[e] + counts[e] - 1)
<1>1. /\ NumExperts \in Nat /\ NumExperts \in 0..NumExperts
      /\ \A e \in MoeExperts : e \in Nat /\ e < NumExperts /\ e \in 0..NumExperts
                               /\ e + 1 \in 0..NumExperts
      /\ \A e \in 0..NumExperts : e \in Nat /\ (e # 0 => e - 1 \in MoeExperts)
  BY Constants
<1>2. /\ Cardinality(Pairs) = ntok * TopK /\ ntok * TopK \in Nat
  BY Fits
<1>3. \A e \in MoeExperts : Cardinality(Of(Pairs, e)) \in Nat /\ counts[e] = Cardinality(Of(Pairs, e))
  BY Cards DEF Counted
<1>4. \A e \in 0..NumExperts : Cardinality(Below(e)) \in Nat /\ offsets[e] = Cardinality(Below(e))
  BY Cards DEF Ordered
<1>5. \A e \in MoeExperts : offsets[e] + counts[e] = offsets[e + 1]
  BY <1>1, <1>3, <1>4, Cards
<1>6. offsets[NumExperts] = ntok * TopK /\ offsets[0] = 0
  BY <1>1, <1>2, <1>4, Cards
<1>7. \A e \in MoeExperts, f \in 0..NumExperts : e < f => offsets[e] + counts[e] <= offsets[f]
  BY <1>1, <1>3, <1>4, Cards
<1>8. ASSUME NEW i \in Pairs
      PROVE  \E e \in MoeExperts : i \in offsets[e]..(offsets[e] + counts[e] - 1)
  <2> DEFINE V == {n \in 0..NumExperts : i < offsets[n]}
  <2>1. i \in Nat /\ i < ntok * TopK
    BY <1>2 DEF Pairs, PairsOf
  <2>2. NumExperts \in V /\ V \subseteq Nat
    BY <1>1, <1>6, <2>1
  <2>3. PICK v \in V : \A w \in V : v <= w
    BY <2>2, Least
  <2>4. v \in 0..NumExperts /\ v # 0 /\ i < offsets[v]
    BY <1>6, <2>1, <2>3
  <2>5. v \in Nat /\ v - 1 \in MoeExperts /\ v - 1 \in 0..NumExperts /\ (v - 1) + 1 = v
    BY <1>1, <2>4
  <2>6. ~(i < offsets[v - 1])
    BY <2>3, <2>5
  <2>7. offsets[v - 1] + counts[v - 1] = offsets[v]
    BY <1>5, <2>5
  <2>8. offsets[v - 1] \in Nat /\ counts[v - 1] \in Nat /\ offsets[v] \in Nat
    BY <1>1, <1>3, <1>4, <2>4, <2>5
  <2>9. i \in offsets[v - 1]..(offsets[v - 1] + counts[v - 1] - 1)
    BY <2>1, <2>4, <2>6, <2>7, <2>8
  <2> QED BY <2>5, <2>9
<1>9. \A e \in MoeExperts : offsets[e] \in Nat /\ offsets[e] + counts[e] <= ntok * TopK
  BY <1>1, <1>4, <1>6, <1>7
<1>10. \A e, f \in MoeExperts : e < f => offsets[e] + counts[e] <= offsets[f]
  BY <1>1, <1>7
<1> QED BY <1>3, <1>8, <1>9, <1>10

-----------------------------------------------------------------------------
(* The tiles.                                                              *)

LEMMA CeilingIs ==
  ASSUME NEW c \in Nat, NEW m \in Nat \ {0}
  PROVE  LET k == (c + m - 1) \div m
         IN k \in Nat /\ m * k \in Nat /\ c <= m * k /\ m * k <= c + m - 1
<1> DEFINE x == (c + m) - 1
           k == x \div m
           r == x % m
<1>1. x \in Nat
  OBVIOUS
<1> HIDE DEF x
<1>2. k \in Nat /\ r \in 0..(m - 1) /\ x = m * k + r
  BY <1>1
<1> HIDE DEF k, r
<1>3. m * k \in Nat
  BY <1>2
<1>4. c <= m * k /\ m * k <= x
  BY <1>2, <1>3 DEF x
<1>5. (c + m - 1) = x
  BY DEF x
<1>6. (c + m - 1) \div m = k
  BY <1>5 DEF k
<1> QED BY <1>2, <1>3, <1>4, <1>5, <1>6

\* A smaller multiple has a smaller factor.
LEMMA FactorLess ==
  ASSUME NEW m \in Nat \ {0}, NEW a \in Int, NEW b \in Int, m * a < m * b
  PROVE  a < b
<1>1. SUFFICES ASSUME a >= b PROVE FALSE
  OBVIOUS
<1>2. m * a >= m * b
  BY <1>1
<1>3. m * a \in Int /\ m * b \in Int
  OBVIOUS
<1> QED BY <1>2, <1>3

TilesAfter(list, n) ==
  list \o [k \in 1..TilesOf(n - 1) |-> [expert |-> n - 1, start |-> (k - 1) * TileM]]

LEMMA TileCount ==
  ASSUME TypeInv, moeStage # "idle", Chosen, Counted(Pairs), NEW e \in MoeExperts
  PROVE  /\ TilesOf(e) \in Nat /\ TileM \in Nat \ {0} /\ counts[e] \in Nat
         /\ TileM * TilesOf(e) \in Nat /\ counts[e] <= TileM * TilesOf(e)
         /\ TileM * TilesOf(e) <= counts[e] + (TileM - 1)
<1>1. TileM \in Nat \ {0}
  BY RoutedMoeAssumption
<1>2. counts[e] \in Nat
  BY Cards DEF Counted
<1> QED BY <1>1, <1>2, CeilingIs DEF TilesOf
LEMMA TilesGrow ==
  ASSUME TypeInv, moeStage # "idle", Chosen, Counted(Pairs),
         NEW n \in MoeExperts, NEW list, Tiled(list, n)
  PROVE  Tiled(TilesAfter(list, n + 1), n + 1)
<1> DEFINE L == Len(list)
           K == TilesOf(n)
           Tile == [expert : MoeExperts, start : Nat]
           own == [k \in 1..TilesOf((n + 1) - 1) |->
                     [expert |-> (n + 1) - 1, start |-> (k - 1) * TileM]]
           all == TilesAfter(list, n + 1)
<1>1. n \in Nat /\ (n + 1) - 1 = n /\ n + 1 \in 0..NumExperts /\ n \in 0..NumExperts
  BY Constants
<1>2. /\ K \in Nat /\ TileM \in Nat \ {0} /\ TileM * K \in Nat
      /\ TileM * K <= counts[n] + (TileM - 1) /\ counts[n] \in Nat
  BY TileCount
<1> HIDE DEF K
<1>3. \A k \in 1..K : (k - 1) * TileM \in Nat
  BY <1>2
<1>4. own \in Seq(Tile) /\ Len(own) = K
      /\ \A k \in 1..K : own[k] = [expert |-> n, start |-> (k - 1) * TileM]
  <2> DEFINE these == [k \in 1..K |-> [expert |-> n, start |-> (k - 1) * TileM]]
  <2>1. own = these
    BY <1>1 DEF K
  <2>2. \A k \in 1..K : [expert |-> n, start |-> (k - 1) * TileM] \in Tile
    BY <1>3
  <2>3. these \in [1..K -> Tile]
    <3> HIDE DEF Tile
    <3> QED BY <2>2
  <2>4. these \in Seq(Tile)
    <3> HIDE DEF Tile, these
    <3> QED BY <1>2, <2>3
  <2>5. DOMAIN these = 1..K
    OBVIOUS
  <2>6. Len(these) = K
    <3> HIDE DEF these
    <3> QED BY <1>2, <2>3, <2>4, <2>5, LenProperties
  <2>7. \A k \in 1..K : these[k] = [expert |-> n, start |-> (k - 1) * TileM]
    OBVIOUS
  <2> QED BY <2>1, <2>4, <2>6, <2>7
<1>5. list \in Seq(Tile) /\ L \in Nat
  BY DEF Tiled
<1>6. all = list \o own
  BY DEF TilesAfter
<1> HIDE DEF own, all
<1>7. all \in Seq(Tile) /\ Len(all) = L + K
      /\ \A b \in 1..(L + K) : all[b] = IF b <= L THEN list[b] ELSE own[b - L]
  BY <1>4, <1>5, <1>6
<1>8. \A b \in 1..L : b \in 1..(L + K) /\ all[b] = list[b]
                      /\ list[b].expert < n /\ StartsIn(list[b].expert, list[b].start)
                      /\ list[b].expert \in Nat
  <2>1. \A b \in 1..L : b \in 1..(L + K) /\ b <= L
    BY <1>2, <1>5
  <2>2. \A b \in 1..L : all[b] = list[b]
    BY <1>7, <2>1
  <2>3. \A b \in 1..L : list[b] \in Tile
    <3> HIDE DEF Tile
    <3> QED BY <1>5
  <2>4. \A b \in 1..L : list[b].expert \in Nat
    BY <2>3, Constants
  <2>5. \A b \in 1..L : list[b].expert < n /\ StartsIn(list[b].expert, list[b].start)
    BY Zenon DEF Tiled, L
  <2> QED BY <2>1, <2>2, <2>4, <2>5
<1>9. \A b \in 1..(L + K) : b \notin 1..L =>
        /\ b - L \in 1..K
        /\ all[b] = [expert |-> n, start |-> ((b - L) - 1) * TileM]
        /\ all[b].expert = n /\ all[b].start = ((b - L) - 1) * TileM
  <2>1. \A b \in 1..(L + K) : b \notin 1..L => b - L \in 1..K /\ ~(b <= L)
    BY <1>2, <1>5
  <2>2. \A b \in 1..(L + K) : b \notin 1..L =>
          all[b] = [expert |-> n, start |-> ((b - L) - 1) * TileM]
    BY <1>4, <1>7, <2>1
  <2>3. ASSUME NEW b \in 1..(L + K), b \notin 1..L
        PROVE  all[b].expert = n /\ all[b].start = ((b - L) - 1) * TileM
    <3> DEFINE x == all[b]
    <3>1. x = [expert |-> n, start |-> ((b - L) - 1) * TileM]
      BY <2>2, <2>3
    <3> HIDE DEF x
    <3>2. x.expert = n /\ x.start = ((b - L) - 1) * TileM
      BY <3>1
    <3> QED BY <3>2 DEF x
  <2> QED BY <2>1, <2>2, <2>3
<1>10. ASSUME NEW k \in 1..K PROVE StartsIn(n, (k - 1) * TileM)
  BY <1>10 DEF StartsIn, K
<1>11. ASSUME NEW b \in 1..(L + K)
       PROVE  all[b].expert < n + 1 /\ StartsIn(all[b].expert, all[b].start)
  <2>1. CASE b \in 1..L
    BY <1>1, <1>8, <2>1
  <2>2. CASE b \notin 1..L
    <3>1. /\ b - L \in 1..K
          /\ all[b].expert = n /\ all[b].start = ((b - L) - 1) * TileM
      BY <1>9, <2>2
    <3>2. StartsIn(n, ((b - L) - 1) * TileM)
      BY <1>10, <3>1
    <3>3. n < n + 1
      BY <1>1
    <3> QED BY <3>1, <3>2, <3>3, Zenon
  <2> QED BY <2>1, <2>2
<1>12. ASSUME NEW b \in 1..(L + K), NEW c \in 1..(L + K), all[b] = all[c] PROVE b = c
  <2>1. CASE b \in 1..L /\ c \in 1..L
    BY <1>8, <1>12, <2>1 DEF Tiled
  <2>2. CASE b \in 1..L /\ c \notin 1..L
    <3>1. all[b].expert < n /\ all[c].expert = n
      BY <1>8, <1>9, <2>2
    <3> QED BY <1>1, <1>12, <3>1
  <2>3. CASE b \notin 1..L /\ c \in 1..L
    <3>1. all[c].expert < n /\ all[b].expert = n
      BY <1>8, <1>9, <2>3
    <3> QED BY <1>1, <1>12, <3>1
  <2>4. CASE b \notin 1..L /\ c \notin 1..L
    <3>1. ((b - L) - 1) * TileM = ((c - L) - 1) * TileM
      <4>1. /\ all[b].start = ((b - L) - 1) * TileM
            /\ all[c].start = ((c - L) - 1) * TileM
        BY <1>9, <2>4
      <4> QED BY <1>12, <4>1
    <3>2. (b - L) - 1 \in Int /\ (c - L) - 1 \in Int /\ 0 \in 0..(TileM - 1)
      BY <1>2, <1>5
    <3>3. ASSUME NEW q \in Int PROVE (q * TileM) \div TileM = q
      <4>1. (q * TileM + 0) \div TileM = q /\ q * TileM + 0 = q * TileM
        BY <1>2, <3>2, DivMod
      <4> QED BY <4>1
    <3>4. (b - L) - 1 = (c - L) - 1
      <4>1. \A q \in Int : (q * TileM) \div TileM = q
        BY <3>3
      <4> DEFINE x == (b - L) - 1
                 y == (c - L) - 1
      <4>2. x \in Int /\ y \in Int /\ x * TileM = y * TileM
        BY <3>1, <3>2
      <4> HIDE DEF x, y
      <4>3. x = y
        BY <4>1, <4>2
      <4> QED BY <4>3 DEF x, y
    <3> QED BY <1>5, <3>4
  <2> QED BY <2>1, <2>2, <2>3, <2>4
<1>13. ASSUME NEW e \in 0..((n + 1) - 1), NEW start \in Nat, StartsIn(e, start)
       PROVE  \E b \in 1..(L + K) : all[b] = [expert |-> e, start |-> start]
  <2>1. CASE e = n
    <3>1. PICK k \in 1..K : start = (k - 1) * TileM
      BY <1>13, <2>1 DEF StartsIn, K
    <3>2. L + k \in 1..(L + K) /\ L + k \notin 1..L /\ (L + k) - L = k
      BY <1>2, <1>5
    <3>3. all[L + k] = [expert |-> e, start |-> start]
      BY <1>9, <2>1, <3>1, <3>2
    <3> QED BY <3>2, <3>3
  <2>2. CASE e # n
    <3>1. e \in 0..(n - 1)
      BY <1>1, <2>2
    <3>2. PICK b \in 1..L : list[b] = [expert |-> e, start |-> start]
      BY <1>13, <3>1 DEF Tiled
    <3> QED BY <1>8, <3>2
  <2> QED BY <2>1, <2>2
<1>14. TileM * (L + K) <= Cardinality(Below(n + 1)) + (n + 1) * (TileM - 1)
  <2>1. TileM * L <= Cardinality(Below(n)) + n * (TileM - 1)
    BY DEF Tiled
  <2>2. /\ Cardinality(Below(n + 1)) = Cardinality(Below(n)) + counts[n]
        /\ Cardinality(Below(n)) \in Nat
    BY <1>1, Cards DEF Counted
  <2>3. TileM * (L + K) = TileM * L + TileM * K /\ TileM * L \in Nat
    BY <1>2, <1>5
  <2>4. (n + 1) * (TileM - 1) = n * (TileM - 1) + (TileM - 1) /\ n * (TileM - 1) \in Nat
    BY <1>1, <1>2
  <2> QED BY <1>2, <2>1, <2>2, <2>3, <2>4
<1>15. Tiled(all, n + 1)
  BY <1>7, <1>11, <1>12, <1>13, <1>14 DEF Tiled
<1> QED BY <1>15 DEF all

TilesAre(list) ==
  list = [n \in 0..NumExperts |-> IF n = 0 THEN <<>> ELSE TilesAfter(list[n - 1], n)]

LEMMA NoTiles ==
  ASSUME TypeInv, moeStage # "idle", Chosen
  PROVE  Tiled(<<>>, 0)
<1>1. Cardinality(Below(0)) = 0 /\ TileM \in Nat \ {0}
  BY Cards, RoutedMoeAssumption
<1>2. <<>> \in Seq([expert : MoeExperts, start : Nat]) /\ Len(<<>>) = 0
  OBVIOUS
<1>3. TileM * 0 <= Cardinality(Below(0)) + 0 * (TileM - 1)
  BY <1>1
<1> QED BY <1>2, <1>3 DEF Tiled

LEMMA TilesInduct ==
  ASSUME TypeInv, moeStage # "idle", Chosen, Counted(Pairs),
         NEW list, list[0] = <<>>,
         \A i \in 1..NumExperts :
           Tiled(list[i - 1], i - 1) => list[i] = TilesAfter(list[i - 1], i)
  PROVE  \A i \in 0..NumExperts : Tiled(list[i], i)
<1> DEFINE P == {i \in Nat : i <= NumExperts => Tiled(list[i], i)}
<1>1. 0 \in P
  BY NoTiles
<1>2. ASSUME NEW n \in Nat, n \in P PROVE n + 1 \in P
  <2>1. SUFFICES ASSUME n + 1 <= NumExperts PROVE Tiled(list[n + 1], n + 1)
    OBVIOUS
  <2>2. n \in MoeExperts /\ n + 1 \in 1..NumExperts /\ (n + 1) - 1 = n
    BY <2>1, Constants
  <2>3. Tiled(list[n], n)
    BY <1>2, <2>1, <2>2, Constants
  <2>4. list[n + 1] = TilesAfter(list[n], n + 1)
    BY <2>2, <2>3
  <2> QED BY <2>2, <2>3, <2>4, TilesGrow
<1> HIDE DEF P
<1>3. Nat \subseteq P
  BY <1>1, <1>2, Induct
<1>4. ASSUME NEW i \in 0..NumExperts PROVE Tiled(list[i], i)
  <2>1. i \in Nat /\ i <= NumExperts
    BY Constants
  <2> QED BY <1>3, <2>1 DEF P
<1> QED BY <1>4

LEMMA TilesExist ==
  ASSUME TypeInv, moeStage # "idle", Chosen, Counted(Pairs)
  PROVE  \E list : TilesAre(list)
<1> DEFINE V == Seq([expert : MoeExperts, start : Nat])
           next(i, v) == TilesAfter(v, i)
           step == [x \in (1..NumExperts) \X V |->
                      IF next(x[1], x[2]) \in V THEN next(x[1], x[2]) ELSE <<>>]
<1>1. \A i \in 1..NumExperts, v \in V :
        step[<<i, v>>] = IF next(i, v) \in V THEN next(i, v) ELSE <<>>
  <2> HIDE DEF next
  <2> QED OBVIOUS
<1>2. <<>> \in V /\ NumExperts \in Nat
  BY Constants
<1> HIDE DEF step
<1>3. \A i \in 1..NumExperts, v \in V : step[<<i, v>>] \in V
  <2> HIDE DEF next
  <2> QED BY <1>1, <1>2
<1>4. PICK f \in [0..NumExperts -> V] : Steps(f, NumExperts, <<>>, step)
  BY <1>2, <1>3, Recursion
<1>5. \A i \in 1..NumExperts : i \in 0..NumExperts /\ i - 1 \in 0..NumExperts
                               /\ i - 1 \in MoeExperts /\ (i - 1) + 1 = i
  <2> HIDE DEF V, next
  <2> QED BY <1>2, Constants
<1>6. ASSUME NEW i \in 1..NumExperts, Tiled(f[i - 1], i - 1)
      PROVE  f[i] = next(i, f[i - 1])
  <2>1. f[i - 1] \in V /\ f[i] = step[<<i, f[i - 1]>>]
    BY <1>4, <1>5 DEF Steps
  <2>2. Tiled(next(i, f[i - 1]), i)
    <3>1. Tiled(TilesAfter(f[i - 1], (i - 1) + 1), (i - 1) + 1)
      BY <1>5, <1>6, TilesGrow
    <3> QED BY <1>5, <3>1
  <2>3. next(i, f[i - 1]) \in V
    BY <2>2 DEF Tiled
  <2> QED BY <1>1, <2>1, <2>3
<1>7. f[0] = <<>>
  BY <1>4 DEF Steps
<1>8. \A i \in 0..NumExperts : Tiled(f[i], i)
  BY <1>6, <1>7, TilesInduct
<1>9. \A i \in 1..NumExperts : f[i] = next(i, f[i - 1])
  BY <1>5, <1>6, <1>8
<1>10. \A i \in 0..NumExperts : f[i] = IF i = 0 THEN <<>> ELSE next(i, f[i - 1])
  <2> HIDE DEF next
  <2> QED BY <1>2, <1>7, <1>9
<1>11. f = [i \in 0..NumExperts |-> f[i]]
  BY <1>4
<1>12. TilesAre(f)
  BY <1>10, <1>11 DEF TilesAre
<1> QED BY <1>12

\* The tiles built from the counts, all of which the grid launches.
LEMMA TileListIs ==
  ASSUME TypeInv, moeStage # "idle", Chosen, Counted(Pairs)
  PROVE  Tiled(TileList, NumExperts) /\ Len(TileList) <= TileCapacity
<1> DEFINE c == CHOOSE list : TilesAre(list)
<1>1. TilesAre(c)
  BY TilesExist
<1>2. TileList = c[NumExperts]
  BY DEF TileList, TilesAre, TilesAfter
<1> HIDE DEF c
<1>3. \A i \in 0..NumExperts : c[i] = IF i = 0 THEN <<>> ELSE TilesAfter(c[i - 1], i)
  <2> DEFINE rhs == [n \in 0..NumExperts |-> IF n = 0 THEN <<>> ELSE TilesAfter(c[n - 1], n)]
  <2>1. \A i \in 0..NumExperts : rhs[i] = IF i = 0 THEN <<>> ELSE TilesAfter(c[i - 1], i)
    OBVIOUS
  <2>2. c = rhs
    BY <1>1, Zenon DEF TilesAre
  <2> HIDE DEF rhs
  <2> QED BY <2>1, <2>2
<1>4. /\ 0 \in 0..NumExperts /\ NumExperts \in 0..NumExperts /\ NumExperts \in Nat
      /\ \A i \in 1..NumExperts : i \in 0..NumExperts /\ i # 0
  BY Constants
<1>5. c[0] = <<>> /\ \A i \in 1..NumExperts : c[i] = TilesAfter(c[i - 1], i)
  BY <1>3, <1>4
<1>6. Tiled(TileList, NumExperts)
  BY <1>2, <1>4, <1>5, TilesInduct
<1> DEFINE L == Len(TileList)
           N == Cardinality(Pairs)
           k == (N + TileM - 1) \div TileM
<1>7. L \in Nat /\ TileM * L <= Cardinality(Below(NumExperts)) + NumExperts * (TileM - 1)
  BY <1>6 DEF Tiled
<1>8. TileM \in Nat \ {0} /\ N \in Nat /\ Cardinality(Below(NumExperts)) = N
  BY RoutedMoeAssumption, Fits, Cards
<1>9. k \in Nat /\ TileM * k \in Nat /\ N <= TileM * k
  BY <1>8, CeilingIs
<1>10. TileCapacity = k + NumExperts
  BY DEF TileCapacity
<1> HIDE DEF L, N, k
<1>11. TileM * L < TileM * (k + NumExperts + 1)
  <2>1. TileM * (k + NumExperts + 1) = TileM * k + TileM * NumExperts + TileM
    BY <1>4, <1>8, <1>9
  <2>2. NumExperts * (TileM - 1) = TileM * NumExperts - NumExperts
        /\ TileM * NumExperts \in Nat /\ TileM * L \in Nat
    BY <1>4, <1>7, <1>8
  <2> QED BY <1>4, <1>7, <1>8, <1>9, <2>1, <2>2
<1>12. L < k + NumExperts + 1
  <2>1. k + NumExperts + 1 \in Int
    BY <1>4, <1>9
  <2> QED BY <1>7, <1>8, <1>11, <2>1, FactorLess
<1>13. L <= TileCapacity
  BY <1>4, <1>7, <1>9, <1>10, <1>12
<1> QED BY <1>6, <1>13 DEF L
-----------------------------------------------------------------------------
(* Every pair is in one block, which reads the weights of its expert.      *)

Batch ==
  /\ TypeInv /\ moeStage # "idle" /\ Chosen /\ Counted(Pairs) /\ Ordered /\ Sorted
  /\ path.kind = "tiles" => Tiled(tiles, NumExperts) /\ Len(tiles) <= TileCapacity

\* The j-th of an expert's sorted pairs.
At(e, j) == sortedPairs[offsets[e] + j]

LEMMA PlacesOf ==
  ASSUME Batch, NEW e \in MoeExperts
  PROVE  /\ \A j \in 0..(counts[e] - 1) : At(e, j) \in Of(Pairs, e)
         /\ \A j, k \in 0..(counts[e] - 1) : At(e, j) = At(e, k) => j = k
         /\ \A p \in Of(Pairs, e) : \E j \in 0..(counts[e] - 1) : At(e, j) = p
<1> DEFINE o == offsets[e]
           c == counts[e]
<1>1. o \in Nat /\ c \in Nat
  BY Segments DEF Batch
<1>2. /\ {sortedPairs[i] : i \in o..(o + c - 1)} = Of(Pairs, e)
      /\ \A i, j \in o..(o + c - 1) : sortedPairs[i] = sortedPairs[j] => i = j
  <2>1. Filled(e, o + c, Of(Pairs, e))
    BY DEF Batch, Sorted
  <2>2. /\ {sortedPairs[i] : i \in o..((o + c) - 1)} = Of(Pairs, e)
        /\ \A i, j \in o..((o + c) - 1) : sortedPairs[i] = sortedPairs[j] => i = j
    BY <2>1, Zenon DEF Filled
  <2>3. o + c - 1 = (o + c) - 1
    BY <1>1
  <2> QED BY <2>2, <2>3, Zenon
<1> HIDE DEF o, c
<1>3. \A j \in 0..(c - 1) : o + j \in o..(o + c - 1)
  BY <1>1
<1>4. \A i \in o..(o + c - 1) : i - o \in 0..(c - 1) /\ o + (i - o) = i
  BY <1>1
<1>5. \A j \in 0..(c - 1) : sortedPairs[o + j] \in Of(Pairs, e)
  BY <1>2, <1>3
<1>6. ASSUME NEW j \in 0..(c - 1), NEW k \in 0..(c - 1), sortedPairs[o + j] = sortedPairs[o + k]
      PROVE  j = k
  <2>1. o + j = o + k
    BY <1>2, <1>3, <1>6
  <2> QED BY <1>1, <2>1
<1>7. ASSUME NEW p \in Of(Pairs, e) PROVE \E j \in 0..(c - 1) : sortedPairs[o + j] = p
  <2>1. PICK i \in o..(o + c - 1) : sortedPairs[i] = p
    BY <1>2
  <2> QED BY <1>4, <2>1
<1> QED BY <1>5, <1>6, <1>7 DEF At, o, c

\* The pairs of a tile.
InTile(e, start) ==
  {At(e, j) : j \in {i \in 0..(counts[e] - 1) : start <= i /\ i < start + TileM}}

LEMMA TileBlock ==
  ASSUME Batch, path.kind = "tiles", NEW b \in Blocks(tiles)
  PROVE  LET tile == tiles[b + 1]
         IN /\ b + 1 \in 1..Len(tiles)
            /\ tile.expert \in MoeExperts /\ tile.start \in Nat
            /\ tile = [expert |-> tile.expert, start |-> tile.start]
            /\ StartsIn(tile.expert, tile.start)
            /\ BlockPairs(b) = InTile(tile.expert, tile.start)
            /\ \A p : BlockExpert(b, p) = tile.expert
<1> DEFINE L == Len(tiles)
           tile == tiles[b + 1]
           e == tile.expert
           s == tile.start
           o == offsets[e]
           c == counts[e]
           m == Min({TileM, c - s})
<1>1. Tiled(tiles, NumExperts)
  BY DEF Batch
<1>2. b \in Nat /\ b < L
  <2>1. Blocks(tiles) = {x \in 0..(TileCapacity - 1) : x < L}
    BY DEF Blocks
  <2>2. b \in 0..(TileCapacity - 1) /\ b < L
    BY <2>1
  <2> QED BY <2>2
<1>3. L \in Nat /\ tiles \in Seq([expert : MoeExperts, start : Nat])
  BY <1>1 DEF Tiled
<1>4. b + 1 \in 1..L
  BY <1>2, <1>3
<1>5. tile \in [expert : MoeExperts, start : Nat]
  <2> DEFINE Tile == [expert : MoeExperts, start : Nat]
  <2> HIDE DEF Tile
  <2>1. L \in Nat /\ tiles \in Seq(Tile)
    BY <1>3 DEF Tile
  <2>2. \A x \in 1..L : tiles[x] \in Tile
    BY <2>1
  <2>3. tile \in Tile
    BY <1>4, <2>2
  <2> QED BY <2>3 DEF Tile
<1>6. StartsIn(e, s)
  BY <1>1, <1>4 DEF Tiled
<1>7. BlockPairs(b) = {sortedPairs[o + s + i] : i \in 0..(m - 1)}
  BY DEF BlockPairs
<1>8. \A p : BlockExpert(b, p) = e
  BY DEF BlockExpert
<1> HIDE DEF tile, L
<1>9. e \in MoeExperts /\ s \in Nat /\ tile = [expert |-> e, start |-> s]
  BY <1>5
<1>10. c \in Nat /\ o \in Nat /\ TileM \in Nat \ {0}
  BY <1>9, Segments, RoutedMoeAssumption DEF Batch
<1> HIDE DEF e, s
<1>11. m = IF TileM <= c - s THEN TileM ELSE c - s
  BY <1>9, <1>10, MinOfTwo
<1> HIDE DEF o, c, m
<1>12. ASSUME NEW i \in 0..(m - 1)
       PROVE  s + i \in {j \in 0..(c - 1) : s <= j /\ j < s + TileM} /\ o + s + i = o + (s + i)
  BY <1>9, <1>10, <1>11
<1>13. ASSUME NEW j \in 0..(c - 1), s <= j, j < s + TileM
       PROVE  j - s \in 0..(m - 1) /\ o + s + (j - s) = o + j
  BY <1>9, <1>10, <1>11, <1>13
<1>14. BlockPairs(b) \subseteq InTile(e, s)
  <2>1. SUFFICES ASSUME NEW p \in BlockPairs(b) PROVE p \in InTile(e, s)
    OBVIOUS
  <2>2. PICK i \in 0..(m - 1) : p = sortedPairs[o + s + i]
    BY <1>7
  <2>3. p = At(e, s + i)
    BY <1>12, <2>2 DEF At, o
  <2> QED BY <1>12, <2>3 DEF InTile, c
<1>15. InTile(e, s) \subseteq BlockPairs(b)
  <2>1. SUFFICES ASSUME NEW p \in InTile(e, s) PROVE p \in BlockPairs(b)
    OBVIOUS
  <2>2. PICK j \in 0..(c - 1) : s <= j /\ j < s + TileM /\ p = At(e, j)
    BY DEF InTile, c
  <2>3. p = sortedPairs[o + j]
    BY <2>2 DEF At, o
  <2>4. j - s \in 0..(m - 1) /\ p = sortedPairs[o + s + (j - s)]
    BY <1>13, <2>2, <2>3
  <2> QED BY <1>7, <2>4
<1>16. BlockPairs(b) = InTile(e, s)
  BY <1>14, <1>15
<1> QED BY <1>4, <1>6, <1>8, <1>9, <1>16 DEF tile, L, e, s

\* A place of an expert is in one of its tiles, and in no other.
LEMMA TileOfPlace ==
  ASSUME Batch, NEW e \in MoeExperts, NEW j \in 0..(counts[e] - 1)
  PROVE  /\ \E s \in Nat : StartsIn(e, s) /\ s <= j /\ j < s + TileM
         /\ \A s, r : /\ StartsIn(e, s) /\ s <= j /\ j < s + TileM
                      /\ StartsIn(e, r) /\ r <= j /\ j < r + TileM
                      => s = r
<1>1. /\ TilesOf(e) \in Nat /\ TileM \in Nat \ {0} /\ counts[e] \in Nat
      /\ TileM * TilesOf(e) \in Nat /\ counts[e] <= TileM * TilesOf(e)
  BY TileCount DEF Batch
<1>2. j \in Nat /\ j < counts[e]
  BY <1>1
<1> DEFINE q == j \div TileM
           r0 == j % TileM
<1>3. q \in Nat /\ r0 \in 0..(TileM - 1) /\ j = TileM * q + r0
  BY <1>1, <1>2
<1> HIDE DEF q, r0
<1>4. TileM * q \in Nat /\ q * TileM = TileM * q
  BY <1>1, <1>3
<1>5. TileM * q < TileM * TilesOf(e)
  BY <1>1, <1>2, <1>3, <1>4
<1>6. q < TilesOf(e)
  BY <1>1, <1>3, <1>5, FactorLess
<1>7. q + 1 \in 1..TilesOf(e) /\ ((q + 1) - 1) * TileM = TileM * q
  BY <1>1, <1>3, <1>4, <1>6
<1>8. StartsIn(e, TileM * q) /\ TileM * q <= j /\ j < TileM * q + TileM
  <2>1. StartsIn(e, TileM * q)
    BY <1>7 DEF StartsIn
  <2> QED BY <1>1, <1>3, <1>4, <2>1
<1>9. ASSUME NEW s, StartsIn(e, s), s <= j, j < s + TileM
      PROVE  s = TileM * q
  <2>1. PICK k \in 1..TilesOf(e) : s = (k - 1) * TileM
    BY <1>9 DEF StartsIn
  <2>2. k - 1 \in Int /\ s \in Int
    BY <1>1, <2>1
  <2>3. j - s \in 0..(TileM - 1) /\ s + (j - s) = j
    BY <1>1, <1>2, <1>9, <2>2
  <2>4. j \div TileM = k - 1
    <3>1. ((k - 1) * TileM + (j - s)) \div TileM = k - 1
      BY <1>1, <2>2, <2>3, DivMod
    <3> QED BY <2>1, <2>3, <3>1
  <2>5. q = k - 1
    BY <2>4 DEF q
  <2> QED BY <1>4, <2>1, <2>5
<1>10. \E s \in Nat : StartsIn(e, s) /\ s <= j /\ j < s + TileM
  BY <1>4, <1>8
<1> QED BY <1>9, <1>10
\* A block has pairs of the batch and their expert, each pair has one block.
Partition ==
  /\ \A b \in Blocks(tiles) : \A p \in BlockPairs(b) :
       p \in Pairs /\ BlockExpert(b, p) = selected[p]
  /\ \A b, c \in Blocks(tiles) : \A p : p \in BlockPairs(b) /\ p \in BlockPairs(c) => b = c
  /\ \A p \in Pairs : \E b \in Blocks(tiles) : p \in BlockPairs(b)

LEMMA PlaceUnique ==
  ASSUME Batch,
         NEW e \in MoeExperts, NEW f \in MoeExperts,
         NEW i \in 0..(counts[e] - 1), NEW j \in 0..(counts[f] - 1), At(e, i) = At(f, j)
  PROVE  e = f /\ i = j
<1>1. At(e, i) \in Of(Pairs, e) /\ At(f, j) \in Of(Pairs, f)
  BY PlacesOf
<1>2. e = f
  BY <1>1 DEF Of
<1>3. i = j
  BY <1>2, PlacesOf
<1> QED BY <1>2, <1>3

LEMMA TilesPartition ==
  ASSUME Batch, path.kind = "tiles"
  PROVE  Partition
<1> DEFINE E(b) == tiles[b + 1].expert
           S(b) == tiles[b + 1].start
<1>1. ASSUME NEW b \in Blocks(tiles)
      PROVE  /\ b + 1 \in 1..Len(tiles) /\ E(b) \in MoeExperts /\ S(b) \in Nat
             /\ tiles[b + 1] = [expert |-> E(b), start |-> S(b)] /\ StartsIn(E(b), S(b))
             /\ BlockPairs(b) = InTile(E(b), S(b)) /\ \A p : BlockExpert(b, p) = E(b)
  BY TileBlock
<1>2. /\ Tiled(tiles, NumExperts) /\ Len(tiles) <= TileCapacity
      /\ \A b, c \in 1..Len(tiles) : tiles[b] = tiles[c] => b = c
      /\ \A e \in 0..(NumExperts - 1), start \in Nat :
           StartsIn(e, start) => \E b \in 1..Len(tiles) : tiles[b] = [expert |-> e, start |-> start]
  BY DEF Batch, Tiled
<1> HIDE DEF E, S
<1>3. ASSUME NEW b \in Blocks(tiles), NEW p \in BlockPairs(b)
      PROVE  \E j \in 0..(counts[E(b)] - 1) : S(b) <= j /\ j < S(b) + TileM /\ p = At(E(b), j)
  <2>1. p \in InTile(E(b), S(b))
    BY <1>1, Zenon
  <2> QED BY <2>1, Zenon DEF InTile
<1>4. ASSUME NEW b \in Blocks(tiles), NEW p \in BlockPairs(b)
      PROVE  p \in Pairs /\ BlockExpert(b, p) = selected[p]
  <2>1. PICK j \in 0..(counts[E(b)] - 1) : p = At(E(b), j)
    BY <1>3, Zenon
  <2>2. p \in Of(Pairs, E(b))
    BY <1>1, <2>1, PlacesOf
  <2> QED BY <1>1, <2>2 DEF Of
<1>5. ASSUME NEW b \in Blocks(tiles), NEW c \in Blocks(tiles), NEW p,
             p \in BlockPairs(b), p \in BlockPairs(c)
      PROVE  b = c
  <2>1. PICK j \in 0..(counts[E(b)] - 1) : S(b) <= j /\ j < S(b) + TileM /\ p = At(E(b), j)
    BY <1>3, <1>5, Zenon
  <2>2. PICK k \in 0..(counts[E(c)] - 1) : S(c) <= k /\ k < S(c) + TileM /\ p = At(E(c), k)
    BY <1>3, <1>5, Zenon
  <2>3. E(b) = E(c) /\ j = k
    <3>1. At(E(b), j) = At(E(c), k) /\ E(b) \in MoeExperts /\ E(c) \in MoeExperts
      BY <1>1, <2>1, <2>2, Zenon
    <3> HIDE DEF E
    <3> QED BY <3>1, PlaceUnique, SMTT(30)
  <2>4. StartsIn(E(b), S(b)) /\ StartsIn(E(b), S(c)) /\ E(b) \in MoeExperts
    BY <1>1, <2>3
  <2>5. S(c) <= j /\ j < S(c) + TileM
    BY <2>2, <2>3
  <2>6. S(b) = S(c)
    BY <2>1, <2>4, <2>5, TileOfPlace
  <2>7. tiles[b + 1] = tiles[c + 1] /\ b + 1 \in 1..Len(tiles) /\ c + 1 \in 1..Len(tiles)
    <3>1. /\ tiles[b + 1] = [expert |-> E(b), start |-> S(b)]
          /\ tiles[c + 1] = [expert |-> E(c), start |-> S(c)]
          /\ b + 1 \in 1..Len(tiles) /\ c + 1 \in 1..Len(tiles)
      BY <1>1, Zenon
    <3>2. [expert |-> E(b), start |-> S(b)] = [expert |-> E(c), start |-> S(c)]
      BY <2>3, <2>6
    <3> QED BY <3>1, <3>2, Zenon
  <2>8. b + 1 = c + 1
    BY <1>2, <2>7
  <2>9. b \in Int /\ c \in Int
    BY DEF Blocks
  <2> QED BY <2>8, <2>9
<1>6. ASSUME NEW p \in Pairs PROVE \E b \in Blocks(tiles) : p \in BlockPairs(b)
  <2> DEFINE e == selected[p]
  <2>1. e \in MoeExperts /\ p \in Of(Pairs, e)
    BY DEF Batch, Chosen, Of
  <2> HIDE DEF e
  <2>2. PICK j \in 0..(counts[e] - 1) : At(e, j) = p
    BY <2>1, PlacesOf
  <2>3. PICK s \in Nat : StartsIn(e, s) /\ s <= j /\ j < s + TileM
    BY <2>1, TileOfPlace
  <2>4. e \in 0..(NumExperts - 1)
    BY <2>1 DEF MoeExperts
  <2>5. PICK x \in 1..Len(tiles) : tiles[x] = [expert |-> e, start |-> s]
    BY <1>2, <2>3, <2>4
  <2> DEFINE b == x - 1
  <2>6. b \in Nat /\ b < Len(tiles) /\ b \in 0..(TileCapacity - 1) /\ b + 1 = x
    <3>1. Len(tiles) \in Nat /\ Len(tiles) <= TileCapacity
      BY <1>2 DEF Tiled
    <3>2. TileCapacity \in Int
      <4>1. Cardinality(Pairs) \in Nat /\ TileM \in Nat \ {0} /\ NumExperts \in Nat
        BY Fits, Constants DEF Batch
      <4>2. ((Cardinality(Pairs) + TileM - 1) \div TileM) \in Nat
        BY <4>1, CeilingIs
      <4> QED BY <4>1, <4>2 DEF TileCapacity
    <3> QED BY <3>1, <3>2
  <2> HIDE DEF b
  <2>7. b \in Blocks(tiles)
    BY <2>6 DEF Blocks
  <2>8. E(b) = e /\ S(b) = s
    <3> DEFINE t == tiles[x]
    <3>1. t = [expert |-> e, start |-> s]
      BY <2>5
    <3>2. E(b) = t.expert /\ S(b) = t.start
      BY <2>6 DEF E, S
    <3> HIDE DEF t
    <3> QED BY <3>1, <3>2
  <2>9. p \in InTile(e, s)
    BY <2>2, <2>3 DEF InTile
  <2> QED BY <1>1, <2>7, <2>8, <2>9
<1> QED BY <1>4, <1>5, <1>6 DEF Partition

LEMMA SortedPartition ==
  ASSUME Batch, path.kind # "tiles"
  PROVE  Partition
<1>1. Blocks(tiles) = Pairs
  BY DEF Blocks
<1>2. /\ \A b : BlockPairs(b) = {sortedPairs[b]}
      /\ \A b, p : BlockExpert(b, p) = selected[p]
  BY DEF BlockPairs, BlockExpert
<1>3. Pairs \subseteq Nat /\ Pairs = 0..(ntok * TopK - 1) /\ ntok * TopK \in Nat
  BY Fits DEF Batch, Pairs, PairsOf
<1>4. /\ \A e \in MoeExperts : counts[e] \in Nat /\ offsets[e] \in Nat
                               /\ offsets[e] + counts[e] <= ntok * TopK
      /\ \A i \in Pairs : \E e \in MoeExperts : i \in offsets[e]..(offsets[e] + counts[e] - 1)
  BY Segments DEF Batch
<1>5. ASSUME NEW i \in Pairs
      PROVE  \E e \in MoeExperts : \E j \in 0..(counts[e] - 1) :
               sortedPairs[i] = At(e, j) /\ i = offsets[e] + j
  <2>1. PICK e \in MoeExperts : i \in offsets[e]..(offsets[e] + counts[e] - 1)
    BY <1>4
  <2> DEFINE j == i - offsets[e]
  <2>2. j \in 0..(counts[e] - 1) /\ i = offsets[e] + j
    BY <1>3, <1>4, <2>1
  <2> HIDE DEF j
  <2>3. sortedPairs[i] = At(e, j)
    BY <2>2 DEF At
  <2> QED BY <2>2, <2>3
<1>6. ASSUME NEW b \in Pairs PROVE sortedPairs[b] \in Pairs
  <2>1. PICK e \in MoeExperts : \E j \in 0..(counts[e] - 1) :
          sortedPairs[b] = At(e, j)
    BY <1>5
  <2>2. PICK j \in 0..(counts[e] - 1) :
          sortedPairs[b] = At(e, j)
    BY <2>1
  <2>3. At(e, j) \in Of(Pairs, e)
    BY PlacesOf
  <2> QED BY <2>2, <2>3 DEF Of
<1>7. ASSUME NEW b \in Pairs, NEW c \in Pairs, sortedPairs[b] = sortedPairs[c]
      PROVE  b = c
  <2>1. PICK e \in MoeExperts : \E j \in 0..(counts[e] - 1) :
          sortedPairs[b] = At(e, j) /\ b = offsets[e] + j
    BY <1>5
  <2>2. PICK j \in 0..(counts[e] - 1) :
          sortedPairs[b] = At(e, j) /\ b = offsets[e] + j
    BY <2>1
  <2>3. PICK f \in MoeExperts : \E k \in 0..(counts[f] - 1) :
          sortedPairs[c] = At(f, k) /\ c = offsets[f] + k
    BY <1>5
  <2>4. PICK k \in 0..(counts[f] - 1) :
          sortedPairs[c] = At(f, k) /\ c = offsets[f] + k
    BY <2>3
  <2>5. e = f /\ j = k
    <3>1. At(e, j) = At(f, k)
      BY <1>7, <2>2, <2>4, Zenon
    <3> QED BY <3>1, PlaceUnique, SMTT(30)
  <2> QED BY <2>2, <2>4, <2>5
<1>8. ASSUME NEW p \in Pairs PROVE \E b \in Pairs : sortedPairs[b] = p
  <2> DEFINE e == selected[p]
  <2>1. e \in MoeExperts /\ p \in Of(Pairs, e)
    BY DEF Batch, Chosen, Of
  <2> HIDE DEF e
  <2>2. PICK j \in 0..(counts[e] - 1) : At(e, j) = p
    BY <2>1, PlacesOf
  <2>3. offsets[e] + j \in Pairs
    BY <1>3, <1>4, <2>1
  <2>4. sortedPairs[offsets[e] + j] = p
    BY <2>2 DEF At
  <2> QED BY <2>3, <2>4
<1> QED BY <1>1, <1>2, <1>6, <1>7, <1>8 DEF Partition

LEMMA PartitionHolds == ASSUME Batch PROVE Partition
BY TilesPartition, SortedPartition
-----------------------------------------------------------------------------
(* The sums.                                                               *)

\* Two computations that take the same steps give the same results.
LEMMA SameSteps ==
  ASSUME NEW n \in Nat, NEW c, NEW g, c[0] = g[0],
         \A i \in 1..n : c[i - 1] = g[i - 1] => c[i] = g[i]
  PROVE  c[n] = g[n]
<1> DEFINE P == {i \in Nat : i <= n => c[i] = g[i]}
<1>1. 0 \in P
  OBVIOUS
<1>2. ASSUME NEW i \in Nat, i \in P PROVE i + 1 \in P
  <2>1. SUFFICES ASSUME i + 1 <= n PROVE c[i + 1] = g[i + 1]
    OBVIOUS
  <2>2. i + 1 \in 1..n /\ (i + 1) - 1 = i /\ c[i] = g[i]
    BY <1>2, <2>1
  <2> QED BY <2>2
<1> HIDE DEF P
<1>3. n \in P
  BY <1>1, <1>2, Induct
<1> QED BY <1>3 DEF P

SlotsAre(sum, t, rows) ==
  sum = [n \in 0..TopK |->
           IF n = 0 THEN EmptyBag ELSE sum[n - 1] (+) SetToBag({rows[t * TopK + n - 1]})]

\* The slots of a token add up, each once, when their rows differ.
LEMMA SlotSumIs ==
  ASSUME NEW t \in Nat, NEW rows,
         \A s, r \in 0..(TopK - 1) : rows[t * TopK + s] = rows[t * TopK + r] => s = r
  PROVE  SlotSum(t, rows) = SetToBag({rows[t * TopK + s] : s \in 0..(TopK - 1)})
<1> DEFINE First(n) == {rows[t * TopK + s] : s \in 0..(n - 1)}
           g == [n \in 0..TopK |-> SetToBag(First(n))]
           c == CHOOSE sum : SlotsAre(sum, t, rows)
           next(n, v) == v (+) SetToBag({rows[t * TopK + n - 1]})
<1>1. TopK \in Nat /\ t * TopK \in Nat
  BY Constants
<1>2. First(0) = {}
  OBVIOUS
<1>3. ASSUME NEW n \in 1..TopK
      PROVE  next(n, SetToBag(First(n - 1))) = SetToBag(First(n))
  <2>1. n - 1 \in 0..(TopK - 1) /\ t * TopK + n - 1 = t * TopK + (n - 1)
    BY <1>1
  <2> DEFINE x == rows[t * TopK + (n - 1)]
  <2>2. \A s \in 0..((n - 1) - 1) : s \in 0..(TopK - 1) /\ s # n - 1
    BY <1>1
  <2>3. \A s \in 0..((n - 1) - 1) : rows[t * TopK + s] # x
    BY <2>1, <2>2
  <2>4. First(n - 1) \cap {x} = {}
    <3> HIDE DEF x
    <3> QED BY <2>3
  <2>5. 0..(n - 1) = (0..((n - 1) - 1)) \cup {n - 1}
    BY <1>1
  <2>6. First(n - 1) \cup {x} = First(n)
    BY <2>5
  <2> HIDE DEF First
  <2>7. SetToBag(First(n - 1)) (+) SetToBag({x}) = SetToBag(First(n))
    BY <2>4, <2>6, BagsJoin
  <2> QED BY <2>1, <2>7
<1> HIDE DEF First
<1>4. \A n \in 0..TopK : g[n] = SetToBag(First(n))
  OBVIOUS
<1>5. \A n \in 1..TopK : n \in 0..TopK /\ n - 1 \in 0..TopK /\ n # 0
  BY <1>1
<1>6. g = [n \in 0..TopK |-> g[n]]
  OBVIOUS
<1> HIDE DEF g
<1>7. \A n \in 1..TopK : g[n] = next(n, g[n - 1])
  <2> HIDE DEF next
  <2> QED BY <1>3, <1>4, <1>5
<1>8. g[0] = EmptyBag
  BY <1>1, <1>2, <1>4, NoBag
<1>9. SlotsAre(g, t, rows)
  <2>1. \A n \in 0..TopK : g[n] = IF n = 0 THEN EmptyBag ELSE next(n, g[n - 1])
    <3> HIDE DEF next
    <3> QED BY <1>1, <1>7, <1>8
  <2> QED BY <1>6, <2>1 DEF SlotsAre
<1>10. SlotsAre(c, t, rows)
  BY <1>9
<1>11. SlotSum(t, rows) = c[TopK]
  BY DEF SlotSum, SlotsAre
<1> HIDE DEF c
<1>12. \A n \in 0..TopK : c[n] = IF n = 0 THEN EmptyBag ELSE next(n, c[n - 1])
  <2> DEFINE rhs == [n \in 0..TopK |-> IF n = 0 THEN EmptyBag ELSE next(n, c[n - 1])]
  <2>1. \A n \in 0..TopK : rhs[n] = IF n = 0 THEN EmptyBag ELSE next(n, c[n - 1])
    <3> HIDE DEF next
    <3> QED OBVIOUS
  <2>2. c = rhs
    BY <1>10, Zenon DEF SlotsAre
  <2> HIDE DEF rhs
  <2> QED BY <2>1, <2>2
<1> HIDE DEF next
<1>13. c[TopK] = g[TopK]
  <2>1. c[0] = g[0]
    BY <1>1, <1>8, <1>12
  <2>2. \A n \in 1..TopK : c[n] = next(n, c[n - 1])
    BY <1>5, <1>12
  <2>3. \A n \in 1..TopK : c[n - 1] = g[n - 1] => c[n] = g[n]
    BY <1>7, <2>2
  <2> QED BY <1>1, <2>1, <2>3, SameSteps
<1>14. TopK \in 0..TopK
  BY <1>1
<1>15. SlotSum(t, rows) = SetToBag(First(TopK))
  BY <1>4, <1>11, <1>13, <1>14
<1> QED BY <1>15 DEF First

AddedAre(sum, bag, e, rows) ==
  sum = [n \in 0..(ntok * TopK) |->
           IF n = 0 THEN bag
           ELSE IF selected[n - 1] = e THEN sum[n - 1] (+) SetToBag({rows[n - 1]})
           ELSE sum[n - 1]]

\* The rows of an expert's pairs are added, each once, when they differ.
LEMMA AddedIs ==
  ASSUME TypeInv, moeStage # "idle", NEW e, NEW rows,
         \A p, q \in Of(Pairs, e) : rows[p] = rows[q] => p = q
  PROVE  Added(EmptyBag, e, rows) = SetToBag({rows[p] : p \in Of(Pairs, e)})
<1> DEFINE N == ntok * TopK
           First(n) == {rows[p] : p \in Of(0..(n - 1), e)}
           g == [n \in 0..N |-> SetToBag(First(n))]
           c == CHOOSE sum : AddedAre(sum, EmptyBag, e, rows)
           next(n, v) == IF selected[n - 1] = e THEN v (+) SetToBag({rows[n - 1]}) ELSE v
<1>1. N \in Nat /\ Pairs = 0..(N - 1)
  BY Fits DEF Pairs, PairsOf
<1> HIDE DEF N
<1>2. First(0) = {}
  BY DEF Of
<1>3. ASSUME NEW n \in 1..N
      PROVE  next(n, SetToBag(First(n - 1))) = SetToBag(First(n))
  <2>1. n - 1 \in Pairs
    BY <1>1
  <2>2. 0..(n - 1) = (0..((n - 1) - 1)) \cup {n - 1}
    BY <1>1
  <2>3. \A s \in 0..((n - 1) - 1) : s \in Pairs /\ s # n - 1
    BY <1>1
  <2>4. CASE selected[n - 1] = e
    <3> DEFINE x == rows[n - 1]
    <3>1. \A p \in Of(0..((n - 1) - 1), e) : rows[p] # x
      BY <2>1, <2>3, <2>4 DEF Of
    <3>2. First(n - 1) \cap {x} = {}
      <4> HIDE DEF x
      <4> QED BY <3>1
    <3>3. Of(0..(n - 1), e) = Of(0..((n - 1) - 1), e) \cup {n - 1}
      BY <2>2, <2>4 DEF Of
    <3>4. First(n - 1) \cup {x} = First(n)
      BY <3>3
    <3> HIDE DEF First
    <3>5. SetToBag(First(n - 1)) (+) SetToBag({x}) = SetToBag(First(n))
      BY <3>2, <3>4, BagsJoin
    <3> QED BY <2>4, <3>5
  <2>5. CASE selected[n - 1] # e
    <3>1. Of(0..(n - 1), e) = Of(0..((n - 1) - 1), e)
      BY <2>2, <2>5 DEF Of
    <3> QED BY <2>5, <3>1
  <2> QED BY <2>4, <2>5
<1> HIDE DEF First
<1>4. \A n \in 0..N : g[n] = SetToBag(First(n))
  OBVIOUS
<1>5. \A n \in 1..N : n \in 0..N /\ n - 1 \in 0..N /\ n # 0
  BY <1>1
<1>6. g = [n \in 0..N |-> g[n]]
  OBVIOUS
<1> HIDE DEF g
<1>7. \A n \in 1..N : g[n] = next(n, g[n - 1])
  <2> HIDE DEF next
  <2> QED BY <1>3, <1>4, <1>5
<1>8. g[0] = EmptyBag
  <2>1. 0 \in 0..N
    BY <1>1
  <2>2. g[0] = SetToBag(First(0))
    BY <1>4, <2>1
  <2> HIDE DEF next, c
  <2> QED BY <1>2, <2>2, NoBag, Zenon
<1>9. AddedAre(g, EmptyBag, e, rows)
  <2>1. \A n \in 0..N : g[n] = IF n = 0 THEN EmptyBag ELSE next(n, g[n - 1])
    <3> HIDE DEF next
    <3> QED BY <1>1, <1>7, <1>8
  <2> QED BY <1>6, <2>1 DEF AddedAre, N
<1>10. AddedAre(c, EmptyBag, e, rows)
  BY <1>9
<1>11. Added(EmptyBag, e, rows) = c[N]
  BY DEF Added, AddedAre, N
<1> HIDE DEF c
<1>12. \A n \in 0..N : c[n] = IF n = 0 THEN EmptyBag ELSE next(n, c[n - 1])
  <2> DEFINE rhs == [n \in 0..N |-> IF n = 0 THEN EmptyBag ELSE next(n, c[n - 1])]
  <2>1. \A n \in 0..N : rhs[n] = IF n = 0 THEN EmptyBag ELSE next(n, c[n - 1])
    <3> HIDE DEF next
    <3> QED OBVIOUS
  <2>2. c = rhs
    BY <1>10, Zenon DEF AddedAre, N
  <2> HIDE DEF rhs
  <2> QED BY <2>1, <2>2
<1> HIDE DEF next
<1>13. c[N] = g[N]
  <2>1. c[0] = g[0]
    BY <1>1, <1>8, <1>12
  <2>2. \A n \in 1..N : c[n] = next(n, c[n - 1])
    BY <1>5, <1>12
  <2>3. \A n \in 1..N : c[n - 1] = g[n - 1] => c[n] = g[n]
    BY <1>7, <2>2
  <2> QED BY <1>1, <2>1, <2>3, SameSteps
<1>14. N \in 0..N
  BY <1>1
<1>15. Added(EmptyBag, e, rows) = SetToBag(First(N))
  BY <1>4, <1>11, <1>13, <1>14
<1> QED BY <1>1, <1>15 DEF First

\* The CPU's sum of a token is that of the parts of its pairs.
LEMMA CpuParts ==
  ASSUME Chosen, NEW t \in 0..(ntok - 1)
  PROVE  CpuRouted(t) = PartsOf(PairsOfToken(t))
<1> DEFINE set == ToSet(ScanSelect(score[t]))
<1>1. {selected[p] : p \in PairsOfToken(t)} = set
  BY DEF Chosen
<1>2. \A p \in PairsOfToken(t) : PartOf(p) = [down |-> selected[p], of |-> CpuMid(selected[p], t)]
  BY DEF PairsOfToken, PartOf, MidOf
<1> HIDE DEF set
<1>3. {[down |-> e, of |-> CpuMid(e, t)] : e \in set} = {PartOf(p) : p \in PairsOfToken(t)}
  <2> DEFINE part(e) == [down |-> e, of |-> CpuMid(e, t)]
  <2>1. \A p \in PairsOfToken(t) : PartOf(p) = part(selected[p])
    BY <1>2
  <2> HIDE DEF part
  <2>2. {part(e) : e \in set} = {PartOf(p) : p \in PairsOfToken(t)}
    BY <1>1, <2>1
  <2> QED BY <2>2 DEF part
<1> QED BY <1>3 DEF CpuRouted, PartsOf, set

\* The slots of a row, computed as they should be, are the CPU's sum.
LEMMA RowIs ==
  ASSUME TypeInv, moeStage # "idle", Chosen, NEW t \in 0..(ntok - 1), NEW rows,
         \A p \in PairsOfToken(t) : rows[p] = PartOf(p)
  PROVE  SlotSum(t, rows) = CpuRouted(t)
<1>1. t \in Nat /\ ntok \in Nat
  BY Fits
<1>2. \A s \in 0..(TopK - 1) :
        t * TopK + s \in PairsOfToken(t) /\ SlotOf(t * TopK + s) = s
  BY <1>1, PairJoin DEF PairsOfToken, Pairs
<1>3. \A p \in PairsOfToken(t) : SlotOf(p) \in 0..(TopK - 1) /\ p = t * TopK + SlotOf(p)
  BY <1>1, PairSplit DEF PairsOfToken, Pairs
<1>4. ASSUME NEW s \in 0..(TopK - 1), NEW r \in 0..(TopK - 1),
             rows[t * TopK + s] = rows[t * TopK + r]
      PROVE  s = r
  <2> DEFINE p == t * TopK + s
             q == t * TopK + r
  <2>1. p \in PairsOfToken(t) /\ q \in PairsOfToken(t) /\ SlotOf(p) = s /\ SlotOf(q) = r
    BY <1>2
  <2>2. rows[p] = rows[q]
    BY <1>4
  <2> HIDE DEF p, q
  <2>3. PartOf(p) = PartOf(q)
    BY <2>1, <2>2
  <2>4. selected[p] = selected[q]
    BY <2>3 DEF PartOf
  <2>5. p = q
    BY <2>1, <2>4 DEF Chosen, PairsOfToken
  <2> QED BY <2>1, <2>5
<1>5. SlotSum(t, rows) = SetToBag({rows[t * TopK + s] : s \in 0..(TopK - 1)})
  BY <1>1, <1>4, SlotSumIs
<1>6. {rows[t * TopK + s] : s \in 0..(TopK - 1)} = {PartOf(p) : p \in PairsOfToken(t)}
  <2>1. \A s \in 0..(TopK - 1) : rows[t * TopK + s] = PartOf(t * TopK + s)
    BY <1>2
  <2> QED BY <1>2, <1>3, <2>1
<1> QED BY <1>5, <1>6, CpuParts DEF PartsOf
-----------------------------------------------------------------------------
(* The steps.  What a stage does not say anything about needs no proof.    *)

LEMMA Elsewhere ==
  /\ moeStage' # "count" => Counting'
  /\ moeStage' # "scatter" => Scattering'
  /\ moeStage' \notin {"gate_up", "down"} => Tiling'
  /\ moeStage' # "gate_up" => Activating'
  /\ moeStage' # "down" => Adding'
  /\ moeStage' # "rows" => Rows'
  /\ moeStage' \notin {"rows", "down", "summed"} => Exported'
  /\ moeStage' \notin {"summed", "added"} => RoutedAsOnCpu'
  /\ moeStage' # "added" => ImatrixExact'
<1>1. moeStage' # "count" => Counting'
  BY DEF Counting
<1>2. moeStage' # "scatter" => Scattering'
  BY DEF Scattering
<1>3. moeStage' \notin {"gate_up", "down"} => Tiling'
  BY DEF Tiling
<1>4. moeStage' # "gate_up" => Activating'
  BY DEF Activating
<1>5. moeStage' # "down" => Adding'
  BY DEF Adding
<1>6. moeStage' # "rows" => Rows'
  BY DEF Rows
<1>7. moeStage' \notin {"rows", "down", "summed"} => Exported'
  BY DEF Exported
<1>8. moeStage' \notin {"summed", "added"} => RoutedAsOnCpu'
  BY DEF RoutedAsOnCpu
<1>9. moeStage' # "added" => ImatrixExact'
  BY DEF ImatrixExact
<1> QED BY <1>1, <1>2, <1>3, <1>4, <1>5, <1>6, <1>7, <1>8, <1>9

\* The parts of the invariant that speak about the routing only.
LEMMA KeepRouting ==
  ASSUME UNCHANGED <<ntok, score, selected>>
  PROVE  /\ Pairs' = Pairs
         /\ Chosen => Chosen'
         /\ \A t : PairsOfToken(t)' = PairsOfToken(t)
         /\ \A set, e : Of(set, e)' = Of(set, e)
         /\ \A e : Below(e)' = Below(e)
         /\ \A p : MidOf(p)' = MidOf(p) /\ PartOf(p)' = PartOf(p)
         /\ \A t : CpuRouted(t)' = CpuRouted(t)
<1>1. Pairs' = Pairs
  BY DEF Pairs
<1>2. \A t : PairsOfToken(t)' = PairsOfToken(t)
  BY DEF PairsOfToken, Pairs
<1>3. \A set, e : Of(set, e)' = Of(set, e)
  BY DEF Of
<1>4. \A e : Below(e)' = Below(e)
  BY DEF Below, Pairs
<1>5. \A p : MidOf(p)' = MidOf(p) /\ PartOf(p)' = PartOf(p)
  BY DEF MidOf, PartOf
<1>6. \A t : CpuRouted(t)' = CpuRouted(t)
  BY DEF CpuRouted
<1>7. Chosen => Chosen'
  BY DEF Chosen, PairsOfToken, Pairs
<1> QED BY <1>1, <1>2, <1>3, <1>4, <1>5, <1>6, <1>7

LEMMA InitInv == MoeInit => MoeInv
<1> SUFFICES ASSUME MoeInit PROVE MoeInv
  OBVIOUS
<1>1. moeStage = "idle"
  BY DEF MoeInit
<1>2. TypeInv
  BY DEF MoeInit, TypeInv, Stages, NoPath, OldScratch, OldMids, OldParts, OldRows
<1>3. /\ Counting /\ Scattering /\ Tiling /\ Activating /\ Adding /\ Rows /\ Exported
      /\ RoutedAsOnCpu /\ ImatrixExact
  BY <1>1 DEF Counting, Scattering, Tiling, Activating, Adding, Rows, Exported,
              RoutedAsOnCpu, ImatrixExact
<1> QED BY <1>1, <1>2, <1>3 DEF MoeInv

LEMMA RouteStep == ASSUME MoeInv, Route PROVE MoeInv'
<1>1. moeStage = "idle" /\ moeStage' = "routed" /\ TypeInv
  BY DEF Route, MoeInv
<1>2. PICK n \in TokenCounts, router \in Routers :
        \E sc \in [0..(n - 1) -> ScoreVectors] :
          /\ ntok' = n
          /\ score' = sc
          /\ selected' = [p \in PairsOf(n) |-> Select(router, sc[TokenOf(p)])[SlotOf(p) + 1]]
  BY DEF Route
<1>3. PICK sc \in [0..(n - 1) -> ScoreVectors] :
          /\ ntok' = n
          /\ score' = sc
          /\ selected' = [p \in PairsOf(n) |-> Select(router, sc[TokenOf(p)])[SlotOf(p) + 1]]
  BY <1>2
<1>4. n \in Nat \ {0} /\ TopK \in Nat \ {0}
  BY Constants
<1> DEFINE list(t) == Select(router, sc[t])
<1>5. ASSUME NEW t \in 0..(n - 1)
      PROVE  /\ sc[t] \in ScoreVectors /\ Picked(sc[t], list(t), TopK)
             /\ ToSet(list(t)) = ToSet(ScanSelect(sc[t]))
  BY RoutersAgree
<1>6. ASSUME NEW t \in 0..(n - 1)
      PROVE  /\ \A s \in 0..(TopK - 1) : list(t)[s + 1] \in MoeExperts
             /\ \A s, r \in 0..(TopK - 1) : list(t)[s + 1] = list(t)[r + 1] => s = r
             /\ ToSet(ScanSelect(sc[t])) = {list(t)[s + 1] : s \in 0..(TopK - 1)}
  <2> DEFINE l == list(t)
  <2>1. l \in Seq(MoeExperts) /\ Len(l) = TopK /\ ToSet(l) = ToSet(ScanSelect(sc[t]))
        /\ \A i, j \in 1..TopK : l[i] = l[j] => i = j
    BY <1>5 DEF Picked
  <2> HIDE DEF l, list
  <2>2. \A s \in 0..(TopK - 1) : s + 1 \in 1..TopK /\ (s + 1) - 1 = s
    BY <1>4
  <2>3. \A i \in 1..TopK : i - 1 \in 0..(TopK - 1) /\ (i - 1) + 1 = i
    BY <1>4
  <2>4. ToSet(l) = {l[i] : i \in 1..TopK}
    BY <2>1 DEF ToSet
  <2>5. {l[i] : i \in 1..TopK} = {l[s + 1] : s \in 0..(TopK - 1)}
    BY <2>2, <2>3
  <2>6. \A s \in 0..(TopK - 1) : l[s + 1] \in MoeExperts
    BY <2>1, <2>2
  <2>7. \A s, r \in 0..(TopK - 1) : l[s + 1] = l[r + 1] => s = r
    BY <2>1, <2>2
  <2> QED BY <2>1, <2>4, <2>5, <2>6, <2>7 DEF l
<1> HIDE DEF list
<1>7. Pairs' = PairsOf(n)
  BY <1>3 DEF Pairs
<1>8. ASSUME NEW p \in PairsOf(n)
      PROVE  /\ TokenOf(p) \in 0..(n - 1) /\ SlotOf(p) \in 0..(TopK - 1)
             /\ p = TokenOf(p) * TopK + SlotOf(p)
             /\ selected'[p] = list(TokenOf(p))[SlotOf(p) + 1]
  BY <1>3, <1>4, PairSplit DEF list
<1>9. selected' \in [PairsOf(n) -> MoeExperts]
  <2>1. \A p \in PairsOf(n) : selected'[p] \in MoeExperts
    BY <1>6, <1>8
  <2>2. selected' = [p \in PairsOf(n) |-> selected'[p]]
    BY <1>3
  <2> QED BY <2>1, <2>2
<1>10. ASSUME NEW p \in PairsOf(n), NEW q \in PairsOf(n),
              TokenOf(p) = TokenOf(q), selected'[p] = selected'[q]
       PROVE  p = q
  <2>1. SlotOf(p) = SlotOf(q)
    BY <1>6, <1>8, <1>10
  <2> QED BY <1>8, <1>10, <2>1
<1>11. ASSUME NEW t \in 0..(n - 1)
       PROVE  {selected'[p] : p \in {q \in PairsOf(n) : TokenOf(q) = t}} = ToSet(ScanSelect(sc[t]))
  <2>1. ASSUME NEW s \in 0..(TopK - 1)
        PROVE  LET p == t * TopK + s
               IN p \in PairsOf(n) /\ TokenOf(p) = t /\ selected'[p] = list(t)[s + 1]
    <3>1. t * TopK + s \in PairsOf(n) /\ TokenOf(t * TopK + s) = t /\ SlotOf(t * TopK + s) = s
      BY <1>4, PairJoin
    <3> QED BY <1>8, <3>1
  <2>2. \A p \in PairsOf(n) : TokenOf(p) = t =>
          SlotOf(p) \in 0..(TopK - 1) /\ selected'[p] = list(t)[SlotOf(p) + 1]
    BY <1>8
  <2>3. {selected'[p] : p \in {q \in PairsOf(n) : TokenOf(q) = t}}
          = {list(t)[s + 1] : s \in 0..(TopK - 1)}
    <3> DEFINE own == {q \in PairsOf(n) : TokenOf(q) = t}
               f(p) == selected'[p]
               g(s) == list(t)[s + 1]
    <3>1. \A s \in 0..(TopK - 1) : t * TopK + s \in own /\ f(t * TopK + s) = g(s)
      BY <2>1
    <3>2. \A p \in own : SlotOf(p) \in 0..(TopK - 1) /\ f(p) = g(SlotOf(p))
      BY <2>2
    <3> HIDE DEF own, f, g
    <3>3. {f(p) : p \in own} = {g(s) : s \in 0..(TopK - 1)}
      BY <3>1, <3>2
    <3> QED BY <3>3 DEF own, f, g
  <2> QED BY <1>6, <2>3
<1>12. Chosen'
  <2>1. \A t \in 0..(n - 1) : {selected'[p] : p \in PairsOfToken(t)'} = ToSet(ScanSelect(score'[t]))
    BY <1>3, <1>7, <1>11 DEF PairsOfToken
  <2>2. score' \in [0..(ntok' - 1) -> ScoreVectors] /\ ntok' = n
    BY <1>3
  <2> QED BY <1>7, <1>9, <1>10, <2>1, <2>2 DEF Chosen
<1>13. TypeInv'
  BY <1>1, <1>3, <1>4 DEF Route, TypeInv, Stages, sortVars
<1> QED BY <1>1, <1>12, <1>13, Elsewhere DEF MoeInv
\* A thread moves its pair from those to be done to those of its expert.
LEMMA OneMore ==
  ASSUME TypeInv, moeStage # "idle", Chosen, NEW todo, todo \subseteq Pairs, NEW p \in todo
  PROVE  LET before(e) == Of(Pairs \ todo, e)
             after(e) == Of(Pairs \ (todo \ {p}), e)
         IN /\ selected[p] \in MoeExperts
            /\ p \notin before(selected[p]) /\ after(selected[p]) = before(selected[p]) \cup {p}
            /\ Cardinality(after(selected[p])) = Cardinality(before(selected[p])) + 1
            /\ Cardinality(before(selected[p])) < Cardinality(Of(Pairs, selected[p]))
            /\ \A e : e # selected[p] => after(e) = before(e)
<1> DEFINE s == selected[p]
           before(e) == Of(Pairs \ todo, e)
           after(e) == Of(Pairs \ (todo \ {p}), e)
<1>1. s \in MoeExperts /\ p \in Pairs
  BY DEF Chosen
<1>2. p \notin before(s)
  BY DEF Of
<1>3. after(s) = before(s) \cup {p}
  BY <1>1 DEF Of
<1>4. IsFiniteSet(before(s)) /\ Cardinality(before(s)) \in Nat
  BY Cards
<1>5. \A e : e # s => after(e) = before(e)
  BY DEF Of
<1>6. Cardinality(after(s)) <= Cardinality(Of(Pairs, s)) /\ Cardinality(Of(Pairs, s)) \in Nat
  BY Cards
<1> HIDE DEF before, after, s
<1>7. Cardinality(after(s)) = Cardinality(before(s)) + 1
  BY <1>2, <1>3, <1>4, FS_AddElement
<1>8. Cardinality(before(s)) < Cardinality(Of(Pairs, s))
  BY <1>4, <1>6, <1>7
<1> QED BY <1>1, <1>2, <1>3, <1>5, <1>7, <1>8 DEF before, after, s

LEMMA ChooseSortedStep == ASSUME MoeInv, ChooseSorted PROVE MoeInv'
<1>1. moeStage = "routed" /\ moeStage' = "count" /\ TypeInv /\ Chosen
  BY DEF ChooseSorted, MoeInv
<1>2. UNCHANGED <<ntok, score, selected>>
  BY DEF ChooseSorted
<1>3. TypeInv'
  <2>1. path' \in [kind : {"none", "tiles", "sorted", "rows", "single"}, direct : BOOLEAN]
    BY DEF ChooseSorted
  <2>2. counts' \in [MoeExperts -> Int]
    BY DEF ChooseSorted
  <2> QED BY <1>1, <2>1, <2>2 DEF ChooseSorted, TypeInv, Stages, sortVars
<1>4. Chosen' /\ Pairs' = Pairs /\ \A set, e : Of(set, e)' = Of(set, e)
  BY <1>1, <1>2, KeepRouting
<1>5. Counting'
  <2>1. moeTodo' = Pairs /\ counts' = [e \in MoeExperts |-> 0]
    BY DEF ChooseSorted
  <2>2. \A e : Of(Pairs' \ moeTodo', e) = {}
    BY <1>4, <2>1 DEF Of
  <2>3. \A e \in MoeExperts : counts'[e] = 0
    BY <2>1
  <2>4. \A e : Of(Pairs \ moeTodo, e)' = {}
    BY <1>4, <2>1 DEF Of
  <2>5. Counted(Pairs \ moeTodo)'
    BY <2>3, <2>4, FS_EmptySet DEF Counted
  <2> QED BY <1>4, <2>1, <2>5 DEF Counting
<1> QED BY <1>1, <1>3, <1>4, <1>5, Elsewhere DEF MoeInv

LEMMA ChooseRowsStep == ASSUME MoeInv, ChooseRows PROVE MoeInv'
<1>1. moeStage = "routed" /\ moeStage' = "rows" /\ TypeInv /\ Chosen
  BY DEF ChooseRows, MoeInv
<1>2. UNCHANGED <<ntok, score, selected>> /\ moeTodo' = 0..(ntok - 1)
  BY DEF ChooseRows
<1>3. TypeInv'
  <2>1. path' \in [kind : {"none", "tiles", "sorted", "rows", "single"}, direct : BOOLEAN]
    BY DEF ChooseRows
  <2> QED BY <1>1, <2>1 DEF ChooseRows, TypeInv, Stages, sortVars
<1>4. Chosen' /\ Pairs' = Pairs
  BY <1>1, <1>2, KeepRouting
<1>5. Rows'
  BY <1>2 DEF Rows
<1>6. Exported'
  <2>1. \A p \in Pairs : TokenOf(p) \in 0..(ntok - 1)
    BY Fits, <1>1, PairSplit DEF Pairs
  <2> QED BY <1>1, <1>2, <1>4, <2>1 DEF Exported
<1> QED BY <1>1, <1>3, <1>4, <1>5, <1>6, Elsewhere DEF MoeInv

LEMMA CountPairStep == ASSUME MoeInv, CountPair PROVE MoeInv'
<1>1. moeStage = "count" /\ moeStage' = "count" /\ TypeInv /\ Chosen
      /\ moeTodo \subseteq Pairs /\ Counted(Pairs \ moeTodo)
  BY DEF CountPair, MoeInv, Counting
<1>2. UNCHANGED <<ntok, score, selected>>
  BY DEF CountPair
<1>3. PICK p \in moeTodo :
        counts' = [counts EXCEPT ![selected[p]] = @ + 1] /\ moeTodo' = moeTodo \ {p}
  BY DEF CountPair
<1> DEFINE before(e) == Of(Pairs \ moeTodo, e)
           after(e) == Of(Pairs \ (moeTodo \ {p}), e)
           s == selected[p]
<1>4. /\ s \in MoeExperts /\ Cardinality(after(s)) = Cardinality(before(s)) + 1
      /\ \A e : e # s => after(e) = before(e)
  BY <1>1, OneMore
<1>5. counts \in [MoeExperts -> Int]
  BY <1>1 DEF TypeInv
<1>6. TypeInv'
  <2>1. counts' \in [MoeExperts -> Int]
    BY <1>3, <1>4, <1>5
  <2> QED BY <1>1, <2>1 DEF CountPair, TypeInv
<1>7. Chosen' /\ Pairs' = Pairs /\ \A set, e : Of(set, e)' = Of(set, e)
  BY <1>1, <1>2, KeepRouting
<1>8. \A e \in MoeExperts : counts[e] = Cardinality(before(e))
  BY <1>1 DEF Counted
<1> HIDE DEF before, after, s
<1>9. \A e \in MoeExperts : counts'[e] = IF e = s THEN counts[e] + 1 ELSE counts[e]
  BY <1>3, <1>5 DEF s
<1>10. \A e \in MoeExperts : counts'[e] = Cardinality(after(e))
  BY <1>4, <1>8, <1>9
<1>11. Counted(Pairs \ moeTodo)'
  <2>1. \A e : Of(Pairs \ moeTodo, e)' = after(e)
    BY <1>2, <1>3, <1>7 DEF Of, after
  <2> QED BY <1>10, <2>1 DEF Counted
<1>12. Counting'
  BY <1>1, <1>3, <1>7, <1>11 DEF Counting
<1> QED BY <1>1, <1>6, <1>7, <1>12, Elsewhere DEF MoeInv

LEMMA PrefixPairsStep == ASSUME MoeInv, PrefixPairs PROVE MoeInv'
<1>1. moeStage = "count" /\ moeStage' = "scatter" /\ TypeInv /\ Chosen
      /\ moeTodo = {} /\ Counted(Pairs \ moeTodo)
  BY DEF PrefixPairs, MoeInv, Counting
<1>2. UNCHANGED <<ntok, score, selected, counts, sortedPairs>> /\ moeTodo' = Pairs
      /\ offsets' = [e \in 0..NumExperts |-> CountBefore(e)]
      /\ cursors' = [e \in MoeExperts |-> CountBefore(e)]
  BY DEF PrefixPairs
<1>3. Pairs \ moeTodo = Pairs
  BY <1>1
<1>4. Counted(Pairs)
  BY <1>1, <1>3
<1>5. Chosen' /\ Pairs' = Pairs /\ (\A set, e : Of(set, e)' = Of(set, e))
      /\ \A e : Below(e)' = Below(e)
  BY <1>1, <1>2, KeepRouting
<1>6. \A e \in 0..NumExperts : CountBefore(e) = Cardinality(Below(e)) /\ CountBefore(e) \in Nat
  BY <1>1, <1>4, CountBeforeIs, Cards
<1>7. \A e \in MoeExperts : e \in 0..NumExperts
  BY Constants
<1>8. \A e \in 0..NumExperts : offsets'[e] = CountBefore(e)
  BY <1>2
<1>9. \A e \in MoeExperts : cursors'[e] = CountBefore(e)
  BY <1>2
<1>10. TypeInv'
  <2>1. cursors' \in [MoeExperts -> Int]
    BY <1>2, <1>6, <1>7
  <2> QED BY <1>1, <2>1 DEF PrefixPairs, TypeInv, Stages
<1>11. Counted(Pairs)'
  <2>1. \A e : Of(Pairs, e)' = Of(Pairs, e)
    BY <1>2, <1>5 DEF Of
  <2> QED BY <1>2, <1>4, <2>1 DEF Counted
<1>12. Ordered'
  BY <1>5, <1>6, <1>8 DEF Ordered
<1>13. Scattered(Pairs \ moeTodo)'
  <2>1. \A e : Of(Pairs \ moeTodo, e)' = {}
    BY <1>2, <1>5 DEF Of
  <2>2. ASSUME NEW e \in MoeExperts PROVE Filled(e, cursors[e], {})'
    <3>1. cursors'[e] = offsets'[e] /\ offsets'[e] \in Nat
      BY <1>6, <1>7, <1>8, <1>9
    <3>2. Cardinality({}) = 0 /\ offsets'[e] + 0 = offsets'[e]
      BY <3>1, FS_EmptySet
    <3>3. offsets'[e]..(cursors'[e] - 1) = {}
      BY <3>1
    <3> QED BY <3>1, <3>2, <3>3 DEF Filled
  <2>3. \A e \in MoeExperts : Filled(e, cursors[e], Of(Pairs \ moeTodo, e))'
    BY <2>1, <2>2
  <2> QED BY <2>3 DEF Scattered
<1>14. Scattering'
  BY <1>2, <1>5, <1>11, <1>12, <1>13 DEF Scattering
<1> QED BY <1>1, <1>5, <1>10, <1>14, Elsewhere DEF MoeInv
LEMMA ScatterPairStep == ASSUME MoeInv, ScatterPair PROVE MoeInv'
<1>1. moeStage = "scatter" /\ moeStage' = "scatter" /\ TypeInv /\ Chosen /\ moeTodo \subseteq Pairs
      /\ Counted(Pairs) /\ Ordered /\ Scattered(Pairs \ moeTodo)
  BY DEF ScatterPair, MoeInv, Scattering
<1>2. UNCHANGED <<ntok, score, selected, counts, offsets>>
  BY DEF ScatterPair
<1>3. PICK p \in moeTodo :
        /\ cursors' = [cursors EXCEPT ![selected[p]] = @ + 1]
        /\ sortedPairs' = [sortedPairs EXCEPT ![cursors[selected[p]]] = p]
        /\ moeTodo' = moeTodo \ {p}
  BY DEF ScatterPair
<1> DEFINE before(e) == Of(Pairs \ moeTodo, e)
           after(e) == Of(Pairs \ (moeTodo \ {p}), e)
           s == selected[p]
           at == cursors[s]
<1>4. /\ s \in MoeExperts /\ p \notin before(s) /\ after(s) = before(s) \cup {p}
      /\ Cardinality(after(s)) = Cardinality(before(s)) + 1
      /\ Cardinality(before(s)) < Cardinality(Of(Pairs, s))
      /\ \A e : e # s => after(e) = before(e)
  BY <1>1, OneMore
<1>5. \A e : Cardinality(before(e)) \in Nat /\ Cardinality(before(e)) <= Cardinality(Of(Pairs, e))
  BY <1>1, Cards
<1>6. /\ \A e \in MoeExperts :
           /\ counts[e] \in Nat /\ offsets[e] \in Nat /\ counts[e] = Cardinality(Of(Pairs, e))
           /\ offsets[e] + counts[e] <= ntok * TopK
      /\ \A e, f \in MoeExperts : e < f => offsets[e] + counts[e] <= offsets[f]
  BY <1>1, Segments
<1>7. \A e \in MoeExperts : Filled(e, cursors[e], before(e))
  BY <1>1 DEF Scattered
<1>8. cursors \in [MoeExperts -> Int] /\ DOMAIN sortedPairs = PairsOf(MaxTokens)
  BY <1>1 DEF TypeInv
<1> HIDE DEF before, after
<1>9. \A e \in MoeExperts : cursors[e] = offsets[e] + Cardinality(before(e))
  BY <1>7, Zenon DEF Filled
<1>10. at \in offsets[s]..(offsets[s] + counts[s] - 1) /\ at \in Nat
  BY <1>4, <1>5, <1>6, <1>9
<1>11. at \in Pairs
  <2>1. at < ntok * TopK /\ ntok * TopK \in Nat
    BY <1>1, <1>4, <1>6, <1>10, Fits
  <2> QED BY <1>10, <2>1 DEF Pairs, PairsOf
<1>12. at \in DOMAIN sortedPairs
  BY <1>1, <1>8, <1>11, Fits
<1> HIDE DEF at, s
<1>13. /\ sortedPairs'[at] = p
       /\ \A i \in DOMAIN sortedPairs : i # at => sortedPairs'[i] = sortedPairs[i]
       /\ DOMAIN sortedPairs' = DOMAIN sortedPairs
  BY <1>3, <1>12 DEF at, s
<1>14. cursors'[s] = at + 1 /\ \A e \in MoeExperts : e # s => cursors'[e] = cursors[e]
  BY <1>3, <1>4, <1>8 DEF at, s
<1>15. TypeInv'
  <2>1. cursors' \in [MoeExperts -> Int]
    BY <1>3, <1>4, <1>8 DEF s
  <2> QED BY <1>1, <1>13, <2>1 DEF ScatterPair, TypeInv
<1>16. Chosen' /\ Pairs' = Pairs /\ (\A set, e : Of(set, e)' = Of(set, e))
       /\ \A e : Below(e)' = Below(e)
  BY <1>1, <1>2, KeepRouting
<1>17. Counted(Pairs)'
  <2>1. \A e : Of(Pairs, e)' = Of(Pairs, e)
    BY <1>2, <1>16 DEF Of
  <2> QED BY <1>1, <1>2, <2>1 DEF Counted
<1>18. Ordered'
  BY <1>1, <1>2, <1>16 DEF Ordered
<1>19. ASSUME NEW e \in MoeExperts, NEW i \in offsets[e]..(cursors[e] - 1)
       PROVE  i # at /\ i \in DOMAIN sortedPairs
  <2>1. i \in offsets[e]..(offsets[e] + counts[e] - 1) /\ i \in Nat
    BY <1>5, <1>6, <1>9
  <2>2. i \in Pairs
    <3>1. i < ntok * TopK /\ ntok * TopK \in Nat
      BY <1>1, <1>6, <2>1, Fits
    <3> QED BY <2>1, <3>1 DEF Pairs, PairsOf
  <2>3. i \in DOMAIN sortedPairs
    BY <1>1, <1>8, <2>2, Fits
  <2>4. ASSUME i = at PROVE FALSE
    <3>1. CASE e = s
      <4>1. at <= cursors[s] - 1 /\ cursors[s] = at
        BY <1>8, <1>4, <1>10, <2>4, <3>1 DEF at
      <4> QED BY <1>10, <4>1
    <3>2. CASE e # s
      <4>1. e \in Nat /\ s \in Nat
        BY <1>4, Constants
      <4>2. e < s \/ s < e
        BY <3>2, <4>1
      <4>3. e < s => offsets[e] + counts[e] <= offsets[s]
        BY <1>4, <1>6
      <4>4. s < e => offsets[s] + counts[s] <= offsets[e]
        BY <1>4, <1>6
      <4>5. /\ counts[e] \in Nat /\ offsets[e] \in Nat /\ counts[s] \in Nat /\ offsets[s] \in Nat
        BY <1>4, <1>6
      <4> QED BY <1>10, <2>1, <2>4, <4>2, <4>3, <4>4, <4>5
    <3> QED BY <3>1, <3>2
  <2> QED BY <2>3, <2>4
<1>20. \A e \in MoeExperts : \A i \in offsets[e]..(cursors[e] - 1) :
         sortedPairs'[i] = sortedPairs[i]
  BY <1>13, <1>19
<1>21. ASSUME NEW e \in MoeExperts, e # s
       PROVE  Filled(e, cursors[e], Of(Pairs \ moeTodo, e))'
  <2>1. after(e) = before(e) /\ cursors'[e] = cursors[e] /\ offsets'[e] = offsets[e]
    BY <1>2, <1>4, <1>14, <1>21
  <2> DEFINE I == offsets[e]..(cursors[e] - 1)
  <2>2. /\ cursors[e] = offsets[e] + Cardinality(before(e))
        /\ {sortedPairs[i] : i \in I} = before(e)
        /\ \A i, j \in I : sortedPairs[i] = sortedPairs[j] => i = j
    BY <1>7, Zenon DEF Filled
  <2>3. \A i \in I : sortedPairs'[i] = sortedPairs[i]
    BY <1>20
  <2>4. offsets'[e]..(cursors'[e] - 1) = I
    BY <2>1
  <2> HIDE DEF I
  <2>5. /\ {sortedPairs'[i] : i \in I} = before(e)
        /\ \A i, j \in I : sortedPairs'[i] = sortedPairs'[j] => i = j
    BY <2>2, <2>3
  <2>6. /\ cursors'[e] = offsets'[e] + Cardinality(after(e))
        /\ {sortedPairs'[i] : i \in offsets'[e]..(cursors'[e] - 1)} = after(e)
        /\ \A i, j \in offsets'[e]..(cursors'[e] - 1) : sortedPairs'[i] = sortedPairs'[j] => i = j
    BY <2>1, <2>2, <2>4, <2>5
  <2>7. Of(Pairs \ moeTodo, e)' = after(e)
    BY <1>2, <1>3, <1>16 DEF Of, after
  <2> QED BY <2>6, <2>7, Zenon DEF Filled
<1>22. ASSUME NEW e \in MoeExperts, e = s
       PROVE  Filled(e, cursors[e], Of(Pairs \ moeTodo, e))'
  <2> DEFINE o == offsets[s]
             I == o..(at - 1)
             J == o..((at + 1) - 1)
  <2>1. /\ at = o + Cardinality(before(s)) /\ {sortedPairs[i] : i \in I} = before(s)
        /\ \A i, j \in I : sortedPairs[i] = sortedPairs[j] => i = j
    <3>1. Filled(s, at, before(s))
      BY <1>4, <1>7 DEF at
    <3> QED BY <3>1, Zenon DEF Filled
  <2>2. \A i \in I : sortedPairs'[i] = sortedPairs[i] /\ i # at
    BY <1>4, <1>19, <1>20 DEF at
  <2>3. o \in Nat /\ o <= at
    BY <1>4, <1>6, <1>10
  <2> HIDE DEF o
  <2>4. J = I \cup {at}
    BY <1>10, <2>3
  <2> HIDE DEF I, J
  <2>5. {sortedPairs'[i] : i \in J} = after(s)
    BY <1>4, <1>13, <2>1, <2>2, <2>4
  <2>6. \A i \in I : sortedPairs'[i] \in before(s)
    BY <2>1, <2>2
  <2>7. ASSUME NEW i \in J, NEW j \in J, sortedPairs'[i] = sortedPairs'[j] PROVE i = j
    <3>1. CASE i \in I /\ j \in I
      BY <2>1, <2>2, <2>7, <3>1
    <3>2. CASE i \in I /\ j = at
      BY <1>4, <1>13, <2>6, <2>7, <3>2
    <3>3. CASE i = at /\ j \in I
      BY <1>4, <1>13, <2>6, <2>7, <3>3
    <3> QED BY <2>4, <3>1, <3>2, <3>3
  <2>8. at + 1 = o + Cardinality(after(s))
    BY <1>4, <1>5, <2>1, <2>3
  <2>9. offsets'[e] = o /\ cursors'[e] = at + 1 /\ Of(Pairs \ moeTodo, e)' = after(s)
    <3>1. Of(Pairs \ moeTodo, e)' = after(e)
      BY <1>2, <1>3, <1>16 DEF Of, after
    <3> QED BY <1>2, <1>14, <1>22, <3>1 DEF o
  <2> QED BY <2>5, <2>7, <2>8, <2>9, Zenon DEF Filled, J
<1>23. Scattered(Pairs \ moeTodo)'
  BY <1>21, <1>22 DEF Scattered
<1>24. Scattering'
  BY <1>1, <1>3, <1>16, <1>17, <1>18, <1>23 DEF Scattering
<1> QED BY <1>1, <1>15, <1>16, <1>24, Elsewhere DEF MoeInv
LEMMA KeepSort ==
  ASSUME UNCHANGED <<ntok, score, selected, path, counts, offsets, sortedPairs>>
  PROVE  /\ Counted(Pairs) => Counted(Pairs)'
         /\ Ordered => Ordered'
         /\ Sorted => Sorted'
         /\ TileCapacity' = TileCapacity
         /\ \A list, n : Tiled(list, n) => Tiled(list, n)'
         /\ \A list : Blocks(list)' = Blocks(list)
<1>1. Pairs' = Pairs /\ (\A set, e : Of(set, e)' = Of(set, e)) /\ \A e : Below(e)' = Below(e)
  BY KeepRouting
<1>2. \A e : Of(Pairs, e)' = Of(Pairs, e)
  BY <1>1 DEF Of
<1>3. Counted(Pairs) => Counted(Pairs)'
  BY <1>2 DEF Counted
<1>4. Ordered => Ordered'
  BY <1>1 DEF Ordered
<1>5. Sorted => Sorted'
  BY <1>2 DEF Sorted, Filled
<1>6. TileCapacity' = TileCapacity
  BY <1>1 DEF TileCapacity
<1>7. \A e, start : StartsIn(e, start)' <=> StartsIn(e, start)
  BY DEF StartsIn, TilesOf
<1>8. ASSUME NEW list, NEW n, Tiled(list, n) PROVE Tiled(list, n)'
  BY <1>1, <1>7, <1>8 DEF Tiled
<1>9. \A list : Blocks(list)' = Blocks(list)
  BY <1>1, <1>6 DEF Blocks
<1> QED BY <1>3, <1>4, <1>5, <1>6, <1>8, <1>9

LEMMA KeepBlocks ==
  ASSUME UNCHANGED <<ntok, score, selected, path, counts, offsets, sortedPairs, tiles>>
  PROVE  /\ Blocks(tiles)' = Blocks(tiles)
         /\ \A b : BlockPairs(b)' = BlockPairs(b)
         /\ moeStage \in {"gate_up", "down"} /\ Tiling /\ moeTodo' \subseteq Blocks(tiles)
              => Tiling'
<1>1. Blocks(tiles)' = Blocks(tiles)
  <2>1. TileCapacity' = TileCapacity /\ Pairs' = Pairs
    BY KeepSort, KeepRouting
  <2> QED BY <2>1 DEF Blocks
<1>2. \A b : BlockPairs(b)' = BlockPairs(b)
  BY DEF BlockPairs
<1>3. ASSUME moeStage \in {"gate_up", "down"}, Tiling, moeTodo' \subseteq Blocks(tiles)
      PROVE  Tiling'
  <2>1. Counted(Pairs)' /\ Ordered' /\ Sorted'
    BY <1>3, KeepSort DEF Tiling
  <2>2. path.kind = "tiles" => Tiled(tiles, NumExperts)' /\ (Len(tiles) <= TileCapacity)'
    <3>1. ASSUME path.kind = "tiles"
          PROVE  Tiled(tiles, NumExperts)' /\ (Len(tiles) <= TileCapacity)'
      <4>1. Tiled(tiles, NumExperts) /\ Len(tiles) <= TileCapacity
        BY <1>3, <3>1 DEF Tiling
      <4>2. \A e : Below(e)' = Below(e)
        BY KeepRouting
      <4>3. TileCapacity' = TileCapacity
        BY KeepSort
      <4>4. \A e, start : StartsIn(e, start)' <=> StartsIn(e, start)
        BY DEF StartsIn, TilesOf
      <4>5. Tiled(tiles, NumExperts)'
        BY <4>1, <4>2, <4>4 DEF Tiled
      <4> QED BY <4>1, <4>3, <4>5
    <3> QED BY <3>1
  <2> QED BY <1>1, <1>3, <2>1, <2>2 DEF Tiling
<1> QED BY <1>1, <1>2, <1>3

LEMMA TilingIsBatch ==
  ASSUME MoeInv, moeStage \in {"gate_up", "down"}
  PROVE  Batch /\ moeTodo \subseteq Blocks(tiles)
BY DEF MoeInv, Batch, Tiling
LEMMA BuildTilesStep == ASSUME MoeInv, BuildTiles PROVE MoeInv'
<1>1. moeStage = "scatter" /\ moeStage' = "gate_up" /\ TypeInv /\ Chosen /\ moeTodo = {}
      /\ Counted(Pairs) /\ Ordered /\ Scattered(Pairs \ moeTodo)
  BY DEF BuildTiles, MoeInv, Scattering
<1>2. /\ UNCHANGED <<ntok, score, selected, path, counts, offsets, sortedPairs>>
      /\ tiles' = IF path.kind = "tiles" THEN TileList ELSE tiles
      /\ moeTodo' = Blocks(tiles')
  BY DEF BuildTiles
<1>3. TypeInv'
  BY <1>1 DEF BuildTiles, TypeInv, Stages
<1>4. Chosen' /\ Pairs' = Pairs
  BY <1>1, <1>2, KeepRouting
<1>5. Counted(Pairs)' /\ Ordered' /\ TileCapacity' = TileCapacity
  BY <1>1, <1>2, KeepSort
<1>6. Sorted
  <2>1. ASSUME NEW e \in MoeExperts PROVE Filled(e, offsets[e] + counts[e], Of(Pairs, e))
    <3>1. Pairs \ moeTodo = Pairs
      BY <1>1
    <3>2. Filled(e, cursors[e], Of(Pairs, e))
      BY <1>1, <3>1 DEF Scattered
    <3>3. cursors[e] = offsets[e] + counts[e]
      BY <1>1, <3>2 DEF Filled, Counted
    <3> QED BY <3>2, <3>3
  <2> QED BY <2>1 DEF Sorted
<1>7. Sorted'
  BY <1>2, <1>6, KeepSort
<1>8. Blocks(tiles)' = moeTodo'
  BY <1>2, <1>4, <1>5 DEF Blocks
<1>9. ASSUME path.kind = "tiles" PROVE Tiled(tiles, NumExperts)' /\ (Len(tiles) <= TileCapacity)'
  <2>1. Tiled(TileList, NumExperts) /\ Len(TileList) <= TileCapacity
    BY <1>1, TileListIs
  <2>2. tiles' = TileList
    BY <1>2, <1>9
  <2>3. Tiled(tiles', NumExperts) /\ Len(tiles') <= TileCapacity
    BY <2>1, <2>2
  <2>4. \A e : Below(e)' = Below(e)
    BY <1>2, KeepRouting
  <2>5. \A e, start : StartsIn(e, start)' <=> StartsIn(e, start)
    BY <1>2 DEF StartsIn, TilesOf
  <2>6. Tiled(tiles, NumExperts)'
    BY <2>3, <2>4, <2>5 DEF Tiled
  <2> QED BY <1>5, <2>3, <2>6
<1>10. Tiling'
  BY <1>2, <1>5, <1>7, <1>8, <1>9 DEF Tiling
<1>11. Activating'
  <2>1. DonePairs' = {}
    BY <1>8 DEF DonePairs
  <2> QED BY <2>1 DEF Activating
<1> QED BY <1>1, <1>3, <1>4, <1>10, <1>11, Elsewhere DEF MoeInv

\* A block that runs adds its pairs to those that are done.
LEMMA DoneGrows ==
  ASSUME MoeInv, moeStage \in {"gate_up", "down"},
         NEW b \in moeTodo, moeTodo' = moeTodo \ {b},
         UNCHANGED <<ntok, score, selected, path, counts, offsets, sortedPairs, tiles>>
  PROVE  /\ DonePairs' = DonePairs \cup BlockPairs(b)
         /\ DonePairs \cap BlockPairs(b) = {}
         /\ \A p \in BlockPairs(b) : p \in Pairs /\ BlockExpert(b, p) = selected[p]
         /\ DonePairs' \subseteq Pairs
         /\ Tiling'
<1>1. Batch /\ Partition /\ moeTodo \subseteq Blocks(tiles) /\ Tiling
  BY TilingIsBatch, PartitionHolds DEF MoeInv
<1>2. Blocks(tiles)' = Blocks(tiles) /\ \A c : BlockPairs(c)' = BlockPairs(c)
  BY KeepBlocks
<1>3. Tiling'
  BY <1>1, KeepBlocks
<1>4. DonePairs' = UNION {BlockPairs(c) : c \in Blocks(tiles) \ (moeTodo \ {b})}
  BY <1>2 DEF DonePairs
<1>5. DonePairs' = DonePairs \cup BlockPairs(b)
  BY <1>1, <1>4 DEF DonePairs
<1>6. DonePairs \cap BlockPairs(b) = {}
  BY <1>1 DEF DonePairs, Partition
<1>7. \A p \in BlockPairs(b) : p \in Pairs /\ BlockExpert(b, p) = selected[p]
  BY <1>1 DEF Partition
<1>8. DonePairs' \subseteq Pairs
  BY <1>1, <1>4 DEF Partition
<1> QED BY <1>3, <1>5, <1>6, <1>7, <1>8

\* When all blocks have run, all pairs are done.
LEMMA AllDone ==
  ASSUME MoeInv, moeStage \in {"gate_up", "down"}, moeTodo = {}
  PROVE  DonePairs = Pairs
<1>1. Partition
  BY TilingIsBatch, PartitionHolds
<1>2. DonePairs = UNION {BlockPairs(b) : b \in Blocks(tiles)}
  BY DEF DonePairs
<1> QED BY <1>1, <1>2 DEF Partition

LEMMA GateUpStep == ASSUME MoeInv, GateUp PROVE MoeInv'
<1>1. moeStage = "gate_up" /\ moeStage' = "gate_up" /\ TypeInv /\ Chosen /\ Activating
  BY DEF GateUp, MoeInv
<1>2. UNCHANGED <<ntok, score, selected, path, counts, offsets, sortedPairs, tiles>>
  BY DEF GateUp, sortVars
<1>3. PICK b \in moeTodo :
        /\ mid' = [p \in DOMAIN mid |->
                     IF p \in BlockPairs(b)
                     THEN [expert |-> BlockExpert(b, p), tok |-> TokenOf(p),
                           weight |-> selected[p]]
                     ELSE mid[p]]
        /\ moeTodo' = moeTodo \ {b}
  BY DEF GateUp
<1>4. TypeInv'
  <2>1. DOMAIN mid' = DOMAIN mid
    BY <1>3
  <2> QED BY <1>1, <2>1 DEF GateUp, TypeInv, sortVars
<1>5. Chosen' /\ Pairs' = Pairs /\ \A p : MidOf(p)' = MidOf(p)
  BY <1>1, <1>2, KeepRouting
<1>6. /\ DonePairs' = DonePairs \cup BlockPairs(b)
      /\ \A p \in BlockPairs(b) : p \in Pairs /\ BlockExpert(b, p) = selected[p]
      /\ DonePairs' \subseteq Pairs /\ Tiling'
  BY <1>1, <1>2, <1>3, DoneGrows
<1>7. Pairs \subseteq DOMAIN mid
  BY <1>1, Fits DEF TypeInv
<1>8. ASSUME NEW p \in DonePairs' PROVE mid'[p] = MidOf(p)'
  <2>1. p \in DOMAIN mid
    BY <1>6, <1>7
  <2>2. CASE p \in BlockPairs(b)
    <3>1. mid'[p] = [expert |-> selected[p], tok |-> TokenOf(p), weight |-> selected[p]]
      BY <1>3, <1>6, <2>1, <2>2
    <3>2. MidOf(p) = [expert |-> selected[p], tok |-> TokenOf(p), weight |-> selected[p]]
      BY DEF MidOf, CpuMid
    <3> QED BY <1>5, <3>1, <3>2
  <2>3. CASE p \notin BlockPairs(b)
    <3>1. mid'[p] = mid[p] /\ p \in DonePairs
      BY <1>3, <1>6, <2>1, <2>3
    <3> QED BY <1>1, <1>5, <3>1 DEF Activating
  <2> QED BY <2>2, <2>3
<1>9. Activating'
  BY <1>8 DEF Activating
<1> QED BY <1>1, <1>4, <1>5, <1>6, <1>9, Elsewhere DEF MoeInv

LEMMA ExportAndClearStep == ASSUME MoeInv, ExportAndClear PROVE MoeInv'
<1>1. moeStage = "gate_up" /\ moeStage' = "down" /\ TypeInv /\ Chosen /\ Activating /\ moeTodo = {}
      /\ Tiling
  BY DEF ExportAndClear, MoeInv
<1>2. UNCHANGED <<ntok, score, selected, path, counts, offsets, sortedPairs, tiles, mid,
                  collecting>>
  BY DEF ExportAndClear, sortVars
<1>3. /\ routedMid' = IF RoutedMidRows >= ntok
                      THEN [p \in DOMAIN routedMid |-> IF p \in Pairs THEN mid[p] ELSE routedMid[p]]
                      ELSE routedMid
      /\ out' = IF path.direct
                THEN [t \in DOMAIN out |-> IF t < ntok THEN EmptyBag ELSE out[t]]
                ELSE out
      /\ moeTodo' = Blocks(tiles)
  BY DEF ExportAndClear
<1>4. DOMAIN out' = DOMAIN out /\ DOMAIN routedMid' = DOMAIN routedMid
  BY <1>3
<1>5. TypeInv'
  BY <1>1, <1>4 DEF ExportAndClear, TypeInv, Stages, sortVars
<1>6. /\ Chosen' /\ Pairs' = Pairs /\ (\A p : MidOf(p)' = MidOf(p) /\ PartOf(p)' = PartOf(p))
      /\ \A t : PairsOfToken(t)' = PairsOfToken(t)
  BY <1>1, <1>2, KeepRouting
<1>7. \A p \in Pairs : mid[p] = MidOf(p)
  BY <1>1, AllDone DEF Activating
<1>8. Tiling'
  BY <1>1, <1>2, <1>3, KeepBlocks
<1>9. DonePairs' = {}
  <2>1. Blocks(tiles)' = Blocks(tiles)
    BY <1>2, KeepBlocks
  <2> QED BY <1>3, <2>1 DEF DonePairs
<1>10. Adding'
  <2>1. \A p \in Pairs' : mid'[p] = MidOf(p)'
    BY <1>2, <1>6, <1>7
  <2>2. ASSUME path.direct, NEW t \in 0..(ntok - 1)
        PROVE  out'[t] = PartsOf(PairsOfToken(t) \cap DonePairs)'
    <3>1. t \in DOMAIN out /\ t < ntok
      BY <1>1, Fits DEF TypeInv
    <3>2. out'[t] = EmptyBag
      BY <1>3, <2>2, <3>1
    <3>3. (PairsOfToken(t) \cap DonePairs)' = {}
      BY <1>9
    <3>4. PartsOf(PairsOfToken(t) \cap DonePairs)' = SetToBag({})
      BY <3>3 DEF PartsOf
    <3> QED BY <3>2, <3>4, NoBag
  <2> QED BY <1>2, <1>9, <2>1, <2>2 DEF Adding
<1>11. Exported'
  <2>1. ASSUME collecting, NEW p \in Pairs PROVE routedMid'[p] = MidOf(p)
    <3>1. RoutedMidRows >= ntok /\ p \in PairsOf(MaxTokens)
      BY <1>1, <2>1, Fits DEF RoutedMidRows
    <3>2. p \in DOMAIN routedMid
      BY <1>1, <3>1 DEF TypeInv
    <3>3. routedMid' = [q \in DOMAIN routedMid |-> IF q \in Pairs THEN mid[q] ELSE routedMid[q]]
      BY <1>3, <3>1
    <3>4. routedMid'[p] = mid[p]
      BY <2>1, <3>2, <3>3
    <3> QED BY <1>7, <3>4
  <2> QED BY <1>1, <1>2, <1>6, <2>1 DEF Exported
<1> QED BY <1>1, <1>5, <1>6, <1>8, <1>10, <1>11, Elsewhere DEF MoeInv
\* The parts of the pairs that are added are added up.
LEMMA PartsJoin ==
  ASSUME Chosen, NEW t \in 0..(ntok - 1), NEW S, NEW R,
         S \subseteq PairsOfToken(t), R \subseteq PairsOfToken(t), S \cap R = {}
  PROVE  PartsOf(S) (+) PartsOf(R) = PartsOf(S \cup R)
<1>1. \A p, q \in PairsOfToken(t) : PartOf(p) = PartOf(q) => p = q
  <2>1. ASSUME NEW p \in PairsOfToken(t), NEW q \in PairsOfToken(t), PartOf(p) = PartOf(q)
        PROVE  p = q
    <3>1. selected[p] = selected[q]
      BY <2>1 DEF PartOf
    <3>2. p \in Pairs /\ q \in Pairs /\ TokenOf(p) = TokenOf(q)
      BY DEF PairsOfToken
    <3> QED BY <3>1, <3>2 DEF Chosen
  <2> QED BY <2>1
<1> DEFINE A == {PartOf(p) : p \in S}
           B == {PartOf(p) : p \in R}
<1>2. A \cap B = {}
  BY <1>1
<1>3. A \cup B = {PartOf(p) : p \in S \cup R}
  OBVIOUS
<1> HIDE DEF A, B
<1>4. SetToBag(A) (+) SetToBag(B) = SetToBag(A \cup B)
  BY <1>2, BagsJoin
<1> QED BY <1>3, <1>4 DEF PartsOf, A, B

LEMMA DownStep == ASSUME MoeInv, Down PROVE MoeInv'
<1>1. moeStage = "down" /\ moeStage' = "down" /\ TypeInv /\ Chosen /\ Adding /\ Exported
  BY DEF Down, MoeInv
<1>2. UNCHANGED <<ntok, score, selected, path, counts, offsets, sortedPairs, tiles, mid,
                  routedMid, collecting>>
  BY DEF Down, sortVars
<1> DEFINE part(b, p) == [down |-> BlockExpert(b, p), of |-> mid[p]]
           own(b, t) == {p \in BlockPairs(b) : TokenOf(p) = t}
<1>3. PICK b \in moeTodo :
        /\ IF path.direct
           THEN /\ out' = [t \in DOMAIN out |->
                             IF own(b, t) = {} THEN out[t]
                             ELSE out[t] (+) SetToBag({part(b, p) : p \in own(b, t)})]
                /\ UNCHANGED down
           ELSE /\ down' = [p \in DOMAIN down |->
                              IF p \in BlockPairs(b) THEN part(b, p) ELSE down[p]]
                /\ UNCHANGED out
        /\ moeTodo' = moeTodo \ {b}
  BY DEF Down
<1>4. TypeInv'
  <2>1. DOMAIN out' = DOMAIN out /\ DOMAIN down' = DOMAIN down
    <3>1. CASE path.direct
      BY <1>3, <3>1
    <3>2. CASE ~path.direct
      BY <1>3, <3>2
    <3> QED BY <3>1, <3>2
  <2> QED BY <1>1, <2>1 DEF Down, TypeInv, sortVars
<1>5. /\ Chosen' /\ Pairs' = Pairs /\ (\A p : MidOf(p)' = MidOf(p) /\ PartOf(p)' = PartOf(p))
      /\ \A t : PairsOfToken(t)' = PairsOfToken(t)
  BY <1>1, <1>2, KeepRouting
<1>6. /\ DonePairs' = DonePairs \cup BlockPairs(b)
      /\ DonePairs \cap BlockPairs(b) = {}
      /\ \A p \in BlockPairs(b) : p \in Pairs /\ BlockExpert(b, p) = selected[p]
      /\ DonePairs' \subseteq Pairs /\ Tiling'
  BY <1>1, <1>2, <1>3, DoneGrows
<1>7. \A p \in BlockPairs(b) : part(b, p) = PartOf(p)
  BY <1>1, <1>6 DEF Adding, PartOf
<1> HIDE DEF part
<1>8. \A p \in Pairs' : mid'[p] = MidOf(p)'
  BY <1>1, <1>2, <1>5 DEF Adding
<1>9. ASSUME path.direct, NEW t \in 0..(ntok - 1)
      PROVE  out'[t] = PartsOf(PairsOfToken(t) \cap DonePairs)'
  <2> DEFINE S == PairsOfToken(t) \cap DonePairs
             R == own(b, t)
  <2>1. t \in DOMAIN out /\ out[t] = PartsOf(S)
    BY <1>1, <1>9, Fits DEF TypeInv, Adding
  <2>2. out'[t] = IF R = {} THEN out[t] ELSE out[t] (+) SetToBag({part(b, p) : p \in R})
    BY <1>3, <1>9, <2>1
  <2>3. {part(b, p) : p \in R} = {PartOf(p) : p \in R}
    BY <1>7
  <2>4. R \subseteq PairsOfToken(t) /\ S \subseteq PairsOfToken(t) /\ S \cap R = {}
    BY <1>6 DEF PairsOfToken
  <2>5. PairsOfToken(t) \cap DonePairs' = S \cup R
    BY <1>6 DEF PairsOfToken
  <2> HIDE DEF R, S
  <2>6. out'[t] = PartsOf(S \cup R)
    <3>1. CASE R = {}
      <4>1. S \cup R = S
        BY <3>1
      <4> QED BY <2>1, <2>2, <3>1, <4>1
    <3>2. CASE R # {}
      <4>1. out'[t] = PartsOf(S) (+) PartsOf(R)
        BY <2>1, <2>2, <2>3, <3>2 DEF PartsOf
      <4> QED BY <1>1, <2>4, <4>1, PartsJoin
    <3> QED BY <3>1, <3>2
  <2>7. PartsOf(PairsOfToken(t) \cap DonePairs)' = PartsOf(S \cup R)
    <3>1. (PairsOfToken(t) \cap DonePairs)' = S \cup R
      BY <1>5, <2>5
    <3>2. {PartOf(p)' : p \in (PairsOfToken(t) \cap DonePairs)'} = {PartOf(p) : p \in S \cup R}
      BY <1>5, <3>1
    <3> QED BY <3>2 DEF PartsOf
  <2> QED BY <2>6, <2>7
<1>10. ASSUME ~path.direct, NEW p \in DonePairs' PROVE down'[p] = PartOf(p)
  <2>1. p \in DOMAIN down
    BY <1>1, <1>6, Fits DEF TypeInv
  <2>2. down'[p] = IF p \in BlockPairs(b) THEN part(b, p) ELSE down[p]
    BY <1>3, <1>10, <2>1
  <2>3. p \notin BlockPairs(b) => down[p] = PartOf(p)
    BY <1>1, <1>6, <1>10 DEF Adding
  <2> QED BY <1>7, <2>2, <2>3
<1>11. Adding'
  BY <1>2, <1>5, <1>8, <1>9, <1>10 DEF Adding
<1>12. Exported'
  BY <1>1, <1>2, <1>5 DEF Exported
<1> QED BY <1>1, <1>4, <1>5, <1>6, <1>11, <1>12, Elsewhere DEF MoeInv

LEMMA SumPairsStep == ASSUME MoeInv, SumPairs PROVE MoeInv'
<1>1. /\ moeStage = "down" /\ moeStage' = "summed" /\ moeTodo = {}
      /\ TypeInv /\ Chosen /\ Adding /\ Exported
  BY DEF SumPairs, MoeInv
<1>2. /\ UNCHANGED <<ntok, score, selected, routedMid, collecting>>
      /\ out' = IF path.direct THEN out
                ELSE [t \in DOMAIN out |-> IF t < ntok THEN SlotSum(t, down) ELSE out[t]]
  BY DEF SumPairs
<1>3. TypeInv'
  <2>1. DOMAIN out' = DOMAIN out
    BY <1>2
  <2> QED BY <1>1, <2>1 DEF SumPairs, TypeInv, Stages, sortVars
<1>4. /\ Chosen' /\ Pairs' = Pairs /\ (\A p : MidOf(p)' = MidOf(p))
      /\ \A t : CpuRouted(t)' = CpuRouted(t)
  BY <1>1, <1>2, KeepRouting
<1>5. DonePairs = Pairs
  BY <1>1, AllDone
<1>6. ASSUME NEW t \in 0..(ntok - 1) PROVE out'[t] = CpuRouted(t)
  <2>1. PairsOfToken(t) \cap Pairs = PairsOfToken(t) /\ PairsOfToken(t) \subseteq Pairs
    BY DEF PairsOfToken
  <2>2. CASE path.direct
    <3>1. out[t] = PartsOf(PairsOfToken(t))
      BY <1>1, <1>5, <2>1, <2>2 DEF Adding
    <3> QED BY <1>1, <1>2, <2>2, <3>1, CpuParts
  <2>3. CASE ~path.direct
    <3>1. t \in DOMAIN out /\ t < ntok
      BY <1>1, Fits DEF TypeInv
    <3>2. out'[t] = SlotSum(t, down)
      BY <1>2, <2>3, <3>1
    <3>3. \A p \in PairsOfToken(t) : down[p] = PartOf(p)
      BY <1>1, <1>5, <2>1, <2>3 DEF Adding
    <3> QED BY <1>1, <3>2, <3>3, RowIs
  <2> QED BY <2>2, <2>3
<1>7. RoutedAsOnCpu'
  BY <1>2, <1>4, <1>6 DEF RoutedAsOnCpu
<1>8. Exported'
  BY <1>1, <1>2, <1>4 DEF Exported
<1> QED BY <1>1, <1>3, <1>4, <1>7, <1>8, Elsewhere DEF MoeInv
\* Whole tensors or copied slices: a row reads the weights of its expert.
LEMMA RowExpert ==
  ASSUME TypeInv, moeStage # "idle", NEW cached \in BOOLEAN, NEW p \in Pairs
  PROVE  ExpertOfRow(cached, p) = selected[p] /\ RowMid(cached, p) = MidOf(p)
<1>1. SlotOf(p) \in 0..(TopK - 1) /\ p = TokenOf(p) * TopK + SlotOf(p)
  BY Fits, PairSplit DEF Pairs
<1>2. ExpertOfRow(cached, p) = selected[p]
  BY <1>1 DEF ExpertOfRow
<1> QED BY <1>2 DEF RowMid, MidOf, CpuMid

LEMMA ComputeRowStep == ASSUME MoeInv, ComputeRow PROVE MoeInv'
<1>1. /\ moeStage = "rows" /\ moeStage' = "rows" /\ moeTodo # {}
      /\ TypeInv /\ Chosen /\ Rows /\ Exported
  BY DEF ComputeRow, MoeInv
<1>2. UNCHANGED <<ntok, score, selected, collecting, path>>
  BY DEF ComputeRow
<1> DEFINE t == Min(moeTodo)
           keep == path.kind = "rows" \/ (collecting /\ RoutedMidRows >= ntok)
           first == MidRow(t) * TopK
<1>3. PICK cached \in BOOLEAN :
        /\ out' = [out EXCEPT ![t] = RowSum(cached, t)]
        /\ routedMid' = [p \in DOMAIN routedMid |->
                           IF keep /\ p \in first..(first + TopK - 1)
                           THEN RowMid(cached, t * TopK + (p - first)) ELSE routedMid[p]]
        /\ moeTodo' = moeTodo \ {t}
  BY DEF ComputeRow
<1>4. TypeInv'
  <2>1. DOMAIN out' = DOMAIN out /\ DOMAIN routedMid' = DOMAIN routedMid
    BY <1>3
  <2> QED BY <1>1, <2>1 DEF ComputeRow, TypeInv, sortVars
<1>5. /\ Chosen' /\ Pairs' = Pairs /\ (\A p : MidOf(p)' = MidOf(p))
      /\ \A s : CpuRouted(s)' = CpuRouted(s)
  BY <1>1, <1>2, KeepRouting
<1>6. /\ moeTodo \subseteq 0..(ntok - 1)
      /\ \A s \in (0..(ntok - 1)) \ moeTodo : out[s] = CpuRouted(s)
  BY <1>1 DEF Rows
<1>7. t \in moeTodo
  <2>1. moeTodo \subseteq Nat
    BY <1>6
  <2> QED BY <1>1, <2>1, MinOf
<1>8. t \in 0..(ntok - 1) /\ t \in DOMAIN out
  BY <1>1, <1>6, <1>7, Fits DEF TypeInv
<1> HIDE DEF t
<1>9. RowSum(cached, t) = CpuRouted(t)
  <2> DEFINE rows == [p \in Pairs |-> [down |-> ExpertOfRow(cached, p), of |-> RowMid(cached, p)]]
  <2>1. \A p \in Pairs : rows[p] = PartOf(p)
    BY <1>1, RowExpert DEF PartOf
  <2>2. RowSum(cached, t) = SlotSum(t, rows)
    BY DEF RowSum
  <2> HIDE DEF rows
  <2>3. \A p \in PairsOfToken(t) : rows[p] = PartOf(p)
    BY <2>1 DEF PairsOfToken
  <2> QED BY <1>1, <1>8, <2>2, <2>3, RowIs
<1>10. Rows'
  <2>1. ASSUME NEW s \in (0..(ntok - 1)) \ moeTodo' PROVE out'[s] = CpuRouted(s)
    <3>1. CASE s = t
      BY <1>3, <1>8, <1>9, <3>1
    <3>2. CASE s # t
      <4>1. s \notin moeTodo /\ out'[s] = out[s]
        BY <1>3, <3>2
      <4> QED BY <1>6, <4>1
    <3> QED BY <3>1, <3>2
  <2>2. moeTodo' \subseteq 0..(ntok - 1)
    BY <1>3, <1>6
  <2> QED BY <1>2, <1>5, <2>1, <2>2 DEF Rows
<1>11. ASSUME collecting, NEW p \in Pairs, TokenOf(p) \notin moeTodo'
       PROVE  routedMid'[p] = MidOf(p)
  <2>1. /\ ntok \in Nat /\ MaxTokens \in Nat /\ ntok <= MaxTokens /\ TopK \in Nat \ {0}
        /\ p \in DOMAIN routedMid /\ p \in Nat
    BY <1>1, Fits, Constants DEF TypeInv
  <2>2. keep /\ MidRow(t) = t
    BY <1>11, <2>1 DEF RoutedMidRows, MidRow
  <2>3. /\ TokenOf(p) \in 0..(ntok - 1) /\ SlotOf(p) \in 0..(TopK - 1)
        /\ p = TokenOf(p) * TopK + SlotOf(p)
    BY <2>1, PairSplit DEF Pairs
  <2> HIDE DEF keep
  <2>4. routedMid'[p] = IF p \in (t * TopK)..(t * TopK + TopK - 1)
                        THEN RowMid(cached, t * TopK + (p - t * TopK)) ELSE routedMid[p]
    BY <1>3, <2>1, <2>2
  <2>5. t * TopK \in Nat /\ t \in Nat
    BY <1>8, <2>1
  <2>6. CASE p \in (t * TopK)..(t * TopK + TopK - 1)
    <3>1. t * TopK + (p - t * TopK) = p
      BY <2>1, <2>5
    <3> QED BY <1>1, <1>11, <2>4, <2>6, <3>1, RowExpert
  <2>7. CASE p \notin (t * TopK)..(t * TopK + TopK - 1)
    <3>1. TokenOf(p) # t
      BY <2>1, <2>3, <2>5, <2>7
    <3>2. TokenOf(p) \notin moeTodo
      BY <1>3, <1>11, <3>1
    <3> QED BY <1>1, <1>11, <2>4, <2>7, <3>2 DEF Exported
  <2> QED BY <2>6, <2>7
<1>12. Exported'
  BY <1>1, <1>2, <1>5, <1>11 DEF Exported
<1> QED BY <1>1, <1>4, <1>5, <1>10, <1>12, Elsewhere DEF MoeInv

LEMMA RowsDoneStep == ASSUME MoeInv, RowsDone PROVE MoeInv'
<1>1. /\ moeStage = "rows" /\ moeStage' = "summed" /\ moeTodo = {}
      /\ TypeInv /\ Chosen /\ Rows /\ Exported
  BY DEF RowsDone, MoeInv
<1>2. UNCHANGED <<ntok, score, selected, collecting, out, routedMid>>
  BY DEF RowsDone
<1>3. TypeInv'
  BY <1>1 DEF RowsDone, TypeInv, Stages, sortVars
<1>4. /\ Chosen' /\ Pairs' = Pairs /\ (\A p : MidOf(p)' = MidOf(p))
      /\ \A s : CpuRouted(s)' = CpuRouted(s)
  BY <1>1, <1>2, KeepRouting
<1>5. RoutedAsOnCpu'
  BY <1>1, <1>2, <1>4 DEF RoutedAsOnCpu, Rows
<1>6. Exported'
  BY <1>1, <1>2, <1>4 DEF Exported
<1> QED BY <1>1, <1>3, <1>4, <1>5, <1>6, Elsewhere DEF MoeInv

LEMMA CollectStep == ASSUME MoeInv, Collect PROVE MoeInv'
<1>1. /\ moeStage = "summed" /\ moeStage' = "added"
      /\ TypeInv /\ Chosen /\ RoutedAsOnCpu /\ Exported
  BY DEF Collect, MoeInv
<1>2. /\ UNCHANGED <<ntok, score, selected, collecting, out>>
      /\ stats' = IF ~collecting THEN stats
                  ELSE [e \in MoeExperts |->
                    [up |-> Added(stats[e].up, e, [p \in Pairs |-> TokenOf(p)]),
                     down |-> Added(stats[e].down, e, routedMid)]]
  BY DEF Collect
<1>3. TypeInv'
  BY <1>1 DEF Collect, TypeInv, Stages, sortVars
<1>4. Chosen' /\ \A s : CpuRouted(s)' = CpuRouted(s)
  BY <1>1, <1>2, KeepRouting
<1>5. RoutedAsOnCpu'
  BY <1>1, <1>2, <1>4 DEF RoutedAsOnCpu
<1>6. ASSUME collecting, NEW e \in MoeExperts
      PROVE  LET rows == {t \in 0..(ntok - 1) : e \in ToSet(ScanSelect(score[t]))}
             IN /\ stats'[e].up = SetToBag(rows)
                /\ stats'[e].down = SetToBag({CpuMid(e, t) : t \in rows})
  <2> DEFINE rows == {t \in 0..(ntok - 1) : e \in ToSet(ScanSelect(score[t]))}
             token == [p \in Pairs |-> TokenOf(p)]
  <2>1. stats[e].up = EmptyBag /\ stats[e].down = EmptyBag
    BY <1>1 DEF TypeInv, NoStats
  <2>2. /\ stats'[e].up = Added(EmptyBag, e, token)
        /\ stats'[e].down = Added(EmptyBag, e, routedMid)
    BY <1>2, <1>6, <2>1
  <2>3. \A p \in Of(Pairs, e) : p \in Pairs /\ selected[p] = e /\ token[p] = TokenOf(p)
    BY DEF Of
  <2> HIDE DEF token
  <2>4. \A p \in Of(Pairs, e) : routedMid[p] = CpuMid(e, TokenOf(p))
    BY <1>1, <1>6, <2>3 DEF Exported, MidOf
  <2>5. \A p, q \in Of(Pairs, e) : TokenOf(p) = TokenOf(q) => p = q
    <3>1. \A p, q \in Pairs : TokenOf(p) = TokenOf(q) /\ selected[p] = selected[q] => p = q
      BY <1>1 DEF Chosen
    <3> QED BY <2>3, <3>1
  <2>6. \A p, q \in Of(Pairs, e) : token[p] = token[q] => p = q
    BY <2>3, <2>5
  <2>7. \A p, q \in Of(Pairs, e) : routedMid[p] = routedMid[q] => p = q
    <3>1. \A p, q \in Of(Pairs, e) :
            CpuMid(e, TokenOf(p)) = CpuMid(e, TokenOf(q)) => TokenOf(p) = TokenOf(q)
      BY DEF CpuMid
    <3> QED BY <2>4, <2>5, <3>1
  <2>8. \A p \in Pairs : TokenOf(p) \in 0..(ntok - 1)
    BY <1>1, Fits, PairSplit DEF Pairs
  <2>9. {TokenOf(p) : p \in Of(Pairs, e)} = rows
    <3>1. ASSUME NEW t \in rows PROVE \E p \in Of(Pairs, e) : TokenOf(p) = t
      <4>1. t \in 0..(ntok - 1) /\ e \in {selected[p] : p \in PairsOfToken(t)}
        BY <1>1 DEF Chosen
      <4> QED BY <4>1 DEF PairsOfToken, Of
    <3>2. ASSUME NEW p \in Of(Pairs, e) PROVE TokenOf(p) \in rows
      <4>1. TokenOf(p) \in 0..(ntok - 1) /\ p \in PairsOfToken(TokenOf(p)) /\ selected[p] = e
        BY <2>3, <2>8 DEF PairsOfToken
      <4>2. e \in ToSet(ScanSelect(score[TokenOf(p)]))
        BY <1>1, <4>1 DEF Chosen
      <4> QED BY <4>1, <4>2
    <3> HIDE DEF rows
    <3> QED BY <3>1, <3>2
  <2> HIDE DEF rows
  <2>10. {token[p] : p \in Of(Pairs, e)} = rows
    BY <2>3, <2>9
  <2>11. {routedMid[p] : p \in Of(Pairs, e)} = {CpuMid(e, t) : t \in rows}
    BY <2>4, <2>9
  <2>12. stats'[e].up = SetToBag(rows)
    BY <1>1, <2>2, <2>6, <2>10, AddedIs
  <2>13. stats'[e].down = SetToBag({CpuMid(e, t) : t \in rows})
    BY <1>1, <2>2, <2>7, <2>11, AddedIs
  <2> QED BY <2>12, <2>13 DEF rows
<1>7. ImatrixExact'
  BY <1>2, <1>6 DEF ImatrixExact
<1> QED BY <1>1, <1>3, <1>4, <1>5, <1>7, Elsewhere DEF MoeInv

LEMMA NextLayerStep == ASSUME MoeInv, NextLayer PROVE MoeInv'
<1>1. moeStage' = "idle" /\ TypeInv
  BY DEF NextLayer, MoeInv
<1>2. TypeInv'
  BY <1>1 DEF NextLayer, TypeInv, Stages, NoPath, OldScratch, OldMids, OldParts, OldRows
<1> QED BY <1>1, <1>2, Elsewhere DEF MoeInv

LEMMA LayerFailsStep == ASSUME MoeInv, LayerFails PROVE MoeInv'
<1>1. moeStage \notin {"idle", "added"} /\ moeStage' = "failed" /\ TypeInv /\ Chosen
  BY DEF LayerFails, MoeInv
<1>2. UNCHANGED <<ntok, score, selected>>
  BY DEF LayerFails
<1>3. TypeInv'
  BY <1>1 DEF LayerFails, TypeInv, Stages, sortVars
<1>4. Chosen'
  BY <1>1, <1>2, KeepRouting
<1> QED BY <1>1, <1>3, <1>4, Elsewhere DEF MoeInv

LEMMA StutterStep == ASSUME MoeInv, UNCHANGED moeVars PROVE MoeInv'
<1> USE DEF moeVars
<1>1. UNCHANGED <<ntok, score, selected, path, counts, offsets, sortedPairs, tiles>>
  OBVIOUS
<1>2. TypeInv'
  BY DEF MoeInv, TypeInv
<1>3. /\ (moeStage' # "idle" => Chosen') /\ Pairs' = Pairs
      /\ (\A set, e : Of(set, e)' = Of(set, e))
      /\ (\A p : MidOf(p)' = MidOf(p) /\ PartOf(p)' = PartOf(p))
      /\ (\A t : CpuRouted(t)' = CpuRouted(t))
      /\ \A t : PairsOfToken(t)' = PairsOfToken(t)
  BY <1>1, KeepRouting DEF MoeInv
<1>4. Blocks(tiles)' = Blocks(tiles) /\ \A b : BlockPairs(b)' = BlockPairs(b)
  BY <1>1, KeepBlocks
<1>5. DonePairs' = DonePairs
  BY <1>4 DEF DonePairs
<1>6. \A e : Of(Pairs \ moeTodo, e)' = Of(Pairs \ moeTodo, e)
  BY <1>3 DEF Of
<1>7. Counting'
  BY <1>3, <1>6 DEF MoeInv, Counting, Counted
<1>8. Scattering'
  <2>1. ASSUME moeStage = "scatter" PROVE Counted(Pairs)' /\ Ordered' /\ Scattered(Pairs \ moeTodo)'
    <3>1. Counted(Pairs)' /\ Ordered'
      BY <1>1, <2>1, KeepSort DEF MoeInv, Scattering
    <3>2. Scattered(Pairs \ moeTodo)
      BY <2>1 DEF MoeInv, Scattering
    <3>3. Scattered(Pairs \ moeTodo)'
      <4>1. ASSUME NEW e \in MoeExperts, NEW set, Filled(e, cursors[e], set)
            PROVE  Filled(e, cursors[e], set)'
        BY <4>1 DEF Filled
      <4>2. ASSUME NEW e \in MoeExperts PROVE Filled(e, cursors[e], Of(Pairs \ moeTodo, e))'
        <5>1. PICK set : set = Of(Pairs \ moeTodo, e)
          OBVIOUS
        <5>2. Filled(e, cursors[e], set)'
          BY <3>2, <4>1, <5>1 DEF Scattered
        <5>3. set = Of(Pairs \ moeTodo, e)'
          BY <1>6, <5>1
        <5> QED BY <5>2, <5>3 DEF Filled
      <4> QED BY <4>2 DEF Scattered
    <3> QED BY <3>1, <3>3
  <2> QED BY <1>3, <2>1 DEF MoeInv, Scattering
<1>9. Tiling'
  <2>1. CASE moeStage \in {"gate_up", "down"}
    <3>1. Tiling /\ moeTodo' \subseteq Blocks(tiles)
      BY <2>1 DEF MoeInv, Tiling
    <3> QED BY <1>1, <2>1, <3>1, KeepBlocks
  <2>2. CASE moeStage \notin {"gate_up", "down"}
    BY <2>2, Elsewhere
  <2> QED BY <2>1, <2>2
<1>10. Activating'
  BY <1>3, <1>5 DEF MoeInv, Activating
<1>11. Adding'
  <2>1. \A t : PartsOf(PairsOfToken(t) \cap DonePairs)' = PartsOf(PairsOfToken(t) \cap DonePairs)
    BY <1>3, <1>5 DEF PartsOf
  <2> QED BY <1>3, <1>5, <2>1 DEF MoeInv, Adding
<1>12. Rows'
  BY <1>3 DEF MoeInv, Rows
<1>13. Exported'
  BY <1>3 DEF MoeInv, Exported
<1>14. RoutedAsOnCpu'
  BY <1>3 DEF MoeInv, RoutedAsOnCpu
<1>15. ImatrixExact'
  BY DEF MoeInv, ImatrixExact
<1> QED BY <1>2, <1>3, <1>7, <1>8, <1>9, <1>10, <1>11, <1>12, <1>13, <1>14, <1>15 DEF MoeInv

-----------------------------------------------------------------------------
(* The theorems.                                                           *)

LEMMA NextInv == MoeInv /\ [MoeNext]_moeVars => MoeInv'
BY RouteStep, ChooseSortedStep, ChooseRowsStep, CountPairStep, PrefixPairsStep, ScatterPairStep,
   BuildTilesStep, GateUpStep, ExportAndClearStep, DownStep, SumPairsStep, ComputeRowStep,
   RowsDoneStep, CollectStep, NextLayerStep, LayerFailsStep, StutterStep DEF MoeNext

LEMMA InvariantHolds == MoeSpec => []MoeInv
BY InitInv, NextInv, PTL DEF MoeSpec

\* On every path, in every order of the threads and with any old contents of
\* the buffers, each token's routed output (p->routed_out) is the sum that
\* layer_moe_ffn computes on the CPU: its own experts, each once, each with
\* its own weight.
THEOREM RoutedMatchesCpu == MoeSpec => []RoutedAsOnCpu
<1>1. MoeInv => RoutedAsOnCpu
  BY DEF MoeInv
<1> QED BY <1>1, InvariantHolds, PTL

\* imatrix_collect_layer_batch adds to each expert's sums exactly the rows
\* that were routed to it and their activations in it, whichever kernels
\* computed the layer and whatever they left in the shared buffers.
THEOREM ImatrixIsExact == MoeSpec => []ImatrixExact
<1>1. MoeInv => ImatrixExact
  BY DEF MoeInv
<1> QED BY <1>1, InvariantHolds, PTL

-----------------------------------------------------------------------------
(* The sampler: a row of logits, weights, masses.                          *)

\* A request, and the row of logits it is answered from.
Given ==
  /\ with \in [random : BOOLEAN, k : TopKs, p : TopPs, m : MinPs]
  /\ logits \in [Ids -> Logits \cup {Nan, MinusInf, PlusInf}]

Candidates == {i \in Ids : Finite(i)}

LEMMA SamplerConstants ==
  /\ Vocab \in Nat \ {0} /\ Ids = 0..(Vocab - 1) /\ Ids \subseteq Nat /\ 0 \in Ids
  /\ Scale \in Nat \ {0} /\ Draws \in Nat \ {0}
  /\ Falloff \in Seq(Nat) /\ Len(Falloff) \in Nat \ {0} /\ Falloff[1] \in Nat \ {0}
  /\ \A d \in 1..Len(Falloff) : Falloff[d] \in Nat
  /\ IsFiniteSet(Ids) /\ Cardinality(Ids) = Vocab
<1>1. Vocab \in Nat \ {0} /\ Scale \in Nat \ {0} /\ Draws \in Nat \ {0}
  BY SamplingAssumption
<1>2. Falloff \in Seq(Nat) /\ Falloff # <<>> /\ Falloff[1] > 0
  BY SamplingAssumption
<1>3. Len(Falloff) \in Nat \ {0} /\ \A d \in 1..Len(Falloff) : Falloff[d] \in Nat
  BY <1>2
<1>4. IsFiniteSet(0..(Vocab - 1)) /\ Cardinality(0..(Vocab - 1)) = Vocab
  <2>1. 0 \in Int /\ Vocab - 1 \in Int /\ ~(0 > Vocab - 1) /\ Vocab - 1 - 0 + 1 = Vocab
    BY <1>1
  <2> QED BY <2>1, FS_Interval
<1> QED BY <1>1, <1>2, <1>3, <1>4 DEF Ids

LEMMA GivenRow ==
  ASSUME Given
  PROVE  /\ \A i \in Ids : logits[i] \in Int
         /\ \A i \in Ids : Finite(i) <=> logits[i] \in Nat
         /\ \A i \in Candidates : i \in Ids /\ i \in Nat /\ logits[i] \in Nat
         /\ with.k \in Int /\ with.random \in BOOLEAN
         /\ TopP \in 1..Scale /\ MinP \in 0..Scale
         /\ IsFiniteSet(Candidates) /\ Candidates \subseteq Ids
<1>1. Logits \subseteq Nat
  BY SamplingAssumption
<1>2. \A i \in Ids : logits[i] \in Nat \/ logits[i] \in {-1, -2, -3}
  BY <1>1 DEF Given, Nan, MinusInf, PlusInf
<1>3. \A i \in Ids : Finite(i) <=> logits[i] \in Nat
  BY <1>2 DEF Finite, Nan, MinusInf, PlusInf
<1>4. with.p \in Int /\ with.m \in Int /\ with.m <= Scale /\ with.k \in Int
  BY SamplingAssumption DEF Given
<1>5. TopP \in 1..Scale /\ MinP \in 0..Scale
  BY <1>4, SamplerConstants DEF TopP, MinP
<1>6. IsFiniteSet(Candidates) /\ Candidates \subseteq Ids
  BY SamplerConstants, FS_Subset DEF Candidates
<1>7. with.random \in BOOLEAN
  BY DEF Given
<1>8. \A i \in Ids : logits[i] \in Int
  BY <1>2
<1>9. \A i \in Candidates : i \in Ids /\ i \in Nat /\ logits[i] \in Nat
  <2>1. \A i \in Candidates : i \in Ids /\ Finite(i)
    BY DEF Candidates
  <2>2. Ids \subseteq Nat
    BY SamplerConstants
  <2> QED BY <1>3, <2>1, <2>2
<1>10. with.k \in Int
  BY <1>4
<1> QED BY <1>3, <1>5, <1>6, <1>7, <1>8, <1>9, <1>10

\* Among finitely many candidates there is a first largest one.
LEMMA LargestLogit ==
  ASSUME Given, ~NoneFinite
  PROVE  /\ MaxLogit \in Nat
         /\ \E i \in Candidates : logits[i] = MaxLogit
         /\ \A i \in Candidates : logits[i] <= MaxLogit
<1> DEFINE P == {n \in Nat : n <= Vocab =>
                   \/ \A i \in Candidates : ~(i < n)
                   \/ \E m \in Candidates : m < n /\ \A i \in Candidates :
                        i < n => logits[i] <= logits[m]}
<1>1. 0 \in P
  BY GivenRow
<1>2. ASSUME NEW n \in Nat, n \in P PROVE n + 1 \in P
  <2>1. \A i \in Candidates : i \in Nat /\ logits[i] \in Nat
    BY GivenRow
  <2>2. \A i \in Candidates : i < n + 1 <=> i < n \/ i = n
    BY <2>1
  <2>3. CASE n \notin Candidates
    <3>1. \A i \in Candidates : i < n + 1 <=> i < n
      BY <2>2, <2>3
    <3>2. n + 1 <= Vocab => n <= Vocab
      BY SamplerConstants
    <3>3. CASE \A i \in Candidates : ~(i < n)
      BY <3>1, <3>3
    <3>4. CASE n <= Vocab /\ ~\A i \in Candidates : ~(i < n)
      <4>1. PICK m \in Candidates : m < n /\ \A i \in Candidates :
                   i < n => logits[i] <= logits[m]
        BY <1>2, <3>4
      <4>2. m < n + 1 /\ \A i \in Candidates : i < n + 1 => logits[i] <= logits[m]
        BY <3>1, <4>1
      <4> QED BY <4>2
    <3> QED BY <3>2, <3>3, <3>4
  <2>4. CASE n \in Candidates /\ \A i \in Candidates : ~(i < n)
    <3>1. \A i \in Candidates : i < n + 1 => i = n
      BY <2>2, <2>4
    <3>2. n < n + 1 /\ logits[n] <= logits[n]
      BY <2>1, <2>4
    <3> QED BY <2>4, <3>1, <3>2
  <2>5. CASE n \in Candidates /\ \E i \in Candidates : i < n
    <3>1. SUFFICES ASSUME n + 1 <= Vocab
                   PROVE  \E m \in Candidates : m < n + 1 /\ \A i \in Candidates :
                            i < n + 1 => logits[i] <= logits[m]
      OBVIOUS
    <3>2. n <= Vocab
      BY <3>1, SamplerConstants
    <3>3. PICK m \in Candidates : m < n /\ \A i \in Candidates :
                 i < n => logits[i] <= logits[m]
      BY <1>2, <2>5, <3>2
    <3>4. CASE logits[n] <= logits[m]
      BY <2>1, <2>2, <3>3, <3>4
    <3>5. CASE ~(logits[n] <= logits[m])
      <4>1. \A i \in Candidates : i < n + 1 => logits[i] <= logits[n]
        <5>1. SUFFICES ASSUME NEW i \in Candidates, i < n + 1
                       PROVE  logits[i] <= logits[n]
          OBVIOUS
        <5>2. /\ logits[i] \in Nat /\ logits[n] \in Nat /\ logits[m] \in Nat
              /\ ~(logits[n] <= logits[m])
          BY <2>1, <2>5, <3>5
        <5>3. i = n \/ logits[i] <= logits[m]
          BY <2>2, <3>3, <5>1
        <5> QED BY <5>2, <5>3
      <4>2. n < n + 1
        OBVIOUS
      <4> QED BY <2>5, <4>1, <4>2
    <3> QED BY <3>4, <3>5
  <2> QED BY <2>3, <2>4, <2>5
<1> HIDE DEF P
<1>3. Vocab \in P
  BY <1>1, <1>2, Induct, SamplerConstants
<1>4. \A i \in Candidates : i < Vocab
  BY SamplerConstants DEF Candidates
<1>5. \E i \in Candidates : TRUE
  BY DEF NoneFinite, Candidates
<1>6. Vocab <= Vocab
  BY SamplerConstants
<1>7. PICK m \in Candidates : \A i \in Candidates : logits[i] <= logits[m]
  BY <1>3, <1>4, <1>5, <1>6 DEF P
<1> DEFINE vs == {logits[i] : i \in {j \in Ids : Finite(j)}}
<1>8. logits[m] \in vs /\ \A j \in Ids : Finite(j) => logits[j] <= logits[m]
  BY <1>7 DEF Candidates
<1>9. MaxLogit \in vs /\ \A j \in Ids : Finite(j) => logits[j] <= MaxLogit
  BY <1>8 DEF MaxLogit
<1> QED BY <1>9, GivenRow DEF Candidates

LEMMA WeightIs ==
  ASSUME Given, ~NoneFinite
  PROVE  /\ \A i \in Candidates : Weight(i) \in Nat
         /\ \A i \in Candidates : logits[i] = MaxLogit => Weight(i) = Falloff[1]
<1>1. ASSUME NEW i \in Candidates
      PROVE  Weight(i) \in Nat /\ (logits[i] = MaxLogit => Weight(i) = Falloff[1])
  <2>1. logits[i] \in Nat /\ MaxLogit \in Nat /\ logits[i] <= MaxLogit
    BY GivenRow, LargestLogit
  <2> DEFINE d == MaxLogit - logits[i]
  <2>2. d \in Nat /\ (logits[i] = MaxLogit => d = 0)
    BY <2>1
  <2>3. Weight(i) = IF d < Len(Falloff) THEN Falloff[d + 1] ELSE 0
    BY DEF Weight
  <2> HIDE DEF d
  <2>4. d < Len(Falloff) => d + 1 \in 1..Len(Falloff)
    BY <2>2, SamplerConstants
  <2>5. d = 0 => d < Len(Falloff) /\ d + 1 = 1
    BY SamplerConstants
  <2> QED BY <2>2, <2>3, <2>4, <2>5, SamplerConstants
<1> QED BY <1>1

\* The units that are counted for a set.
Units(S) == UNION {{i} \X (1..Weight(i)) : i \in S}

LEMMA UnitsOf ==
  ASSUME NEW S, NEW u
  PROVE  u \in Units(S) <=> \E i \in S : \E w \in 1..Weight(i) : u = <<i, w>>
BY DEF Units

LEMMA MassIs ==
  ASSUME Given, ~NoneFinite, NEW S \in SUBSET Candidates
  PROVE  Mass(S) = Cardinality(Units(S)) /\ IsFiniteSet(Units(S)) /\ Mass(S) \in Nat
<1>1. IsFiniteSet(S)
  BY GivenRow, FS_Subset
<1> DEFINE parts == {{i} \X (1..Weight(i)) : i \in S}
<1>2. IsFiniteSet(parts)
  <2> DEFINE f == [i \in S |-> {i} \X (1..Weight(i))]
  <2>1. f \in Surjection(S, parts)
    BY DEF Surjection
  <2> HIDE DEF f, parts
  <2> QED BY <1>1, <2>1, FS_Surjection
<1>3. \A T \in parts : IsFiniteSet(T)
  <2>1. SUFFICES ASSUME NEW i \in S PROVE IsFiniteSet({i} \X (1..Weight(i)))
    OBVIOUS
  <2>2. Weight(i) \in Int /\ 1 \in Int
    BY WeightIs
  <2>3. IsFiniteSet(1..Weight(i)) /\ IsFiniteSet({i})
    BY <2>2, FS_Interval, FS_Singleton
  <2> QED BY <2>3, FS_Product
<1>4. Units(S) = UNION parts
  BY DEF Units
<1> HIDE DEF parts
<1>5. IsFiniteSet(Units(S))
  BY <1>2, <1>3, <1>4, FS_UNION
<1> QED BY <1>5, FS_CardinalityType DEF Mass, Units

LEMMA MassGrows ==
  ASSUME Given, ~NoneFinite, NEW S \in SUBSET Candidates, NEW i \in Candidates, i \notin S
  PROVE  Mass(S \cup {i}) = Mass(S) + Weight(i)
<1> DEFINE own == {i} \X (1..Weight(i))
<1>1. Weight(i) \in Nat
  BY WeightIs
<1>2. IsFiniteSet(own) /\ Cardinality(own) = Weight(i)
  <2>1. IsFiniteSet(1..Weight(i)) /\ Cardinality(1..Weight(i)) = Weight(i)
    <3>1. Weight(i) \in Int /\ 1 \in Int
          /\ (IF 1 > Weight(i) THEN 0 ELSE Weight(i) - 1 + 1) = Weight(i)
      BY <1>1
    <3> QED BY <3>1, FS_Interval
  <2>2. IsFiniteSet({i}) /\ Cardinality({i}) = 1
    BY FS_Singleton
  <2> DEFINE A == {i}
             B == 1..Weight(i)
  <2> HIDE DEF A, B
  <2>3. IsFiniteSet(A \X B) /\ Cardinality(A \X B) = Cardinality(A) * Cardinality(B)
    <3>1. IsFiniteSet(A) /\ IsFiniteSet(B)
      BY <2>1, <2>2 DEF A, B
    <3> QED BY <3>1, FS_Product
  <2>4. Cardinality(A) * Cardinality(B) = Weight(i)
    BY <1>1, <2>1, <2>2 DEF A, B
  <2>5. own = A \X B
    BY DEF A, B
  <2> QED BY <2>3, <2>4, <2>5
<1>3. \A u : u \in own <=> \E w \in 1..Weight(i) : u = <<i, w>>
  OBVIOUS
<1> HIDE DEF own
<1>4. Units(S \cup {i}) = Units(S) \cup own
  <2>1. \A u : u \in Units(S \cup {i}) <=> u \in Units(S) \/ u \in own
    <3>1. SUFFICES ASSUME NEW u
                   PROVE  u \in Units(S \cup {i}) <=> u \in Units(S) \/ u \in own
      OBVIOUS
    <3>2. u \in Units(S \cup {i})
            <=> \E j \in S \cup {i} : \E w \in 1..Weight(j) : u = <<j, w>>
      BY UnitsOf
    <3>3. u \in Units(S) <=> \E j \in S : \E w \in 1..Weight(j) : u = <<j, w>>
      BY UnitsOf
    <3> QED BY <1>3, <3>2, <3>3
  <2> QED BY <2>1
<1>5. Units(S) \cap own = {}
  <2>1. \A u : u \in Units(S) => \E j \in S : u[1] = j
    BY UnitsOf
  <2>2. \A u : u \in own => u[1] = i
    BY <1>3
  <2> QED BY <2>1, <2>2
<1>6. IsFiniteSet(Units(S)) /\ Mass(S) = Cardinality(Units(S)) /\ Mass(S) \in Nat
  BY MassIs
<1>7. Cardinality(Units(S) \cup own) = Cardinality(Units(S)) + Cardinality(own) - Cardinality(Units(S) \cap own)
  BY <1>2, <1>6, FS_Union
<1>8. Cardinality(Units(S) \cap own) = 0
  BY <1>5, FS_EmptySet
<1>9. S \cup {i} \in SUBSET Candidates
  OBVIOUS
<1>10. Mass(S \cup {i}) = Cardinality(Units(S \cup {i}))
  BY <1>9, MassIs
<1>11. Cardinality(Units(S) \cup own) = Mass(S) + Weight(i)
  <2> DEFINE a == Cardinality(Units(S))
             b == Cardinality(Units(S) \cap own)
             c == Cardinality(Units(S) \cup own)
             d == Cardinality(own)
  <2>1. c = a + d - b /\ b = 0 /\ a = Mass(S) /\ a \in Nat /\ d = Weight(i)
    BY <1>2, <1>6, <1>7, <1>8
  <2> HIDE DEF a, b, c, d
  <2>2. c = Mass(S) + Weight(i)
    BY <1>1, <2>1
  <2> QED BY <2>2 DEF c
<1> QED BY <1>4, <1>10, <1>11

LEMMA MassMonotone ==
  ASSUME Given, ~NoneFinite, NEW S \in SUBSET Candidates, NEW T \in SUBSET S
  PROVE  Mass(T) <= Mass(S)
<1>1. Units(T) \in SUBSET Units(S)
  <2>1. \A u : u \in Units(T) => u \in Units(S)
    BY UnitsOf
  <2> QED BY <2>1
<1>2. T \in SUBSET Candidates
  OBVIOUS
<1>3. /\ Mass(S) = Cardinality(Units(S)) /\ IsFiniteSet(Units(S))
      /\ Mass(T) = Cardinality(Units(T))
  BY <1>2, MassIs
<1> QED BY <1>1, <1>3, FS_Subset

LEMMA MassOfNone ==
  ASSUME Given, ~NoneFinite
  PROVE  Mass({}) = 0
<1>1. \A u : u \notin Units({})
  BY UnitsOf
<1>2. Units({}) = {}
  BY <1>1
<1>3. {} \in SUBSET Candidates
  OBVIOUS
<1> QED BY <1>2, <1>3, MassIs, FS_EmptySet

-----------------------------------------------------------------------------
(* Lists of candidates: sums, the cut, the draw.                           *)

\* A list of candidates, each of them once.
Listing(list) ==
  /\ list \in Seq(Candidates)
  /\ \A a, b \in 1..Len(list) : list[a] = list[b] => a = b

FirstOf(list, n) == {list[j] : j \in 1..n}

LEMMA UptoIs ==
  ASSUME Given, ~NoneFinite, NEW list, Listing(list)
  PROVE  /\ Len(list) \in Nat
         /\ \A j \in 1..Len(list) : list[j] \in Candidates /\ Weight(list[j]) \in Nat
         /\ Upto(list, 0) = 0
         /\ \A n \in 0..Len(list) : Upto(list, n) \in Nat
         /\ \A n \in 1..Len(list) : Upto(list, n) = Upto(list, n - 1) + Weight(list[n])
         /\ \A m, n \in 0..Len(list) : m <= n => Upto(list, m) <= Upto(list, n)
<1>1. Len(list) \in Nat /\ \A j \in 1..Len(list) : list[j] \in Candidates
  BY DEF Listing
<1>2. \A j \in 1..Len(list) : Weight(list[j]) \in Nat
  BY <1>1, WeightIs
<1>3. \A n \in 0..Len(list) : FirstOf(list, n) \in SUBSET Candidates
  <2>1. SUFFICES ASSUME NEW n \in 0..Len(list) PROVE FirstOf(list, n) \in SUBSET Candidates
    OBVIOUS
  <2>2. \A j \in 1..n : j \in 1..Len(list)
    BY <1>1
  <2> QED BY <1>1, <2>2 DEF FirstOf
<1>4. \A n : Upto(list, n) = Mass(FirstOf(list, n))
  BY DEF Upto, FirstOf
<1>5. Upto(list, 0) = 0
  <2>1. FirstOf(list, 0) = {}
    BY DEF FirstOf
  <2> QED BY <1>4, <2>1, MassOfNone
<1>6. \A n \in 0..Len(list) : Upto(list, n) \in Nat
  BY <1>3, <1>4, MassIs
<1>7. ASSUME NEW n \in 1..Len(list)
      PROVE  Upto(list, n) = Upto(list, n - 1) + Weight(list[n])
  <2>1. n - 1 \in 0..Len(list) /\ n \in 0..Len(list)
    BY <1>1
  <2>2. FirstOf(list, n) = FirstOf(list, n - 1) \cup {list[n]}
    <3>1. \A j : j \in 1..n <=> j \in 1..(n - 1) \/ j = n
      BY <1>1
    <3> QED BY <3>1 DEF FirstOf
  <2>3. list[n] \notin FirstOf(list, n - 1)
    <3>1. \A j \in 1..(n - 1) : j \in 1..Len(list) /\ j # n
      BY <1>1
    <3> QED BY <3>1 DEF FirstOf, Listing
  <2>4. FirstOf(list, n - 1) \in SUBSET Candidates /\ list[n] \in Candidates
    BY <1>1, <1>3, <2>1
  <2>5. Mass(FirstOf(list, n - 1) \cup {list[n]}) = Mass(FirstOf(list, n - 1)) + Weight(list[n])
    BY <2>3, <2>4, MassGrows
  <2> QED BY <1>4, <2>2, <2>5
<1>8. ASSUME NEW m \in 0..Len(list), NEW n \in 0..Len(list), m <= n
      PROVE  Upto(list, m) <= Upto(list, n)
  <2>1. FirstOf(list, m) \in SUBSET FirstOf(list, n)
    <3>1. \A j \in 1..m : j \in 1..n
      BY <1>1, <1>8
    <3> QED BY <3>1 DEF FirstOf
  <2> QED BY <1>3, <1>4, <2>1, MassMonotone
<1> QED BY <1>1, <1>2, <1>5, <1>6, <1>7, <1>8

LEMMA TimesMonotone ==
  ASSUME NEW a \in Int, NEW b \in Int, NEW s \in Nat, a <= b
  PROVE  a * s <= b * s
OBVIOUS

\* The prefix that Cut keeps, and what lets the walk pass each place.
CutAt(list, m) ==
  /\ m \in 1..Len(list)
  /\ Cut(list) = SubSeq(list, 1, m)
  /\ \A j \in 2..m : /\ ~(Weight(list[j]) * Scale < MinP * Weight(list[1]))
                     /\ ~(Upto(list, j - 1) * Scale >= TopP * Total(list))

LEMMA CutIs ==
  ASSUME NEW list, Len(list) \in Nat \ {0}
  PROVE  \E m : CutAt(list, m)
<1> DEFINE stops == {n \in 1..Len(list) : Ends(list, n)}
<1>1. stops \in SUBSET Nat /\ Len(list) \in stops
  BY DEF Ends
<1>2. PICK v \in stops : \A w \in stops : v <= w
  BY <1>1, Least
<1>3. v \in 1..Len(list) /\ Ends(list, v) /\ \A k \in 1..(v - 1) : ~Ends(list, k)
  <2>1. \A k \in 1..(v - 1) : k \in 1..Len(list) /\ ~(v <= k)
    BY <1>2
  <2> QED BY <1>2, <2>1
<1> DEFINE m == CHOOSE n \in 1..Len(list) :
                  Ends(list, n) /\ \A k \in 1..(n - 1) : ~Ends(list, k)
<1> HIDE DEF stops
<1>4. m \in 1..Len(list) /\ Ends(list, m) /\ \A k \in 1..(m - 1) : ~Ends(list, k)
  BY <1>3
<1>5. Cut(list) = SubSeq(list, 1, m)
  BY DEF Cut
<1> HIDE DEF m
<1>6. ASSUME NEW j \in 2..m
      PROVE  /\ ~(Weight(list[j]) * Scale < MinP * Weight(list[1]))
             /\ ~(Upto(list, j - 1) * Scale >= TopP * Total(list))
  <2>1. j - 1 \in 1..(m - 1) /\ (j - 1) + 1 = j
    BY <1>4
  <2>2. ~Ends(list, j - 1)
    BY <1>4, <2>1
  <2>3. /\ ~(Weight(list[(j - 1) + 1]) * Scale < MinP * Weight(list[1]))
        /\ ~(Upto(list, j - 1) * Scale >= TopP * Total(list))
    BY <2>2 DEF Ends
  <2> QED BY <2>1, <2>3
<1> QED BY <1>4, <1>5, <1>6 DEF CutAt

\* A prefix of a list is a list.
LEMMA PrefixIs ==
  ASSUME NEW list, Listing(list), NEW m \in 1..Len(list)
  PROVE  /\ Listing(SubSeq(list, 1, m)) /\ Len(SubSeq(list, 1, m)) = m
         /\ \A j \in 1..m : SubSeq(list, 1, m)[j] = list[j]
<1>1. list \in Seq(Candidates) /\ Len(list) \in Nat /\ m \in Nat
      /\ \A i \in 1..m : list[i] \in Candidates
  BY DEF Listing
<1>2. /\ SubSeq(list, 1, m) \in Seq(Candidates)
      /\ Len(SubSeq(list, 1, m)) = IF 1 <= m THEN m - 1 + 1 ELSE 0
      /\ \A j \in 1..(m - 1 + 1) : SubSeq(list, 1, m)[j] = list[1 + j - 1]
  BY <1>1, SubSeqProperties
<1>3. Len(SubSeq(list, 1, m)) = m /\ \A j \in 1..m : SubSeq(list, 1, m)[j] = list[j]
  BY <1>1, <1>2
<1>4. \A j \in 1..m : j \in 1..Len(list)
  BY <1>1
<1> QED BY <1>2, <1>3, <1>4 DEF Listing

\* A draw takes place p of a list.
TakesPlace(list, draw, p) ==
  Spent(list, draw, p) /\ (p = 1 \/ ~Spent(list, draw, p - 1))

LEMMA TakenIs ==
  ASSUME Given, ~NoneFinite, NEW list, Listing(list), list # <<>>,
         NEW draw \in 0..(Draws - 1), NEW fallback
  PROVE  /\ \E p \in 1..Len(list) : Taken(list, draw, fallback) = list[p]
         /\ \A p \in 1..Len(list) :
              Taken(list, draw, fallback) = list[p] <=> TakesPlace(list, draw, p)
<1> DEFINE hit == {n \in 1..Len(list) : Spent(list, draw, n)}
<1>1. Len(list) \in Nat \ {0} /\ draw \in Nat /\ draw <= Draws /\ Draws \in Nat
  BY SamplerConstants DEF Listing
<1>2. Len(list) \in hit
  <2>1. Total(list) = Upto(list, Len(list)) /\ Upto(list, Len(list)) \in Nat
    BY <1>1, UptoIs DEF Total
  <2> DEFINE t == Total(list)
  <2>2. draw * t <= Draws * t
    BY <1>1, <2>1, TimesMonotone
  <2>3. Draws * t = t * Draws /\ draw * t \in Int /\ t * Draws \in Int
    BY <1>1, <2>1
  <2>4. Upto(list, Len(list)) * Draws >= draw * Total(list)
    BY <2>1, <2>2, <2>3
  <2> QED BY <1>1, <2>4 DEF Spent
<1>3. \E n \in hit : \A k \in hit : n <= k
  <2>1. hit \in SUBSET Nat
    OBVIOUS
  <2> HIDE DEF hit
  <2> QED BY <1>2, <2>1, Least
<1> DEFINE p == CHOOSE n \in hit : \A k \in hit : n <= k
<1>4. p \in hit /\ \A k \in hit : p <= k
  BY <1>3
<1>5. Taken(list, draw, fallback) = list[p]
  BY <1>2 DEF Taken
<1> HIDE DEF p
<1>6. p \in 1..Len(list) /\ Spent(list, draw, p)
  BY <1>4
<1>7. ASSUME NEW q \in 1..Len(list), q < p PROVE ~Spent(list, draw, q)
  <2>1. q \notin hit
    BY <1>1, <1>4, <1>6, <1>7
  <2> QED BY <2>1
<1> HIDE DEF hit
<1>8. TakesPlace(list, draw, p)
  <2>1. p # 1 => p - 1 \in 1..Len(list) /\ p - 1 < p
    BY <1>1, <1>6
  <2> QED BY <1>6, <1>7, <2>1 DEF TakesPlace
<1>9. ASSUME NEW q \in 1..Len(list), TakesPlace(list, draw, q) PROVE q = p
  <2>1. Spent(list, draw, q) /\ ~(q < p)
    BY <1>7, <1>9 DEF TakesPlace
  <2>2. CASE p < q
    <3>1. p <= q - 1 /\ p \in 0..Len(list) /\ q - 1 \in 0..Len(list) /\ q # 1
      BY <1>1, <1>6, <2>2
    <3>2. /\ Upto(list, p) <= Upto(list, q - 1)
          /\ Upto(list, p) \in Nat /\ Upto(list, q - 1) \in Nat
          /\ Total(list) \in Nat
      BY <1>1, <3>1, UptoIs DEF Total
    <3>3. Upto(list, p) * Draws <= Upto(list, q - 1) * Draws
      BY <1>1, <3>2, TimesMonotone
    <3>4. /\ Upto(list, p) * Draws \in Int /\ Upto(list, q - 1) * Draws \in Int
          /\ draw * Total(list) \in Int
      BY <1>1, <3>2
    <3>5. Upto(list, p) * Draws >= draw * Total(list)
      BY <1>6 DEF Spent
    <3>6. Upto(list, q - 1) * Draws >= draw * Total(list)
      BY <3>3, <3>4, <3>5
    <3>7. ~Spent(list, draw, q - 1)
      BY <1>9, <3>1 DEF TakesPlace
    <3> QED BY <3>6, <3>7 DEF Spent
  <2> QED BY <1>1, <1>6, <2>1, <2>2
<1>10. ASSUME NEW q \in 1..Len(list)
       PROVE  list[p] = list[q] <=> TakesPlace(list, draw, q)
  <2>1. list[p] = list[q] => p = q
    BY <1>6 DEF Listing
  <2> QED BY <1>8, <1>9, <2>1
<1> QED BY <1>5, <1>6, <1>10

\* How often s fits into x.
LEMMA Quotient ==
  ASSUME NEW s \in Nat \ {0}, NEW x \in Nat
  PROVE  \E q \in Nat : q * s <= x /\ x < q * s + s
<1> DEFINE P == {n \in Nat : \E q \in Nat : q * s <= n /\ n < q * s + s}
<1>1. 0 \in P
  <2>1. 0 * s = 0 /\ 0 \in Nat
    OBVIOUS
  <2> QED BY <2>1
<1>2. ASSUME NEW n \in Nat, n \in P PROVE n + 1 \in P
  <2>1. PICK q \in Nat : q * s <= n /\ n < q * s + s
    BY <1>2
  <2>2. q * s \in Nat /\ (q + 1) * s = q * s + s
    OBVIOUS
  <2>3. CASE n + 1 < q * s + s
    <3>1. q * s <= n + 1
      BY <2>1, <2>2
    <3> QED BY <2>3, <3>1
  <2>4. CASE ~(n + 1 < q * s + s)
    <3>1. n + 1 = q * s + s
      BY <2>1, <2>2, <2>4
    <3>2. (q + 1) * s <= n + 1 /\ n + 1 < (q + 1) * s + s
      BY <2>2, <3>1
    <3> DEFINE r == q + 1
    <3>3. r \in Nat /\ r * s <= n + 1 /\ n + 1 < r * s + s
      BY <3>2
    <3> HIDE DEF r
    <3> QED BY <3>3
  <2> QED BY <2>3, <2>4
<1> HIDE DEF P
<1>3. x \in P
  BY <1>1, <1>2, Induct
<1> QED BY <1>3 DEF P

\* How many of n equal steps through s * n end after a and not after b.
LEMMA StepsBetween ==
  ASSUME NEW s \in Nat \ {0}, NEW n \in Nat \ {0}, NEW a \in Nat, NEW b \in Nat,
         a <= b, b <= n * s, NEW first \in BOOLEAN, first => a = 0,
         NEW D, D = {d \in 0..(n - 1) : b >= d * s /\ (first \/ ~(a >= d * s))}
  PROVE  /\ Cardinality(D) \in Nat
         /\ -s <= Cardinality(D) * s - (b - a)
         /\ Cardinality(D) * s - (b - a) <= s
<1>1. PICK p \in Nat : p * s <= a /\ a < p * s + s
  BY Quotient
<1>2. PICK q \in Nat : q * s <= b /\ b < q * s + s
  BY Quotient
<1>3. \A d \in Nat : d * s \in Nat /\ (d + 1) * s = d * s + s
  OBVIOUS
<1>4. ASSUME NEW d \in Nat PROVE b >= d * s <=> d <= q
  <2>1. d <= q => d * s <= q * s
    BY TimesMonotone
  <2>2. q + 1 <= d => (q + 1) * s <= d * s
    BY TimesMonotone
  <2> QED BY <1>2, <1>3, <2>1, <2>2
<1>5. ASSUME NEW d \in Nat PROVE a >= d * s <=> d <= p
  <2>1. d <= p => d * s <= p * s
    BY TimesMonotone
  <2>2. p + 1 <= d => (p + 1) * s <= d * s
    BY TimesMonotone
  <2> QED BY <1>1, <1>3, <2>1, <2>2
<1>6. p <= q /\ q <= n
  <2>1. b >= p * s
    BY <1>1, <1>3
  <2>2. n + 1 <= q => (n + 1) * s <= q * s
    BY TimesMonotone
  <2>3. (n + 1) * s = n * s + s /\ n * s \in Nat /\ q * s \in Nat
    BY <1>3
  <2> QED BY <1>2, <1>4, <2>1, <2>2, <2>3
<1> DEFINE lo == IF first THEN 0 ELSE p + 1
           hi == IF q < n THEN q ELSE n - 1
<1>7. D = lo..hi
  <2>1. ASSUME NEW d PROVE d \in D <=> d \in lo..hi
    <3>1. d \in D <=> d \in 0..(n - 1) /\ b >= d * s /\ (first \/ ~(a >= d * s))
      OBVIOUS
    <3>2. d \in 0..(n - 1) => d \in Nat
      OBVIOUS
    <3>3. d \in D <=> d \in 0..(n - 1) /\ d <= q /\ (first \/ ~(d <= p))
      BY <1>4, <1>5, <3>1, <3>2
    <3> QED BY <1>6, <3>3
  <2> QED BY <2>1
<1>8. lo \in Nat /\ hi \in Nat
  OBVIOUS
<1>9. Cardinality(D) = IF lo > hi THEN 0 ELSE hi - lo + 1
  <2>1. lo \in Int /\ hi \in Int
    BY <1>8
  <2> HIDE DEF lo, hi
  <2> QED BY <1>7, <2>1, FS_Interval
<1> DEFINE c == Cardinality(D)
<1>10. c \in Nat
  BY <1>8, <1>9
<1>11. CASE first /\ q < n
  <2>1. c = q + 1 /\ a = 0
    BY <1>9, <1>11
  <2>2. c * s = q * s + s
    BY <1>3, <2>1
  <2> QED BY <1>2, <1>3, <1>10, <2>1, <2>2
<1>12. CASE first /\ ~(q < n)
  <2>1. c = n /\ a = 0 /\ q = n
    BY <1>6, <1>9, <1>12
  <2>2. c * s = b
    BY <1>2, <1>3, <2>1
  <2> QED BY <1>10, <2>1, <2>2
<1>13. CASE ~first /\ q < n
  <2>1. c = q - p
    BY <1>6, <1>9, <1>13
  <2>2. c * s = q * s - p * s
    BY <2>1
  <2> QED BY <1>1, <1>2, <1>3, <1>10, <2>2
<1>14. CASE ~first /\ ~(q < n) /\ p < n
  <2>1. c = n - 1 - p /\ q = n
    BY <1>6, <1>9, <1>14
  <2>2. c * s = n * s - s - p * s /\ n * s \in Nat
    BY <2>1
  <2>3. b = n * s
    BY <1>2, <1>3, <2>1, <2>2
  <2> QED BY <1>1, <1>3, <1>10, <2>2, <2>3
<1>15. CASE ~first /\ ~(q < n) /\ ~(p < n)
  <2>1. c = 0 /\ q = n /\ p = n
    BY <1>6, <1>9, <1>15
  <2>2. n * s \in Nat /\ a = n * s /\ b = n * s /\ c * s = 0
    BY <1>1, <1>2, <1>3, <2>1
  <2> QED BY <1>10, <2>1, <2>2
<1> QED BY <1>11, <1>12, <1>13, <1>14, <1>15

\* Each place of a list is drawn as often as its share of the list.
LEMMA PlaceShare ==
  ASSUME Given, ~NoneFinite, NEW list, Listing(list), list # <<>>, Total(list) > 0,
         NEW p \in 1..Len(list),
         NEW D, D = {d \in 0..(Draws - 1) : TakesPlace(list, d, p)}
  PROVE  LET gap == Cardinality(D) * Total(list) - Weight(list[p]) * Draws
         IN  -Total(list) <= gap /\ gap <= Total(list)
<1>1. Len(list) \in Nat /\ p \in 0..Len(list) /\ p - 1 \in 0..Len(list) /\ Draws \in Nat \ {0}
      /\ Len(list) \in 0..Len(list) /\ p <= Len(list)
  BY SamplerConstants DEF Listing
<1> DEFINE s == Total(list)
           u == Upto(list, p - 1)
           v == Upto(list, p)
           w == Weight(list[p])
<1>2. s \in Nat \ {0} /\ u \in Nat /\ v \in Nat /\ w \in Nat /\ v = u + w /\ v <= s
      /\ (p = 1 => u = 0)
  <2>1. s = Upto(list, Len(list))
    BY DEF Total
  <2> QED BY <1>1, <2>1, UptoIs
<1>3. \A d \in 0..(Draws - 1) :
        TakesPlace(list, d, p) <=> v * Draws >= d * s /\ (p = 1 \/ ~(u * Draws >= d * s))
  BY DEF TakesPlace, Spent
<1> HIDE DEF s, u, v, w
<1>4. /\ u * Draws \in Nat /\ v * Draws \in Nat /\ u * Draws <= v * Draws
      /\ v * Draws <= Draws * s
      /\ (p = 1 => u * Draws = 0)
      /\ v * Draws - u * Draws = w * Draws
  <2>1. u * Draws <= v * Draws
    BY <1>1, <1>2, TimesMonotone
  <2>2. v * Draws <= s * Draws /\ s * Draws = Draws * s
    BY <1>1, <1>2, TimesMonotone
  <2>3. u * Draws \in Nat /\ v * Draws \in Nat /\ (u + w) * Draws = u * Draws + w * Draws
        /\ w * Draws \in Nat
    BY <1>1, <1>2
  <2> QED BY <1>1, <1>2, <2>1, <2>2, <2>3
<1> DEFINE a == u * Draws
           b == v * Draws
           first == (p = 1)
<1>5. D = {d \in 0..(Draws - 1) : b >= d * s /\ (first \/ ~(a >= d * s))}
  BY <1>3
<1>6. a \in Nat /\ b \in Nat /\ a <= b /\ b <= Draws * s /\ first \in BOOLEAN /\ (first => a = 0)
      /\ b - a = w * Draws
  BY <1>4
<1> HIDE DEF a, b, first
<1>7. /\ -s <= Cardinality(D) * s - (b - a)
      /\ Cardinality(D) * s - (b - a) <= s
  BY <1>1, <1>2, <1>5, <1>6, StepsBetween
<1> QED BY <1>6, <1>7 DEF s, w

-----------------------------------------------------------------------------
(* The walks over the vocabulary.                                          *)

\* b leads the first n logits, as the comparison with a NaN has it.
Leads(b, n) ==
  /\ b \in Ids /\ b < n
  /\ logits[0] = Nan => b = 0
  /\ logits[0] # Nan => /\ logits[b] # Nan
                        /\ \A j \in Ids : j < n => ~Above(logits[j], logits[b])

LEMMA LeadsNext ==
  ASSUME Given, NEW n \in Ids, NEW b, Leads(b, n)
  PROVE  Leads(IF Above(logits[n], logits[b]) THEN n ELSE b, n + 1)
<1>1. \A j \in Ids : logits[j] \in Int /\ j \in Nat
  BY GivenRow, SamplerConstants
<1>2. \A j \in Ids : j < n + 1 <=> j < n \/ j = n
  BY <1>1
<1>3. b \in Ids /\ b < n + 1 /\ n < n + 1
  BY <1>1 DEF Leads
<1>4. CASE logits[0] = Nan
  <2>1. b = 0 /\ ~Above(logits[n], logits[b])
    BY <1>4 DEF Leads, Above
  <2> QED BY <1>3, <1>4, <2>1 DEF Leads
<1>5. CASE logits[0] # Nan /\ Above(logits[n], logits[b])
  <2>1. logits[n] # Nan
    BY <1>5 DEF Above
  <2>2. ASSUME NEW j \in Ids, j < n + 1 PROVE ~Above(logits[j], logits[n])
    <3>1. CASE j = n
      BY <1>1, <3>1 DEF Above
    <3>2. CASE j < n
      <4>1. ~Above(logits[j], logits[b])
        BY <1>5, <2>2, <3>2 DEF Leads
      <4>2. logits[j] \in Int /\ logits[n] \in Int /\ logits[b] \in Int
        BY <1>1, <1>3
      <4> QED BY <1>5, <4>1, <4>2 DEF Above, Nan, PlusInf
    <3> QED BY <1>2, <2>2, <3>1, <3>2
  <2> QED BY <1>3, <1>5, <2>1, <2>2 DEF Leads
<1>6. CASE logits[0] # Nan /\ ~Above(logits[n], logits[b])
  <2>1. logits[b] # Nan
    BY <1>6 DEF Leads
  <2>2. ASSUME NEW j \in Ids, j < n + 1 PROVE ~Above(logits[j], logits[b])
    <3>1. CASE j = n
      BY <1>6, <3>1
    <3>2. CASE j < n
      BY <1>6, <2>2, <3>2 DEF Leads
    <3> QED BY <1>2, <2>2, <3>1, <3>2
  <2> QED BY <1>3, <1>6, <2>1, <2>2 DEF Leads
<1> QED BY <1>4, <1>5, <1>6

BestIs(best) ==
  best = [n \in 1..Vocab |->
            IF n = 1 THEN 0
            ELSE IF Above(logits[n - 1], logits[best[n - 1]]) THEN n - 1
            ELSE best[n - 1]]

LEMMA ArgmaxLeads ==
  ASSUME Given
  PROVE  Leads(Argmax, Vocab)
<1> DEFINE step == [x \in (1..Vocab) \X Ids |->
                      IF x[1] = 1 THEN 0
                      ELSE IF Above(logits[x[1] - 1], logits[x[2]]) THEN x[1] - 1 ELSE x[2]]
<1>1. Vocab \in Nat \ {0} /\ 0 \in Ids /\ \A n \in 1..Vocab : n - 1 \in Ids
  BY SamplerConstants
<1>2. \A i \in 1..Vocab, v \in Ids :
        step[<<i, v>>] = IF i = 1 THEN 0
                         ELSE IF Above(logits[i - 1], logits[v]) THEN i - 1 ELSE v
  OBVIOUS
<1>3. \A i \in 1..Vocab, v \in Ids : step[<<i, v>>] \in Ids
  BY <1>1, <1>2
<1> HIDE DEF step
<1>4. PICK f \in [0..Vocab -> Ids] : Steps(f, Vocab, 0, step)
  BY <1>1, <1>3, Recursion
<1> DEFINE g == [n \in 1..Vocab |-> f[n]]
<1>5. ASSUME NEW n \in 1..Vocab
      PROVE  g[n] = IF n = 1 THEN 0
                    ELSE IF Above(logits[n - 1], logits[g[n - 1]]) THEN n - 1 ELSE g[n - 1]
  <2>1. n - 1 \in 0..Vocab /\ f[n - 1] \in Ids /\ f[n] = step[<<n, f[n - 1]>>]
    BY <1>1, <1>4 DEF Steps
  <2>2. n # 1 => n - 1 \in 1..Vocab
    BY <1>1
  <2> QED BY <1>2, <2>1, <2>2
<1>6. BestIs(g)
  <2> DEFINE h == [n \in 1..Vocab |->
                     IF n = 1 THEN 0
                     ELSE IF Above(logits[n - 1], logits[g[n - 1]]) THEN n - 1
                     ELSE g[n - 1]]
  <2>1. \A n \in 1..Vocab : h[n] = g[n]
    <3>1. \A n \in 1..Vocab : h[n] = IF n = 1 THEN 0
                     ELSE IF Above(logits[n - 1], logits[g[n - 1]]) THEN n - 1
                     ELSE g[n - 1]
      OBVIOUS
    <3> HIDE DEF h, g
    <3> QED BY <1>5, <3>1
  <2>2. h = [n \in 1..Vocab |-> h[n]] /\ g = [n \in 1..Vocab |-> g[n]]
    OBVIOUS
  <2> HIDE DEF g
  <2>3. g = h
    <3> HIDE DEF h
    <3> QED BY <2>1, <2>2
  <2> QED BY <2>3 DEF BestIs
<1> HIDE DEF g
<1> DEFINE best == CHOOSE b : BestIs(b)
<1>7. BestIs(best)
  BY <1>6
<1>8. Argmax = best[Vocab]
  BY DEF Argmax, BestIs
<1> HIDE DEF best
<1>9. ASSUME NEW n \in 1..Vocab
      PROVE  best[n] = IF n = 1 THEN 0
                       ELSE IF Above(logits[n - 1], logits[best[n - 1]]) THEN n - 1
                       ELSE best[n - 1]
  <2> DEFINE h == [m \in 1..Vocab |->
                     IF m = 1 THEN 0
                     ELSE IF Above(logits[m - 1], logits[best[m - 1]]) THEN m - 1
                     ELSE best[m - 1]]
  <2>1. h[n] = IF n = 1 THEN 0
                       ELSE IF Above(logits[n - 1], logits[best[n - 1]]) THEN n - 1
                       ELSE best[n - 1]
    OBVIOUS
  <2>2. best = h
    BY <1>7, Zenon DEF BestIs
  <2> HIDE DEF h
  <2> QED BY <2>1, <2>2
<1> DEFINE P == {n \in Nat : n + 1 <= Vocab => Leads(best[n + 1], n + 1)}
<1>10. 0 \in P
  <2>1. best[1] = 0 /\ 0 + 1 = 1
    BY <1>1, <1>9
  <2>2. \A j \in Ids : j < 1 => j = 0
    BY SamplerConstants
  <2>3. ~Above(logits[0], logits[0])
    BY <1>1, GivenRow DEF Above
  <2>4. Leads(0, 1)
    BY <1>1, <2>2, <2>3 DEF Leads
  <2> QED BY <2>1, <2>4
<1>11. ASSUME NEW n \in Nat, n \in P PROVE n + 1 \in P
  <2>1. SUFFICES ASSUME (n + 1) + 1 <= Vocab PROVE Leads(best[(n + 1) + 1], (n + 1) + 1)
    OBVIOUS
  <2>2. Leads(best[n + 1], n + 1)
    BY <1>1, <1>11, <2>1
  <2>3. /\ (n + 1) + 1 \in 1..Vocab /\ (n + 1) + 1 # 1 /\ ((n + 1) + 1) - 1 = n + 1
        /\ n + 1 \in Ids
    BY <2>1, SamplerConstants
  <2>4. best[(n + 1) + 1] = IF Above(logits[n + 1], logits[best[n + 1]]) THEN n + 1
                            ELSE best[n + 1]
    BY <1>9, <2>3
  <2> QED BY <2>2, <2>3, <2>4, LeadsNext
<1> HIDE DEF P
<1>12. Vocab - 1 \in P
  <2>1. Nat \subseteq P
    BY <1>10, <1>11, Induct
  <2> QED BY <1>1, <2>1
<1>13. (Vocab - 1) + 1 = Vocab /\ Vocab <= Vocab
  BY <1>1
<1>14. Leads(best[(Vocab - 1) + 1], (Vocab - 1) + 1)
  BY <1>12, <1>13 DEF P
<1> QED BY <1>8, <1>13, <1>14

LEMMA ArgmaxIs ==
  ASSUME Given
  PROVE  /\ Argmax \in Ids
         /\ ~NoneFinite => Argmax \in IF logits[0] = Nan THEN {0} ELSE Greedy
<1>1. Leads(Argmax, Vocab) /\ Argmax \in Ids
  BY ArgmaxLeads DEF Leads
<1>2. ASSUME logits[0] # Nan PROVE Argmax \in Greedy
  <2>1. \A i \in Ids : i < Vocab
    BY SamplerConstants
  <2>2. logits[Argmax] # Nan /\ \A i \in Ids : ~Above(logits[i], logits[Argmax])
    BY <1>1, <1>2, <2>1 DEF Leads
  <2> QED BY <1>1, <2>2 DEF Greedy
<1>3. ASSUME ~NoneFinite, logits[0] = Nan PROVE Argmax = 0
  BY <1>1, <1>3 DEF Leads
<1> QED BY <1>1, <1>2, <1>3

\* list is the ids below n that stay, in order.
WideTo(list, n) ==
  /\ list \in Seq(Candidates)
  /\ \A a, b \in 1..Len(list) : a < b => list[a] < list[b]
  /\ \A a \in 1..Len(list) : list[a] < n /\ Stays(list[a])
  /\ \A i \in Ids : i < n /\ Stays(i) => \E a \in 1..Len(list) : list[a] = i

LEMMA WideNext ==
  ASSUME Given, NEW n \in Ids, NEW list, WideTo(list, n)
  PROVE  WideTo(IF Stays(n) THEN Append(list, n) ELSE list, n + 1)
<1>1. \A i \in Ids : i \in Nat
  BY SamplerConstants
<1>2. \A i \in Candidates : i \in Ids /\ i \in Nat
  BY GivenRow
<1>3. Len(list) \in Nat /\ \A a \in 1..Len(list) : list[a] \in Candidates
  BY DEF WideTo
<1>4. CASE ~Stays(n)
  <2>1. \A i \in Ids : i < n + 1 /\ Stays(i) => i < n
    BY <1>1, <1>4
  <2>2. \A a \in 1..Len(list) : list[a] < n + 1
    BY <1>1, <1>2, <1>3 DEF WideTo
  <2> QED BY <1>4, <2>1, <2>2 DEF WideTo
<1>5. CASE Stays(n)
  <2> DEFINE g == Append(list, n)
  <2>1. n \in Candidates
    BY <1>5 DEF Stays, Candidates
  <2>2. /\ g \in Seq(Candidates) /\ Len(g) = Len(list) + 1
        /\ \A a \in 1..Len(list) : g[a] = list[a]
        /\ g[Len(list) + 1] = n
    BY <1>3, <2>1 DEF WideTo
  <2> HIDE DEF g
  <2>3. \A a \in 1..Len(g) : a \in 1..Len(list) \/ a = Len(g)
    BY <1>3, <2>2
  <2>4. \A a \in 1..Len(list) : list[a] < n /\ Stays(list[a]) /\ list[a] \in Nat
    BY <1>2, <1>3 DEF WideTo
  <2>5. ASSUME NEW a \in 1..Len(g), NEW b \in 1..Len(g), a < b PROVE g[a] < g[b]
    <3>1. a \in 1..Len(list)
      BY <1>3, <2>2, <2>5
    <3>2. CASE b \in 1..Len(list)
      BY <2>2, <2>5, <3>1, <3>2 DEF WideTo
    <3>3. CASE b = Len(g)
      BY <2>2, <2>4, <3>1, <3>3
    <3> QED BY <2>3, <3>2, <3>3
  <2>6. ASSUME NEW a \in 1..Len(g) PROVE g[a] < n + 1 /\ Stays(g[a])
    <3>1. CASE a \in 1..Len(list)
      BY <1>1, <2>2, <2>4, <3>1
    <3>2. CASE a = Len(g)
      BY <1>1, <1>5, <2>2, <3>2
    <3> QED BY <2>3, <3>1, <3>2
  <2>7. ASSUME NEW i \in Ids, i < n + 1, Stays(i) PROVE \E a \in 1..Len(g) : g[a] = i
    <3>1. CASE i = n
      <4>1. Len(g) \in 1..Len(g)
        BY <1>3, <2>2
      <4> QED BY <2>2, <3>1, <4>1
    <3>2. CASE i < n
      <4>1. PICK a \in 1..Len(list) : list[a] = i
        BY <2>7, <3>2 DEF WideTo
      <4>2. a \in 1..Len(g)
        BY <1>3, <2>2
      <4> QED BY <2>2, <4>1, <4>2
    <3> QED BY <1>1, <2>7, <3>1, <3>2
  <2>8. WideTo(g, n + 1)
    BY <2>2, <2>5, <2>6, <2>7 DEF WideTo
  <2> QED BY <1>5, <2>8 DEF g
<1> QED BY <1>4, <1>5

WideIs(wide) ==
  wide = [n \in 0..Vocab |->
            IF n = 0 THEN <<>>
            ELSE IF Stays(n - 1) THEN Append(wide[n - 1], n - 1) ELSE wide[n - 1]]

LEMMA WideEnds ==
  ASSUME Given
  PROVE  WideTo(Wide, Vocab)
<1> DEFINE V == Seq(Ids)
           step == [x \in (1..Vocab) \X V |->
                      IF Stays(x[1] - 1) THEN Append(x[2], x[1] - 1) ELSE x[2]]
<1>1. Vocab \in Nat \ {0} /\ <<>> \in V /\ \A n \in 1..Vocab : n - 1 \in Ids
  BY SamplerConstants
<1>2. \A i \in 1..Vocab, v \in V :
        step[<<i, v>>] = IF Stays(i - 1) THEN Append(v, i - 1) ELSE v
  OBVIOUS
<1>3. \A i \in 1..Vocab, v \in V : step[<<i, v>>] \in V
  <2>1. \A i \in 1..Vocab, v \in V : Append(v, i - 1) \in V
    BY <1>1
  <2> QED BY <1>2, <2>1
<1> HIDE DEF step
<1>4. PICK f \in [0..Vocab -> V] : Steps(f, Vocab, <<>>, step)
  BY <1>1, <1>3, Recursion
<1>5. \A n \in 0..Vocab :
        f[n] = IF n = 0 THEN <<>>
               ELSE IF Stays(n - 1) THEN Append(f[n - 1], n - 1) ELSE f[n - 1]
  <2>1. f[0] = <<>>
    BY <1>4 DEF Steps
  <2>2. ASSUME NEW n \in 1..Vocab
        PROVE  f[n] = IF Stays(n - 1) THEN Append(f[n - 1], n - 1) ELSE f[n - 1]
    <3>1. n - 1 \in 0..Vocab /\ f[n - 1] \in V /\ f[n] = step[<<n, f[n - 1]>>]
      BY <1>1, <1>4 DEF Steps
    <3> QED BY <1>2, <3>1
  <2>3. \A n \in 0..Vocab : n = 0 \/ n \in 1..Vocab
    BY <1>1
  <2> QED BY <1>1, <2>1, <2>2, <2>3
<1>6. WideIs(f)
  <2>1. f = [n \in 0..Vocab |-> f[n]]
    BY <1>4
  <2> QED BY <1>5, <2>1 DEF WideIs
<1> DEFINE wide == CHOOSE w : WideIs(w)
<1>7. WideIs(wide)
  BY <1>6
<1>8. Wide = wide[Vocab]
  BY DEF Wide, WideIs
<1> HIDE DEF wide
<1>9. ASSUME NEW n \in 0..Vocab
      PROVE  wide[n] = IF n = 0 THEN <<>>
                       ELSE IF Stays(n - 1) THEN Append(wide[n - 1], n - 1) ELSE wide[n - 1]
  <2> DEFINE h == [m \in 0..Vocab |->
                     IF m = 0 THEN <<>>
                     ELSE IF Stays(m - 1) THEN Append(wide[m - 1], m - 1) ELSE wide[m - 1]]
  <2>1. h[n] = IF n = 0 THEN <<>>
                       ELSE IF Stays(n - 1) THEN Append(wide[n - 1], n - 1) ELSE wide[n - 1]
    OBVIOUS
  <2>2. wide = h
    BY <1>7, Zenon DEF WideIs
  <2> HIDE DEF h
  <2> QED BY <2>1, <2>2
<1> DEFINE P == {n \in Nat : n <= Vocab => WideTo(wide[n], n)}
<1>10. 0 \in P
  <2>1. wide[0] = <<>>
    BY <1>1, <1>9
  <2>2. \A i \in Ids : ~(i < 0)
    BY SamplerConstants
  <2>3. <<>> \in Seq(Candidates) /\ \A a \in 1..Len(<<>>) : FALSE
    OBVIOUS
  <2>4. WideTo(<<>>, 0)
    BY <2>2, <2>3 DEF WideTo
  <2> QED BY <2>1, <2>4
<1>11. ASSUME NEW n \in Nat, n \in P PROVE n + 1 \in P
  <2>1. SUFFICES ASSUME n + 1 <= Vocab PROVE WideTo(wide[n + 1], n + 1)
    OBVIOUS
  <2>2. WideTo(wide[n], n)
    BY <1>1, <1>11, <2>1
  <2>3. n + 1 \in 0..Vocab /\ n + 1 # 0 /\ (n + 1) - 1 = n /\ n \in Ids
    BY <2>1, SamplerConstants
  <2>4. wide[n + 1] = IF Stays(n) THEN Append(wide[n], n) ELSE wide[n]
    BY <1>9, <2>3
  <2> QED BY <2>2, <2>3, <2>4, WideNext
<1> HIDE DEF P
<1>12. Vocab \in P
  BY <1>1, <1>10, <1>11, Induct
<1>13. Vocab <= Vocab
  BY <1>1
<1> QED BY <1>8, <1>12, <1>13 DEF P

\* list is the best of the ids below n, the first best first; what it leaves
\* out comes after all of it, and it leaves out nothing while it has room.
TopTo(list, n) ==
  /\ list \in Seq(Candidates) /\ Len(list) <= Top
  /\ \A a, b \in 1..Len(list) : a < b => Precedes(list[a], list[b])
  /\ \A a \in 1..Len(list) : list[a] < n
  /\ \A i \in Candidates : i < n =>
       \/ \E a \in 1..Len(list) : list[a] = i
       \/ Len(list) = Top /\ \A a \in 1..Len(list) : Precedes(list[a], i)

LEMMA TopIs ==
  ASSUME Given, with.k > 0
  PROVE  /\ Top \in Nat \ {0} /\ Top <= Vocab /\ Top <= Least2(with.k, MaxTopK)
         /\ Top = Vocab \/ Top = Least2(with.k, MaxTopK)
         /\ Least2(with.k, MaxTopK) \in Nat
BY GivenRow, SamplerConstants DEF Top, Least2, MaxTopK

\* Where the insertion of i ends, while i is ahead of some place or there is room.
PlaceFor(list, i, p) ==
  /\ p \in 1..Least2(Len(list) + 1, Top)
  /\ p = 1 \/ logits[list[p - 1]] >= logits[i]
  /\ \A j \in p..Len(list) : logits[list[j]] < logits[i]

LEMMA PlaceExists ==
  ASSUME Given, with.k > 0, NEW n \in Candidates, NEW list, TopTo(list, n),
         Len(list) # Top \/ ~(logits[n] <= logits[list[Top]])
  PROVE  \E p : PlaceFor(list, n, p)
<1>1. Top \in Nat \ {0}
  BY TopIs
<1>2. Len(list) \in Nat /\ Len(list) <= Top /\ \A a \in 1..Len(list) : list[a] \in Candidates
  BY DEF TopTo
<1>3. logits[n] \in Nat /\ \A a \in 1..Len(list) : logits[list[a]] \in Nat
  BY <1>2, GivenRow
<1> DEFINE room == Least2(Len(list) + 1, Top)
           Q == {p \in 1..room : \A j \in p..Len(list) : logits[list[j]] < logits[n]}
<1>4. room \in 1..(Len(list) + 1) /\ (Len(list) # Top => room = Len(list) + 1)
      /\ (Len(list) = Top => room = Top)
  BY <1>1, <1>2 DEF Least2
<1>5. room \in Q
  <2>1. CASE Len(list) # Top
    <3>1. \A j \in room..Len(list) : FALSE
      BY <1>2, <1>4, <2>1
    <3> QED BY <1>4, <3>1
  <2>2. CASE Len(list) = Top
    <3>1. \A j \in room..Len(list) : j = Top
      BY <1>1, <1>4, <2>2
    <3>2. logits[list[Top]] < logits[n]
      <4>1. Top \in 1..Len(list)
        BY <1>1, <2>2
      <4> QED BY <1>3, <2>2, <4>1
    <3> QED BY <1>4, <3>1, <3>2
  <2> QED BY <2>1, <2>2
<1>6. Q \in SUBSET Nat
  OBVIOUS
<1> HIDE DEF room
<1>7. PICK p \in Q : \A w \in Q : p <= w
  <2> HIDE DEF Q
  <2> QED BY <1>5, <1>6, Least
<1>8. p \in 1..room /\ \A j \in p..Len(list) : logits[list[j]] < logits[n]
  BY <1>7
<1>9. ASSUME p # 1 PROVE logits[list[p - 1]] >= logits[n]
  <2>1. p - 1 \in 1..room /\ ~(p <= p - 1) /\ p - 1 \in 1..Len(list)
    BY <1>2, <1>4, <1>8, <1>9
  <2>2. p - 1 \notin Q
    BY <1>7, <2>1
  <2>3. PICK j \in (p - 1)..Len(list) : ~(logits[list[j]] < logits[n])
    BY <2>1, <2>2
  <2>4. j = p - 1
    <3>1. j = p - 1 \/ j \in p..Len(list)
      BY <1>2, <1>8, <2>1
    <3> QED BY <1>8, <2>3, <3>1
  <2> QED BY <1>3, <2>1, <2>3, <2>4
<1> QED BY <1>8, <1>9 DEF PlaceFor, room

\* The insertion, element by element.
LEMMA InsertedIs ==
  ASSUME Given, with.k > 0, NEW n \in Candidates, NEW list, TopTo(list, n),
         Len(list) # Top \/ ~(logits[n] <= logits[list[Top]])
  PROVE  \E p : /\ PlaceFor(list, n, p)
                /\ Inserted(list, n) =
                     [j \in 1..Least2(Len(list) + 1, Top) |->
                        IF j < p THEN list[j] ELSE IF j = p THEN n ELSE list[j - 1]]
<1> DEFINE room == Least2(Len(list) + 1, Top)
           p == CHOOSE q \in 1..room :
                 /\ q = 1 \/ logits[list[q - 1]] >= logits[n]
                 /\ \A j \in q..Len(list) : logits[list[j]] < logits[n]
<1>1. \E q \in 1..room :
         /\ q = 1 \/ logits[list[q - 1]] >= logits[n]
         /\ \A j \in q..Len(list) : logits[list[j]] < logits[n]
  BY PlaceExists DEF PlaceFor
<1>2. PlaceFor(list, n, p)
  BY <1>1 DEF PlaceFor
<1>3. Finite(n)
  BY DEF Candidates
<1>4. ~(~Finite(n) \/ (Len(list) = Top /\ logits[n] <= logits[list[Top]]))
  BY <1>3
<1>5. Inserted(list, n) =
        IF ~Finite(n) \/ (Len(list) = Top /\ logits[n] <= logits[list[Top]])
        THEN list
        ELSE [j \in 1..room |-> IF j < p THEN list[j] ELSE IF j = p THEN n ELSE list[j - 1]]
  BY Zenon DEF Inserted
<1> HIDE DEF p
<1> QED BY <1>2, <1>4, <1>5 DEF room

LEMMA InsertedTop ==
  ASSUME Given, with.k > 0, NEW n \in Candidates, NEW list, TopTo(list, n),
         Len(list) # Top \/ ~(logits[n] <= logits[list[Top]])
  PROVE  TopTo(Inserted(list, n), n + 1)
<1> DEFINE room == Least2(Len(list) + 1, Top)
           g == Inserted(list, n)
<1>1. PICK p : /\ PlaceFor(list, n, p)
               /\ g = [j \in 1..room |->
                         IF j < p THEN list[j] ELSE IF j = p THEN n ELSE list[j - 1]]
  BY InsertedIs
<1>2. Top \in Nat \ {0}
  BY TopIs
<1>3. Len(list) \in Nat /\ Len(list) <= Top /\ \A a \in 1..Len(list) : list[a] \in Candidates
  BY DEF TopTo
<1>4. n \in Nat /\ logits[n] \in Nat /\ Finite(n)
      /\ \A a \in 1..Len(list) :
           list[a] \in Nat /\ logits[list[a]] \in Nat /\ Finite(list[a])
  BY <1>3, GivenRow DEF Candidates
<1>5. room \in Nat \ {0} /\ room <= Top /\ room <= Len(list) + 1
      /\ (room = Len(list) + 1 \/ (room = Len(list) /\ room = Top))
  BY <1>2, <1>3 DEF Least2
<1>6. p \in 1..room /\ (p = 1 \/ logits[list[p - 1]] >= logits[n])
      /\ \A j \in p..Len(list) : logits[list[j]] < logits[n]
  BY <1>1 DEF PlaceFor
<1>7. ASSUME NEW j \in 1..room
      PROVE  /\ j < p => g[j] = list[j] /\ j \in 1..Len(list)
             /\ j = p => g[j] = n
             /\ j > p => g[j] = list[j - 1] /\ j - 1 \in 1..Len(list) /\ j - 1 \in p..Len(list)
  BY <1>1, <1>3, <1>5, <1>6
<1> HIDE DEF room
<1>8. g \in Seq(Candidates) /\ Len(g) = room
  <2>1. ASSUME NEW j \in 1..room
        PROVE  (IF j < p THEN list[j] ELSE IF j = p THEN n ELSE list[j - 1]) \in Candidates
    BY <1>3, <1>5, <1>6
  <2>2. g \in [1..room -> Candidates]
    BY <1>1, <2>1
  <2>3. g \in Seq(Candidates)
    BY <1>5, <2>2
  <2>4. DOMAIN g = 1..room /\ DOMAIN g = 1..Len(g) /\ Len(g) \in Nat
    BY <2>2, <2>3
  <2> HIDE DEF g
  <2> QED BY <1>5, <2>3, <2>4
<1> HIDE DEF g
<1>9. ASSUME NEW a \in 1..Len(list), a < p PROVE logits[list[a]] >= logits[n]
  <2>1. p # 1 /\ p - 1 \in 1..Len(list)
    BY <1>3, <1>5, <1>6, <1>9
  <2>2. a = p - 1 \/ (a < p - 1 /\ Precedes(list[a], list[p - 1]))
    <3>1. a = p - 1 \/ a < p - 1
      BY <1>6, <1>9
    <3> QED BY <2>1, <3>1 DEF TopTo
  <2>3. logits[list[a]] >= logits[list[p - 1]]
    BY <1>4, <2>1, <2>2 DEF Precedes
  <2> QED BY <1>4, <1>6, <2>1, <2>3
<1>10. \A a \in 1..Len(list) : a < p => Precedes(list[a], n)
  <2>1. \A a \in 1..Len(list) : list[a] < n
    BY DEF TopTo
  <2> QED BY <1>4, <1>9, <2>1 DEF Precedes
<1>11. \A a \in p..Len(list) : Precedes(n, list[a])
  <2>1. \A a \in p..Len(list) : a \in 1..Len(list)
    BY <1>6
  <2> QED BY <1>4, <1>6, <2>1 DEF Precedes
<1>12. ASSUME NEW a \in 1..room, NEW b \in 1..room, a < b PROVE Precedes(g[a], g[b])
  <2>1. CASE b < p
    <3>1. a < p
      BY <1>6, <1>12, <2>1
    <3> QED BY <1>7, <1>12, <2>1, <3>1 DEF TopTo
  <2>2. CASE b = p
    <3>1. a < p
      BY <1>12, <2>2
    <3> QED BY <1>7, <1>10, <2>2, <3>1
  <2>3. CASE b > p /\ a < p
    <3>1. /\ g[a] = list[a] /\ a \in 1..Len(list)
          /\ g[b] = list[b - 1] /\ b - 1 \in 1..Len(list) /\ a < b - 1
      BY <1>6, <1>7, <2>3
    <3> QED BY <3>1 DEF TopTo
  <2>4. CASE b > p /\ a = p
    BY <1>7, <1>11, <2>4
  <2>5. CASE b > p /\ a > p
    <3>1. /\ g[a] = list[a - 1] /\ a - 1 \in 1..Len(list)
          /\ g[b] = list[b - 1] /\ b - 1 \in 1..Len(list) /\ a - 1 < b - 1
      BY <1>7, <1>12, <2>5
    <3> QED BY <3>1 DEF TopTo
  <2> QED BY <1>6, <2>1, <2>2, <2>3, <2>4, <2>5
<1>13. \A a \in 1..room : g[a] = n \/ \E b \in 1..Len(list) : g[a] = list[b]
  BY <1>6, <1>7
<1>14. ASSUME NEW a \in 1..room PROVE g[a] < n + 1
  <2>1. \A b \in 1..Len(list) : list[b] < n
    BY DEF TopTo
  <2>2. CASE g[a] = n
    BY <1>4, <2>2
  <2>3. CASE g[a] # n
    <3>1. PICK b \in 1..Len(list) : g[a] = list[b]
      BY <1>13, <2>3
    <3> QED BY <1>4, <2>1, <3>1
  <2> QED BY <2>2, <2>3
<1>15. ASSUME NEW i \in Candidates, i < n + 1
       PROVE  \/ \E a \in 1..room : g[a] = i
              \/ room = Top /\ \A a \in 1..room : Precedes(g[a], i)
  <2>1. i \in Nat /\ logits[i] \in Nat /\ Finite(i)
    BY GivenRow DEF Candidates
  <2>2. CASE i = n
    BY <1>6, <1>7, <2>2
  <2>3. CASE i < n /\ \E a \in 1..Len(list) : list[a] = i
    <3>1. PICK a \in 1..Len(list) : list[a] = i
      BY <2>3
    <3>2. CASE a < p
      <4>1. a \in 1..room
        BY <1>5, <1>6, <3>2
      <4> QED BY <1>7, <3>1, <3>2, <4>1
    <3>3. CASE ~(a < p) /\ a + 1 <= room
      <4>1. a + 1 \in 1..room /\ a + 1 > p /\ (a + 1) - 1 = a
        BY <1>6, <3>3
      <4> QED BY <1>7, <3>1, <4>1
    <3>4. CASE ~(a < p) /\ ~(a + 1 <= room)
      <4>1. room = Top /\ a = Len(list) /\ room = Len(list) /\ a \in p..Len(list)
        BY <1>3, <1>5, <1>6, <3>4
      <4>2. ASSUME NEW b \in 1..room PROVE Precedes(g[b], i)
        <5>1. CASE b < p
          <6>1. g[b] = list[b] /\ b \in 1..Len(list) /\ b < a
            BY <1>6, <1>7, <3>4, <5>1
          <6> QED BY <3>1, <6>1 DEF TopTo
        <5>2. CASE b = p
          BY <1>7, <1>11, <3>1, <4>1, <5>2
        <5>3. CASE b > p
          <6>1. g[b] = list[b - 1] /\ b - 1 \in 1..Len(list) /\ b - 1 < a
            BY <1>7, <4>1, <5>3
          <6> QED BY <3>1, <6>1 DEF TopTo
        <5> QED BY <1>6, <5>1, <5>2, <5>3
      <4> QED BY <4>1, <4>2
    <3> QED BY <1>6, <3>2, <3>3, <3>4
  <2>4. CASE i < n /\ ~\E a \in 1..Len(list) : list[a] = i
    <3>1. Len(list) = Top /\ \A a \in 1..Len(list) : Precedes(list[a], i)
      BY <2>4 DEF TopTo
    <3>2. room = Top
      BY <1>2, <1>5, <3>1
    <3>3. Precedes(n, i)
      <4>1. ~(logits[n] <= logits[list[Top]]) /\ Top \in 1..Len(list)
        BY <1>2, <3>1
      <4>2. Precedes(list[Top], i)
        BY <3>1, <4>1
      <4> QED BY <1>4, <2>1, <4>1, <4>2 DEF Precedes
    <3>4. \A a \in 1..room : Precedes(g[a], i)
      BY <1>13, <3>1, <3>3
    <3> QED BY <3>2, <3>4
  <2> QED BY <1>4, <1>15, <2>1, <2>2, <2>3, <2>4
<1>16. TopTo(g, n + 1)
  BY <1>2, <1>5, <1>8, <1>12, <1>14, <1>15 DEF TopTo
<1> QED BY <1>16 DEF g

LEMMA TopNext ==
  ASSUME Given, with.k > 0, NEW n \in Ids, NEW list, TopTo(list, n)
  PROVE  TopTo(Inserted(list, n), n + 1)
<1>1. \A i \in Ids : i \in Nat
  BY SamplerConstants
<1>2. Top \in Nat \ {0}
  BY TopIs
<1>3. Len(list) \in Nat /\ \A a \in 1..Len(list) : list[a] \in Candidates /\ list[a] \in Nat
  BY GivenRow DEF TopTo
<1>4. \A a \in 1..Len(list) : list[a] < n + 1
  BY <1>1, <1>3 DEF TopTo
<1>5. CASE ~Finite(n)
  <2>1. Inserted(list, n) = list
    BY <1>5 DEF Inserted
  <2>2. \A i \in Candidates : i < n + 1 => i < n
    BY <1>1, <1>5 DEF Candidates
  <2> QED BY <1>4, <2>1, <2>2 DEF TopTo
<1>6. CASE Finite(n) /\ Len(list) = Top /\ logits[n] <= logits[list[Top]]
  <2>1. Inserted(list, n) = list
    BY <1>6 DEF Inserted
  <2>2. Top \in 1..Len(list) /\ n \in Candidates
    BY <1>2, <1>6 DEF Candidates
  <2>3. \A i \in Candidates : logits[i] \in Nat /\ i \in Nat /\ Finite(i)
    BY GivenRow DEF Candidates
  <2>4. ASSUME NEW a \in 1..Len(list) PROVE Precedes(list[a], n)
    <3>1. a = Top \/ Precedes(list[a], list[Top])
      BY <1>2, <1>6, <2>2 DEF TopTo
    <3>2. logits[list[a]] >= logits[list[Top]]
      BY <1>3, <2>2, <2>3, <3>1 DEF Precedes
    <3>3. list[a] < n
      BY DEF TopTo
    <3> QED BY <1>3, <1>6, <2>2, <2>3, <3>2, <3>3 DEF Precedes
  <2>5. \A i \in Candidates : i < n + 1 => i < n \/ i = n
    BY <1>1, <2>3
  <2>6. \A i \in Candidates : i < n + 1 =>
          \/ \E a \in 1..Len(list) : list[a] = i
          \/ Len(list) = Top /\ \A a \in 1..Len(list) : Precedes(list[a], i)
    BY <1>6, <2>4, <2>5 DEF TopTo
  <2> QED BY <1>4, <2>1, <2>6 DEF TopTo
<1>7. CASE Finite(n) /\ ~(Len(list) = Top /\ logits[n] <= logits[list[Top]])
  BY <1>7, InsertedTop DEF Candidates
<1> QED BY <1>5, <1>6, <1>7

TopmostIs(top) ==
  top = [n \in 0..Vocab |-> IF n = 0 THEN <<>> ELSE Inserted(top[n - 1], n - 1)]

LEMMA TopZero ==
  ASSUME Given, with.k > 0
  PROVE  TopTo(<<>>, 0)
<1>1. \A i \in Candidates : ~(i < 0)
  BY GivenRow
<1>2. <<>> \in Seq(Candidates) /\ Len(<<>>) = 0 /\ \A a \in 1..Len(<<>>) : FALSE
  OBVIOUS
<1>3. Len(<<>>) <= Top
  BY <1>2, TopIs
<1> QED BY <1>1, <1>2, <1>3 DEF TopTo

LEMMA TopInduct ==
  ASSUME Given, with.k > 0, NEW top, top[0] = <<>>,
         \A n \in 1..Vocab : TopTo(top[n - 1], n - 1) => top[n] = Inserted(top[n - 1], n - 1)
  PROVE  \A n \in 0..Vocab : TopTo(top[n], n)
<1> DEFINE P == {n \in Nat : n <= Vocab => TopTo(top[n], n)}
<1>1. 0 \in P
  BY TopZero
<1>2. ASSUME NEW n \in Nat, n \in P PROVE n + 1 \in P
  <2>1. SUFFICES ASSUME n + 1 <= Vocab PROVE TopTo(top[n + 1], n + 1)
    OBVIOUS
  <2>2. n <= Vocab /\ n \in Ids /\ n + 1 \in 1..Vocab /\ (n + 1) - 1 = n
    BY <2>1, SamplerConstants
  <2>3. TopTo(top[n], n)
    BY <1>2, <2>2
  <2>4. top[n + 1] = Inserted(top[n], n)
    BY <2>2, <2>3
  <2> QED BY <2>2, <2>3, <2>4, TopNext
<1> HIDE DEF P
<1>3. Nat \subseteq P
  BY <1>1, <1>2, Induct
<1>4. \A n \in 0..Vocab : n \in Nat /\ n <= Vocab
  BY SamplerConstants
<1> QED BY <1>3, <1>4 DEF P

LEMMA TopmostEnds ==
  ASSUME Given, with.k > 0
  PROVE  TopTo(Topmost, Vocab)
<1> DEFINE V == Seq(Ids)
           step == [x \in (1..Vocab) \X V |->
                      IF Inserted(x[2], x[1] - 1) \in V THEN Inserted(x[2], x[1] - 1)
                      ELSE <<>>]
<1>1. Vocab \in Nat \ {0} /\ <<>> \in V /\ \A n \in 1..Vocab : n - 1 \in Ids /\ (n - 1) + 1 = n
  BY SamplerConstants
<1>2. \A i \in 1..Vocab, v \in V :
        step[<<i, v>>] = IF Inserted(v, i - 1) \in V THEN Inserted(v, i - 1) ELSE <<>>
  OBVIOUS
<1>3. \A i \in 1..Vocab, v \in V : step[<<i, v>>] \in V
  BY <1>1, <1>2
<1> HIDE DEF step
<1>4. PICK f \in [0..Vocab -> V] : Steps(f, Vocab, <<>>, step)
  BY <1>1, <1>3, Recursion
<1>5. f[0] = <<>>
  BY <1>4 DEF Steps
<1>6. ASSUME NEW n \in 1..Vocab, TopTo(f[n - 1], n - 1)
      PROVE  f[n] = Inserted(f[n - 1], n - 1)
  <2>1. n - 1 \in 0..Vocab /\ f[n - 1] \in V /\ f[n] = step[<<n, f[n - 1]>>]
    BY <1>1, <1>4 DEF Steps
  <2>2. TopTo(Inserted(f[n - 1], n - 1), (n - 1) + 1)
    BY <1>1, <1>6, TopNext
  <2>3. Inserted(f[n - 1], n - 1) \in Seq(Candidates) /\ Candidates \subseteq Ids
    BY <2>2, GivenRow DEF TopTo
  <2>4. Inserted(f[n - 1], n - 1) \in V
    BY <2>3
  <2> QED BY <1>2, <2>1, <2>4
<1>7. \A n \in 0..Vocab : TopTo(f[n], n)
  BY <1>5, <1>6, TopInduct
<1>8. ASSUME NEW n \in 0..Vocab
      PROVE  f[n] = IF n = 0 THEN <<>> ELSE Inserted(f[n - 1], n - 1)
  <2>1. n # 0 => n \in 1..Vocab /\ n - 1 \in 0..Vocab
    BY <1>1
  <2> QED BY <1>5, <1>6, <1>7, <2>1
<1>9. TopmostIs(f)
  <2>1. f = [n \in 0..Vocab |-> f[n]]
    BY <1>4
  <2> QED BY <1>8, <2>1 DEF TopmostIs
<1> DEFINE top == CHOOSE t : TopmostIs(t)
<1>10. TopmostIs(top)
  BY <1>9
<1>11. Topmost = top[Vocab]
  BY DEF Topmost, TopmostIs
<1> HIDE DEF top
<1>12. ASSUME NEW n \in 0..Vocab
       PROVE  top[n] = IF n = 0 THEN <<>> ELSE Inserted(top[n - 1], n - 1)
  <2> DEFINE h == [m \in 0..Vocab |-> IF m = 0 THEN <<>> ELSE Inserted(top[m - 1], m - 1)]
  <2>1. h[n] = IF n = 0 THEN <<>> ELSE Inserted(top[n - 1], n - 1)
    OBVIOUS
  <2>2. top = h
    BY <1>10, Zenon DEF TopmostIs
  <2> HIDE DEF h
  <2> QED BY <2>1, <2>2
<1>13. 0 \in 0..Vocab /\ Vocab \in 0..Vocab /\ \A n \in 1..Vocab : n \in 0..Vocab /\ n # 0
  BY <1>1
<1>14. top[0] = <<>> /\ \A n \in 1..Vocab : top[n] = Inserted(top[n - 1], n - 1)
  BY <1>12, <1>13
<1>15. \A n \in 0..Vocab : TopTo(top[n], n)
  BY <1>14, TopInduct
<1> QED BY <1>11, <1>13, <1>15

LEMMA PrecedesOrder ==
  ASSUME Given, NEW i \in Candidates, NEW j \in Candidates
  PROVE  ~(Precedes(i, j) /\ Precedes(j, i))
<1>1. i \in Nat /\ j \in Nat /\ logits[i] \in Nat /\ logits[j] \in Nat
  BY GivenRow
<1> QED BY <1>1 DEF Precedes

LEMMA FrontSize ==
  ASSUME Given, NEW list, Listing(list), NEW n \in 0..Len(list)
  PROVE  IsFiniteSet(FirstOf(list, n)) /\ Cardinality(FirstOf(list, n)) = n
<1>1. n \in Nat /\ \A j \in 1..n : j \in 1..Len(list)
  BY DEF Listing
<1> DEFINE f == [j \in 1..n |-> list[j]]
<1>2. f \in Surjection(1..n, FirstOf(list, n))
  BY DEF Surjection, FirstOf
<1>3. f \in Injection(1..n, FirstOf(list, n))
  <2>1. f \in [1..n -> FirstOf(list, n)]
    BY DEF FirstOf
  <2>2. \A a, b \in 1..n : f[a] = f[b] => a = b
    BY <1>1 DEF Listing
  <2> HIDE DEF f
  <2> QED BY <2>1, <2>2 DEF Injection, IsInjective
<1>4. IsFiniteSet(1..n) /\ Cardinality(1..n) = n
  <2>1. 1 \in Int /\ n \in Int /\ (IF 1 > n THEN 0 ELSE n - 1 + 1) = n
    BY <1>1
  <2> QED BY <2>1, FS_Interval
<1> HIDE DEF f
<1> QED BY <1>2, <1>3, <1>4, FS_Surjection

\* The list of the k best is what the request considers.
LEMMA TopmostConsidered ==
  ASSUME Given, with.k > 0
  PROVE  /\ Listing(Topmost)
         /\ FirstOf(Topmost, Len(Topmost)) = Considered
         /\ \A a, b \in 1..Len(Topmost) : a < b => Precedes(Topmost[a], Topmost[b])
<1> DEFINE list == Topmost
<1>1. TopTo(list, Vocab)
  BY TopmostEnds
<1> HIDE DEF list
<1>2. /\ list \in Seq(Candidates) /\ Len(list) \in Nat
      /\ \A a \in 1..Len(list) : list[a] \in Candidates
      /\ \A a, b \in 1..Len(list) : a < b => Precedes(list[a], list[b])
  BY <1>1 DEF TopTo
<1>3. Listing(list)
  <2>1. ASSUME NEW a \in 1..Len(list), NEW b \in 1..Len(list), list[a] = list[b], a < b
        PROVE  FALSE
    <3>1. Precedes(list[a], list[b]) /\ Precedes(list[b], list[a])
      BY <1>2, <2>1
    <3> QED BY <1>2, <3>1, PrecedesOrder
  <2>2. \A a, b \in 1..Len(list) : a < b \/ a = b \/ b < a
    BY <1>2
  <2> QED BY <1>2, <2>1, <2>2 DEF Listing
<1>4. \A i \in Candidates : i < Vocab /\ i \in Ids /\ Finite(i)
  BY SamplerConstants DEF Candidates
<1>5. \A j \in Ids : \A i : Precedes(j, i) => j \in Candidates
  BY DEF Precedes, Candidates
<1> DEFINE before(i) == {j \in Ids : Precedes(j, i)}
<1>6. ASSUME NEW p \in 1..Len(list) PROVE list[p] \in Considered
  <2> DEFINE i == list[p]
  <2>1. i \in Candidates /\ i \in Ids /\ Finite(i)
    BY <1>2, <1>4
  <2>2. before(i) \subseteq FirstOf(list, p - 1)
    <3>1. SUFFICES ASSUME NEW j \in Ids, Precedes(j, i) PROVE j \in FirstOf(list, p - 1)
      OBVIOUS
    <3>2. j \in Candidates /\ j < Vocab
      BY <1>4, <1>5, <3>1
    <3>3. ~Precedes(i, j)
      BY <2>1, <3>1, <3>2, PrecedesOrder
    <3>4. PICK q \in 1..Len(list) : list[q] = j
      BY <1>1, <3>2, <3>3 DEF TopTo
    <3>5. q < p
      <4>1. q = p \/ p < q \/ q < p
        BY <1>2
      <4>2. ~(p < q)
        BY <1>2, <3>3, <3>4
      <4>3. q # p
        BY <2>1, <3>1, <3>4, PrecedesOrder
      <4> QED BY <4>1, <4>2, <4>3
    <3>6. q \in 1..(p - 1)
      BY <1>2, <3>5
    <3> QED BY <3>4, <3>6 DEF FirstOf
  <2>3. p - 1 \in 0..Len(list) /\ p <= Len(list) /\ Len(list) <= Top
    BY <1>1, <1>2 DEF TopTo
  <2>4. IsFiniteSet(FirstOf(list, p - 1)) /\ Cardinality(FirstOf(list, p - 1)) = p - 1
    BY <1>3, <2>3, FrontSize
  <2>5. Cardinality(before(i)) <= p - 1 /\ Cardinality(before(i)) \in Nat
    <3> HIDE DEF before
    <3>1. before(i) \in SUBSET FirstOf(list, p - 1)
      BY <2>2
    <3> QED BY <2>4, <3>1, FS_Subset, FS_CardinalityType
  <2>6. Cardinality(before(i)) < Least2(with.k, MaxTopK)
    <3> DEFINE c == Cardinality(before(i))
    <3>1. c \in Nat /\ c <= p - 1
      BY <2>5
    <3> HIDE DEF c
    <3>2. c < Least2(with.k, MaxTopK)
      BY <1>2, <2>3, <3>1, TopIs
    <3> QED BY <3>2 DEF c
  <2> QED BY <2>1, <2>6 DEF Considered
<1>7. ASSUME NEW i \in Considered, \A a \in 1..Len(list) : list[a] # i PROVE FALSE
  <2>1. i \in Candidates /\ i \in Ids /\ Cardinality(before(i)) < Least2(with.k, MaxTopK)
    BY <1>7 DEF Considered, Candidates
  <2>2. Len(list) = Top /\ \A a \in 1..Len(list) : Precedes(list[a], i)
    BY <1>1, <1>4, <1>7, <2>1 DEF TopTo
  <2>3. FirstOf(list, Top) \in SUBSET before(i)
    <3>1. \A a \in 1..Len(list) : list[a] \in Ids
      BY <1>2, <1>4
    <3> QED BY <2>2, <3>1 DEF FirstOf
  <2>4. Cardinality(FirstOf(list, Top)) = Top
    <3>1. Top \in 0..Len(list)
      BY <1>2, <2>2
    <3> QED BY <1>3, <3>1, FrontSize
  <2>5. before(i) \in SUBSET (Ids \ {i})
    <3>1. ~Precedes(i, i)
      BY <2>1, PrecedesOrder
    <3> QED BY <3>1
  <2>6. IsFiniteSet(Ids \ {i}) /\ Cardinality(Ids \ {i}) = Vocab - 1
    <3>1. IsFiniteSet(Ids) /\ Cardinality(Ids) = Vocab
      BY SamplerConstants
    <3>2. /\ IsFiniteSet(Ids \ {i})
          /\ Cardinality(Ids \ {i}) =
               IF i \in Ids THEN Cardinality(Ids) - 1 ELSE Cardinality(Ids)
      BY <3>1, FS_RemoveElement
    <3> QED BY <2>1, <3>1, <3>2
  <2> HIDE DEF before
  <2>7. IsFiniteSet(before(i)) /\ Cardinality(before(i)) <= Vocab - 1
        /\ Cardinality(before(i)) \in Nat
    BY <2>5, <2>6, FS_Subset, FS_CardinalityType
  <2>8. Top <= Cardinality(before(i))
    BY <2>3, <2>4, <2>7, FS_Subset
  <2> DEFINE c == Cardinality(before(i))
  <2>9. c \in Nat /\ Top <= c /\ c <= Vocab - 1 /\ c < Least2(with.k, MaxTopK)
    BY <2>1, <2>7, <2>8
  <2> HIDE DEF c
  <2> QED BY <2>9, TopIs, SamplerConstants
<1>8. FirstOf(list, Len(list)) = Considered
  <2>1. \A i : i \in FirstOf(list, Len(list)) <=> \E a \in 1..Len(list) : list[a] = i
    BY DEF FirstOf
  <2> QED BY <1>6, <1>7, <2>1
<1> QED BY <1>2, <1>3, <1>8 DEF list

-----------------------------------------------------------------------------
(* What is left to draw from.                                              *)

\* A list whose tokens the settings of the request leave.
Drawable(list) ==
  /\ Listing(list) /\ list # <<>> /\ Total(list) \in Nat /\ Total(list) > 0
  /\ \A j \in 1..Len(list) : list[j] \in Nucleus

LEMMA TotalPositive ==
  ASSUME Given, ~NoneFinite, NEW list, Listing(list),
         NEW a \in 1..Len(list), logits[list[a]] = MaxLogit
  PROVE  list # <<>> /\ Total(list) \in Nat /\ Total(list) > 0
<1>1. /\ Len(list) \in Nat /\ a \in 0..Len(list) /\ a - 1 \in 0..Len(list)
      /\ Len(list) \in 0..Len(list) /\ a <= Len(list) /\ list # <<>>
  BY DEF Listing
<1>2. list[a] \in Candidates
  BY UptoIs
<1>3. Weight(list[a]) = Falloff[1] /\ Falloff[1] \in Nat \ {0}
  BY <1>2, WeightIs, SamplerConstants
<1>4. /\ Upto(list, a) = Upto(list, a - 1) + Weight(list[a])
      /\ Upto(list, a - 1) \in Nat /\ Upto(list, a) <= Upto(list, Len(list))
      /\ Upto(list, Len(list)) \in Nat
  BY <1>1, UptoIs
<1>5. Total(list) = Upto(list, Len(list))
  BY DEF Total
<1> QED BY <1>1, <1>3, <1>4, <1>5

\* A sorted list of what the request considers, the largest logit in front.
InOrder(list) ==
  /\ Listing(list) /\ list # <<>> /\ logits[list[1]] = MaxLogit
  /\ \A a, b \in 1..Len(list) : a < b => logits[list[a]] >= logits[list[b]]
  /\ FirstOf(list, Len(list)) = Considered

LEMMA CutDrawable ==
  ASSUME Given, ~NoneFinite, NEW list, InOrder(list)
  PROVE  Drawable(Cut(list))
<1>1. Listing(list) /\ Len(list) \in Nat \ {0}
  BY DEF InOrder, Listing
<1>2. PICK m : CutAt(list, m)
  BY <1>1, CutIs
<1>3. m \in 1..Len(list) /\ Cut(list) = SubSeq(list, 1, m)
  BY <1>2 DEF CutAt
<1>4. Listing(Cut(list)) /\ Len(Cut(list)) = m /\ \A j \in 1..m : Cut(list)[j] = list[j]
  BY <1>1, <1>3, PrefixIs
<1>5. 1 \in 1..Len(Cut(list)) /\ logits[Cut(list)[1]] = MaxLogit
  BY <1>3, <1>4 DEF InOrder
<1>6. Cut(list) # <<>> /\ Total(Cut(list)) \in Nat /\ Total(Cut(list)) > 0
  BY <1>4, <1>5, TotalPositive
<1>7. \A a \in 1..Len(list) : list[a] \in Considered /\ list[a] \in Candidates
                              /\ logits[list[a]] \in Nat /\ Weight(list[a]) \in Nat
  <2>1. \A a \in 1..Len(list) : list[a] \in FirstOf(list, Len(list))
    BY DEF FirstOf
  <2>2. \A a \in 1..Len(list) : list[a] \in Candidates /\ Weight(list[a]) \in Nat
    BY <1>1, UptoIs
  <2> QED BY <2>1, <2>2, GivenRow DEF InOrder
<1>8. Considered \in SUBSET Candidates
  BY DEF Considered, Candidates
<1>9. 1 \in 1..Len(list) /\ logits[list[1]] = MaxLogit /\ Weight(list[1]) = Falloff[1]
  BY <1>1, <1>7, WeightIs DEF InOrder
<1>10. Total(list) = Mass(Considered) /\ Total(list) \in Nat /\ Total(list) > 0
  <2>1. Total(list) = Mass(FirstOf(list, Len(list)))
    BY DEF Total, Upto, FirstOf
  <2> QED BY <1>1, <1>9, <2>1, TotalPositive DEF InOrder
<1>11. TopP \in Nat \ {0} /\ MinP \in Nat /\ MinP <= Scale /\ Scale \in Nat \ {0}
       /\ Falloff[1] \in Nat \ {0}
  BY GivenRow, SamplerConstants
<1> DEFINE better(i) == {j \in Considered : logits[j] > logits[i]}
<1>12. ASSUME NEW j \in 1..m
       PROVE  /\ Weight(list[j]) * Scale >= MinP * Falloff[1]
              /\ Mass(better(list[j])) * Scale < TopP * Mass(Considered)
  <2>1. CASE j = 1
    <3>1. better(list[1]) = {}
      <4>1. \A i \in Considered : logits[i] \in Nat /\ logits[i] <= MaxLogit
        BY <1>8, GivenRow, LargestLogit
      <4>2. MaxLogit \in Nat
        BY LargestLogit
      <4> QED BY <1>9, <4>1, <4>2
    <3>2. Mass(better(list[1])) = 0
      BY <3>1, MassOfNone
    <3>3. TopP * Total(list) > 0 /\ 0 * Scale = 0
      BY <1>10, <1>11
    <3>4. MinP * Falloff[1] <= Scale * Falloff[1] /\ Scale * Falloff[1] = Falloff[1] * Scale
      BY <1>11, TimesMonotone
    <3>5. MinP * Falloff[1] \in Nat /\ Falloff[1] * Scale \in Nat
      BY <1>11
    <3> HIDE DEF better
    <3> QED BY <1>9, <1>10, <2>1, <3>2, <3>3, <3>4, <3>5
  <2>2. CASE j # 1
    <3>1. j \in 2..m /\ j - 1 \in 0..Len(list) /\ j \in 1..Len(list)
      BY <1>3, <2>2
    <3>2. /\ ~(Weight(list[j]) * Scale < MinP * Weight(list[1]))
          /\ ~(Upto(list, j - 1) * Scale >= TopP * Total(list))
      BY <1>2, <3>1 DEF CutAt
    <3>3. Weight(list[j]) * Scale \in Nat /\ MinP * Falloff[1] \in Nat
      BY <1>7, <1>11, <3>1
    <3>4. Weight(list[j]) * Scale >= MinP * Falloff[1]
      BY <1>9, <3>2, <3>3
    <3>5. better(list[j]) \in SUBSET FirstOf(list, j - 1)
      <4>1. SUFFICES ASSUME NEW i \in Considered, logits[i] > logits[list[j]]
                     PROVE  i \in FirstOf(list, j - 1)
        OBVIOUS
      <4>2. i \in FirstOf(list, Len(list))
        BY <4>1 DEF InOrder
      <4>3. PICK a \in 1..Len(list) : list[a] = i
        BY <4>2 DEF FirstOf
      <4>4. ~(j < a) /\ j # a
        <5>1. j < a => logits[list[j]] >= logits[list[a]]
          BY <3>1 DEF InOrder
        <5> QED BY <1>7, <3>1, <4>1, <4>3, <5>1
      <4>5. a \in 1..(j - 1)
        BY <1>1, <3>1, <4>4
      <4> QED BY <4>3, <4>5 DEF FirstOf
    <3>6. Mass(FirstOf(list, j - 1)) = Upto(list, j - 1) /\ Upto(list, j - 1) \in Nat
      <4>1. Upto(list, j - 1) = Mass(FirstOf(list, j - 1))
        BY DEF Upto, FirstOf
      <4>2. Upto(list, j - 1) \in Nat
        BY <1>1, <3>1, UptoIs
      <4> QED BY <4>1, <4>2
    <3>7. FirstOf(list, j - 1) \in SUBSET Candidates
      <4>1. \A a \in 1..(j - 1) : a \in 1..Len(list)
        BY <1>1, <3>1
      <4> QED BY <1>7, <4>1 DEF FirstOf
    <3> HIDE DEF better
    <3>8. Mass(better(list[j])) <= Upto(list, j - 1) /\ Mass(better(list[j])) \in Nat
      <4>1. better(list[j]) \in SUBSET Candidates
        BY <3>5, <3>7
      <4> QED BY <3>5, <3>6, <3>7, <4>1, MassMonotone, MassIs
    <3>9. Mass(better(list[j])) * Scale <= Upto(list, j - 1) * Scale
      BY <1>11, <3>6, <3>8, TimesMonotone
    <3>10. /\ Mass(better(list[j])) * Scale \in Nat /\ Upto(list, j - 1) * Scale \in Nat
           /\ TopP * Total(list) \in Nat
      BY <1>10, <1>11, <3>6, <3>8
    <3>11. Mass(better(list[j])) * Scale < TopP * Mass(Considered)
      BY <1>10, <3>2, <3>9, <3>10
    <3> QED BY <3>4, <3>11
  <2> QED BY <2>1, <2>2
<1>13. ASSUME NEW j \in 1..m PROVE Cut(list)[j] \in Nucleus
  <2>1. Cut(list)[j] = list[j] /\ list[j] \in Considered
    BY <1>3, <1>4, <1>7
  <2> QED BY <1>12, <2>1 DEF Nucleus
<1> QED BY <1>4, <1>6, <1>13 DEF Drawable

LEMMA TopmostSorted ==
  ASSUME Given, ~NoneFinite, with.k > 0
  PROVE  InOrder(Topmost)
<1> DEFINE list == Topmost
<1>1. /\ Listing(list) /\ FirstOf(list, Len(list)) = Considered
      /\ \A a, b \in 1..Len(list) : a < b => Precedes(list[a], list[b])
      /\ TopTo(list, Vocab)
  BY TopmostConsidered, TopmostEnds
<1> HIDE DEF list
<1>2. Len(list) \in Nat /\ \A a \in 1..Len(list) : list[a] \in Candidates
  BY <1>1 DEF Listing
<1>3. \A i \in Candidates : logits[i] \in Nat /\ i \in Nat /\ i < Vocab
  BY GivenRow, SamplerConstants
<1>4. \A a, b \in 1..Len(list) : a < b => logits[list[a]] >= logits[list[b]]
  BY <1>1, <1>2, <1>3 DEF Precedes
<1>5. PICK m \in Candidates : logits[m] = MaxLogit
  BY LargestLogit
<1>6. Len(list) # 0 /\ logits[list[1]] >= MaxLogit
  <2>1. CASE \E a \in 1..Len(list) : list[a] = m
    <3>1. PICK a \in 1..Len(list) : list[a] = m
      BY <2>1
    <3>2. a = 1 \/ 1 < a
      BY <1>2
    <3>3. 1 \in 1..Len(list)
      BY <1>2
    <3> QED BY <1>2, <1>3, <1>4, <1>5, <3>1, <3>2, <3>3
  <2>2. CASE Len(list) = Top /\ \A a \in 1..Len(list) : Precedes(list[a], m)
    <3>1. Len(list) # 0 /\ 1 \in 1..Len(list)
      BY <1>2, <2>2, TopIs
    <3>2. Precedes(list[1], m)
      BY <2>2, <3>1
    <3> QED BY <1>2, <1>3, <1>5, <3>1, <3>2 DEF Precedes
  <2> QED BY <1>1, <1>3, <1>5, <2>1, <2>2 DEF TopTo
<1>7. logits[list[1]] = MaxLogit
  <2>1. list[1] \in Candidates
    BY <1>2, <1>6
  <2>2. logits[list[1]] <= MaxLogit /\ MaxLogit \in Nat /\ logits[list[1]] \in Nat
    BY <1>3, <2>1, LargestLogit
  <2> QED BY <1>6, <2>2
<1>8. list # <<>>
  BY <1>6
<1>9. InOrder(list)
  BY <1>1, <1>4, <1>7, <1>8 DEF InOrder
<1> QED BY <1>9 DEF list

LEMMA ConsideredAll ==
  ASSUME Given, with.k <= 0
  PROVE  Considered = Candidates
<1>1. ~(with.k > 0)
  BY GivenRow
<1> QED BY <1>1 DEF Considered, Candidates

LEMMA QsortSorted ==
  ASSUME Given, ~NoneFinite, with.k <= 0, sorted \in Orders
  PROVE  InOrder(sorted)
<1> DEFINE n == Cardinality(Candidates)
<1>1. n \in Nat
  BY GivenRow, FS_CardinalityType
<1>2. /\ sorted \in [1..n -> Candidates]
      /\ \A i \in Candidates : \E a \in DOMAIN sorted : sorted[a] = i
      /\ \A a, b \in DOMAIN sorted :
           a < b => sorted[a] # sorted[b] /\ logits[sorted[a]] >= logits[sorted[b]]
  BY DEF Orders, Candidates
<1> HIDE DEF n
<1>3. sorted \in Seq(Candidates) /\ Len(sorted) = n /\ DOMAIN sorted = 1..n
  BY <1>1, <1>2
<1>4. \A a, b \in 1..Len(sorted) : a < b \/ a = b \/ b < a
  BY <1>1, <1>3
<1>5. Listing(sorted)
  BY <1>2, <1>3, <1>4 DEF Listing
<1>6. FirstOf(sorted, Len(sorted)) = Considered
  <2>1. FirstOf(sorted, Len(sorted)) = Candidates
    BY <1>2, <1>3 DEF FirstOf
  <2> QED BY <2>1, ConsideredAll
<1>7. PICK m \in Candidates : logits[m] = MaxLogit
  BY LargestLogit
<1>8. PICK a \in 1..n : sorted[a] = m
  BY <1>2, <1>3, <1>7
<1>9. 1 \in 1..n /\ sorted[1] \in Candidates /\ (a = 1 \/ 1 < a)
  BY <1>1, <1>2, <1>8
<1>10. logits[sorted[1]] = MaxLogit
  <2>1. /\ logits[sorted[1]] \in Nat /\ MaxLogit \in Nat /\ logits[sorted[1]] <= MaxLogit
    BY <1>9, GivenRow, LargestLogit
  <2>2. a = 1 \/ logits[sorted[1]] >= MaxLogit
    BY <1>2, <1>3, <1>7, <1>8, <1>9
  <2> QED BY <1>7, <1>8, <2>1, <2>2
<1>11. sorted # <<>>
  BY <1>1, <1>3, <1>9
<1>12. \A b, c \in 1..Len(sorted) : b < c => logits[sorted[b]] >= logits[sorted[c]]
  BY <1>2, <1>3
<1> QED BY <1>5, <1>6, <1>10, <1>11, <1>12 DEF InOrder

LEMMA WideDrawable ==
  ASSUME Given, ~NoneFinite, with.k <= 0, TopP = Scale
  PROVE  Drawable(Wide)
<1> DEFINE list == Wide
<1>1. WideTo(list, Vocab)
  BY WideEnds
<1> HIDE DEF list
<1>2. Len(list) \in Nat /\ \A a \in 1..Len(list) : list[a] \in Candidates
  BY <1>1 DEF WideTo
<1>3. Listing(list)
  <2>1. \A a \in 1..Len(list) : list[a] \in Nat
    BY <1>2, GivenRow
  <2>2. ASSUME NEW a \in 1..Len(list), NEW b \in 1..Len(list), list[a] = list[b] PROVE a = b
    <3>1. a < b => list[a] < list[b]
      BY <1>1 DEF WideTo
    <3>2. b < a => list[b] < list[a]
      BY <1>1 DEF WideTo
    <3> QED BY <1>2, <2>1, <2>2, <3>1, <3>2
  <2> QED BY <1>1, <2>2 DEF Listing, WideTo
<1>4. PICK m \in Candidates : logits[m] = MaxLogit
  BY LargestLogit
<1>5. Stays(m)
  <2>1. Weight(m) = Falloff[1] /\ Finite(m)
    BY <1>4, WeightIs DEF Candidates
  <2>2. MinP \in Nat /\ MinP <= Scale /\ Scale \in Nat /\ Falloff[1] \in Nat
    BY GivenRow, SamplerConstants
  <2>3. MinP * Falloff[1] <= Scale * Falloff[1] /\ Scale * Falloff[1] = Falloff[1] * Scale
        /\ MinP * Falloff[1] \in Nat /\ Falloff[1] * Scale \in Nat
    BY <2>2, TimesMonotone
  <2> QED BY <2>1, <2>3 DEF Stays
<1>6. PICK a \in 1..Len(list) : list[a] = m
  <2>1. m \in Ids /\ m < Vocab
    BY GivenRow, SamplerConstants
  <2> QED BY <1>1, <1>5, <2>1 DEF WideTo
<1>7. list # <<>> /\ Total(list) \in Nat /\ Total(list) > 0
  BY <1>3, <1>4, <1>6, TotalPositive
<1>8. \A j \in 1..Len(list) : list[j] \in Nucleus
  BY <1>1, <1>2, ConsideredAll DEF Nucleus, WideTo, Stays
<1> QED BY <1>3, <1>7, <1>8 DEF Drawable, list

LEMMA KeptDrawable ==
  ASSUME Given, with.random, ~NoneFinite, Sorts => sorted \in Orders
  PROVE  Drawable(Kept)
<1>1. with.k \in Int
  BY GivenRow
<1>2. CASE Sorts
  <2>1. with.k <= 0
    BY <1>2 DEF Sorts
  <2> QED BY <1>2, <2>1, QsortSorted, CutDrawable DEF Kept
<1>3. CASE ~Sorts /\ with.k <= 0
  <2>1. TopP = Scale
    BY <1>3 DEF Sorts
  <2> QED BY <1>3, <2>1, WideDrawable DEF Kept
<1>4. CASE ~Sorts /\ ~(with.k <= 0)
  <2>1. with.k > 0
    BY <1>1, <1>4
  <2> QED BY <1>4, <2>1, TopmostSorted, CutDrawable DEF Kept
<1> QED BY <1>2, <1>3, <1>4

-----------------------------------------------------------------------------
(* The theorem.                                                            *)

SamplingInv ==
  /\ with \in [random : BOOLEAN, k : TopKs, p : TopPs, m : MinPs]
  /\ logits = <<>> \/ logits \in [Ids -> Logits \cup {Nan, MinusInf, PlusInf}]
  /\ sorted = <<>> \/ (logits # <<>> /\ sorted \in Orders)

LEMMA SamplingInductive == SamplingSpec => []SamplingInv
<1>1. SamplingInit => SamplingInv
  BY DEF SamplingInit, SamplingInv
<1>2. ASSUME SamplingInv, [SamplingNext]_samplingVars PROVE SamplingInv'
  <2>1. CASE LogitRow
    <3>1. sorted = <<>> /\ sorted' = sorted /\ with' = with
      BY <1>2, <2>1 DEF LogitRow, SamplingInv
    <3> QED BY <1>2, <2>1, <3>1 DEF LogitRow, SamplingInv
  <2>2. CASE Sort
    <3>1. with' = with /\ logits' = logits /\ logits # <<>> /\ sorted' \in Orders
      BY <2>2 DEF Sort
    <3>2. Orders' = Orders
      BY <3>1 DEF Orders, Finite
    <3> QED BY <1>2, <3>1, <3>2 DEF SamplingInv
  <2>3. CASE UNCHANGED samplingVars
    <3>1. with' = with /\ logits' = logits /\ sorted' = sorted
      BY <2>3 DEF samplingVars
    <3>2. Orders' = Orders
      BY <3>1 DEF Orders, Finite
    <3> QED BY <1>2, <3>1, <3>2 DEF SamplingInv
  <2> QED BY <1>2, <2>1, <2>2, <2>3 DEF SamplingNext
<1> QED BY <1>1, <1>2, PTL DEF SamplingSpec

LEMMA ReadyGiven ==
  ASSUME SamplingInv, Ready
  PROVE  Given /\ (Sorts => sorted \in Orders)
BY DEF SamplingInv, Ready, Given

LEMMA InNucleus ==
  ASSUME SamplingInv
  PROVE  SampledInNucleus
<1>1. SUFFICES ASSUME Ready, NEW draw \in 0..(Draws - 1)
               PROVE  Token(draw) \in
                        IF NoneFinite THEN Ids
                        ELSE IF with.random THEN Nucleus
                        ELSE IF logits[0] = Nan THEN {0} ELSE Greedy
  BY DEF SampledInNucleus
<1>2. Given /\ (Sorts => sorted \in Orders)
  BY <1>1, ReadyGiven
<1>3. CASE ~with.random \/ NoneFinite
  <2>1. Token(draw) = Argmax
    BY <1>3 DEF Token
  <2> QED BY <1>2, <1>3, <2>1, ArgmaxIs
<1>4. CASE with.random /\ ~NoneFinite
  <2>1. Drawable(Kept)
    BY <1>2, <1>4, KeptDrawable
  <2> DEFINE fb == IF with.k <= 0 /\ TopP = Scale THEN FirstBest ELSE Kept[Len(Kept)]
  <2>2. Token(draw) = Taken(Kept, draw, fb)
    BY <1>4 DEF Token
  <2> HIDE DEF fb
  <2>3. \E p \in 1..Len(Kept) : Taken(Kept, draw, fb) = Kept[p]
    BY <1>2, <1>4, <2>1, TakenIs DEF Drawable
  <2> QED BY <1>4, <2>1, <2>2, <2>3 DEF Drawable
<1> QED BY <1>3, <1>4

LEMMA ByWeight ==
  ASSUME SamplingInv
  PROVE  SharesMatchWeights
<1>1. SUFFICES ASSUME Ready, with.random, ~NoneFinite,
                      NEW p \in 1..Len(Kept)
               PROVE  LET sum == Mass({Kept[j] : j \in 1..Len(Kept)})
                          given == [d \in 0..(Draws - 1) |-> Token(d)]
                          n == Cardinality({d \in 0..(Draws - 1) : given[d] = Kept[p]})
                          gap == n * sum - Weight(Kept[p]) * Draws
                      IN  -sum <= gap /\ gap <= sum
  BY DEF SharesMatchWeights
<1>2. Given /\ (Sorts => sorted \in Orders)
  BY <1>1, ReadyGiven
<1>3. Drawable(Kept)
  BY <1>1, <1>2, KeptDrawable
<1> DEFINE sum == Mass({Kept[j] : j \in 1..Len(Kept)})
           given == [d \in 0..(Draws - 1) |-> Token(d)]
           D == {d \in 0..(Draws - 1) : given[d] = Kept[p]}
           fb == IF with.k <= 0 /\ TopP = Scale THEN FirstBest ELSE Kept[Len(Kept)]
<1>4. sum = Total(Kept)
  BY DEF Total, Upto
<1>5. \A d \in 0..(Draws - 1) : given[d] = Taken(Kept, d, fb)
  BY <1>1 DEF Token
<1> HIDE DEF fb, given
<1>6. ASSUME NEW d \in 0..(Draws - 1) PROVE given[d] = Kept[p] <=> TakesPlace(Kept, d, p)
  <2>1. Taken(Kept, d, fb) = Kept[p] <=> TakesPlace(Kept, d, p)
    BY <1>1, <1>2, <1>3, TakenIs DEF Drawable
  <2> QED BY <1>5, <2>1
<1>7. D = {d \in 0..(Draws - 1) : TakesPlace(Kept, d, p)}
  BY <1>6
<1> HIDE DEF D, sum
<1>8. LET gap == Cardinality(D) * Total(Kept) - Weight(Kept[p]) * Draws
      IN  -Total(Kept) <= gap /\ gap <= Total(Kept)
  BY <1>1, <1>2, <1>3, <1>7, PlaceShare DEF Drawable
<1> QED BY <1>4, <1>8 DEF D, given, sum

\* For any vocabulary, logits, settings, temperature and resolution of the
\* generator: a token is from the nucleus the request describes, and over all
\* draws each token comes as often as its weight says, to within one draw.
THEOREM SamplingCorrect == SamplingSpec => []SampledAsWeighed
<1>1. SamplingInv => SampledAsWeighed
  BY InNucleus, ByWeight DEF SampledAsWeighed
<1> QED BY <1>1, SamplingInductive, PTL
=============================================================================
