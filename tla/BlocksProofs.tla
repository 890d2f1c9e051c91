------------------------------ MODULE BlocksProofs ------------------------------
(* Proofs about the reductions of a thread block: whatever order the warps   *)
(* run in, every kernel but the layer norm ends with what the CPU computes.  *)
(* The invariant gives every entry of the shared array a value from the time *)
(* it is written until another warp may overwrite it: after level i of the   *)
(* tree, entry t holds the reduction of the columns t, t + stride, ...       *)
EXTENDS Blocks, SequenceTheorems, WellFoundedInduction, TLAPS

-----------------------------------------------------------------------------
(* Numbers.                                                                *)

\* A nonempty set of naturals has a smallest element.
LEMMA Least ==
  ASSUME NEW S, S \subseteq Nat, S # {}
  PROVE  \E m \in S : \A x \in S : m <= x
<1>1. IsWellFoundedOn(OpToRel(<, Nat), Nat)
  BY NatLessThanWellFounded
<1>2. PICK m \in S : \A y \in S : ~(<<y, m>> \in OpToRel(<, Nat))
  BY <1>1, WFMin
<1>3. \A y \in S : y \in Nat /\ m \in Nat /\ ~(y < m)
  BY <1>2 DEF OpToRel
<1> QED BY <1>3

\* A set of naturals that holds zero and every successor holds them all.
LEMMA Induct ==
  ASSUME NEW P, 0 \in P, \A n \in Nat : n \in P => n + 1 \in P
  PROVE  Nat \subseteq P
<1> DEFINE V == Nat \ P
<1>1. SUFFICES ASSUME V # {} PROVE FALSE
  OBVIOUS
<1>2. PICK v \in V : \A w \in V : v <= w
  BY <1>1, Least
<1>3. v # 0 /\ v \in Nat /\ v \notin P
  OBVIOUS
<1>4. v - 1 \in Nat /\ v - 1 \notin V
  BY <1>2, <1>3
<1> QED BY <1>3, <1>4

\* Quotient and remainder are unique.
LEMMA Division ==
  ASSUME NEW n \in Nat, NEW d \in Nat \ {0}
  PROVE  /\ n \div d \in Nat /\ n % d \in 0..(d - 1) /\ n = d * (n \div d) + (n % d)
         /\ \A q \in Nat, r \in 0..(d - 1) : n = d * q + r => n \div d = q /\ n % d = r
<1>1. n \div d \in Nat /\ n % d \in 0..(d - 1) /\ n = d * (n \div d) + (n % d)
  OBVIOUS
<1>2. ASSUME NEW q \in Nat, NEW r \in 0..(d - 1), n = d * q + r
      PROVE  n \div d = q /\ n % d = r
  <2> DEFINE p == n \div d
             s == n % d
  <2>1. d * q + r = d * p + s /\ p \in Nat /\ s \in 0..(d - 1)
    BY <1>1, <1>2
  <2>2. d * (q - p) = s - r
    BY <2>1
  <2>3. ~(q >= p + 1)
    <3>1. SUFFICES ASSUME q - p >= 1 PROVE FALSE
      BY <2>1
    <3>2. d * (q - p) >= d
      BY <3>1, <2>1
    <3> QED BY <3>2, <2>2, <2>1
  <2>4. ~(p >= q + 1)
    <3>1. SUFFICES ASSUME p - q >= 1 PROVE FALSE
      BY <2>1
    <3>2. d * (p - q) >= d
      BY <3>1, <2>1
    <3>3. d * (p - q) = r - s
      BY <2>1
    <3> QED BY <3>2, <3>3, <2>1
  <2>5. p = q
    BY <2>3, <2>4, <2>1
  <2> QED BY <2>5, <2>1
<1> QED BY <1>1, <1>2

\* Half as many columns: each is two of the columns there were.
LEMMA Halved ==
  ASSUME NEW u \in Nat, NEW h \in Nat \ {0}
  PROVE  u % (2 * h) = u % h \/ u % (2 * h) = (u % h) + h
<1> DEFINE d == 2 * h
           q == u \div d
           r == u % d
<1>1. q \in Nat /\ r \in 0..(d - 1) /\ u = d * q + r
  <2>1. d \in Nat \ {0}
    OBVIOUS
  <2> HIDE DEF d
  <2> QED BY <2>1, Division
<1>2. CASE r < h
  <2>1. u = h * (2 * q) + r /\ 2 * q \in Nat /\ r \in 0..(h - 1)
    BY <1>1, <1>2
  <2> DEFINE p == 2 * q
  <2> HIDE DEF q, r, p
  <2>2. u = h * p + r /\ p \in Nat /\ r \in 0..(h - 1)
    BY <2>1 DEF p
  <2>3. u % h = r
    BY <2>2, Division
  <2> QED BY <2>3 DEF r
<1>3. CASE r >= h
  <2>1. u = h * (2 * q + 1) + (r - h) /\ 2 * q + 1 \in Nat /\ r - h \in 0..(h - 1)
    BY <1>1, <1>3
  <2> DEFINE p == 2 * q + 1
             s == r - h
  <2>2. r = s + h /\ r \in Nat
    BY <1>1
  <2> HIDE DEF q, r, p, s
  <2>3. u = h * p + s /\ p \in Nat /\ s \in 0..(h - 1)
    BY <2>1 DEF p, s
  <2>4. u % h = s
    BY <2>3, Division
  <2> QED BY <2>4, <2>2 DEF r
<1> QED BY <1>1, <1>2, <1>3

-----------------------------------------------------------------------------
(* Threads, warps and levels.                                              *)

\* The stride of level j; before the first level it is the block.
Stride(j) == Power[Levels + 1 - j]

LEMMA Powers ==
  /\ \A i \in 1..11 : Power[i] \in 1..1024
  /\ \A i \in 1..10 : Power[i + 1] = 2 * Power[i]
  /\ Power[1] = 1
<1>1. ASSUME NEW i \in 1..11 PROVE Power[i] \in 1..1024
  BY DEF Power
<1>2. ASSUME NEW i \in 1..10 PROVE Power[i + 1] = 2 * Power[i]
  BY DEF Power
<1> QED BY <1>1, <1>2 DEF Power

LEMMA Strides ==
  /\ Levels \in 1..10 /\ Threads \in 2..1024
  /\ Stride(0) = Threads /\ Stride(Levels) = 1
  /\ \A j \in 0..Levels : Stride(j) \in 1..Threads
  /\ \A j \in 1..Levels : Stride(j - 1) = 2 * Stride(j)
<1>1. Levels \in 1..10 /\ Power[Levels + 1] = Threads
  <2>1. PICK k \in 2..11 : Threads = Power[k]
    BY BlocksAssumption
  <2>2. k - 1 \in 1..10 /\ Power[(k - 1) + 1] = Threads
    BY <2>1
  <2>3. \E l \in 1..10 : Power[l + 1] = Threads
    BY <2>2
  <2> QED BY <2>3 DEF Levels
<1>2. Threads \in 2..1024
  <2>1. Power[Levels + 1] = 2 * Power[Levels] /\ Power[Levels] \in 1..1024
        /\ Power[Levels + 1] \in 1..1024
    BY <1>1, Powers
  <2> QED BY <2>1, <1>1
<1>3. Stride(0) = Threads /\ Stride(Levels) = 1
  BY <1>1, Powers DEF Stride
<1>4. ASSUME NEW j \in 1..Levels PROVE Stride(j - 1) = 2 * Stride(j)
  <2>1. Levels + 1 - j \in 1..10 /\ Levels + 1 - (j - 1) = (Levels + 1 - j) + 1
    BY <1>1
  <2> QED BY <2>1, Powers DEF Stride
<1>5. ASSUME NEW j \in 0..Levels PROVE Stride(j) \in 1..Threads
  <2> DEFINE P == {n \in Nat : n <= Levels => Stride(n) \in 1..Threads}
  <2>1. 0 \in P
    BY <1>2, <1>3
  <2>2. ASSUME NEW n \in Nat, n \in P PROVE n + 1 \in P
    <3>1. SUFFICES ASSUME n + 1 <= Levels PROVE Stride(n + 1) \in 1..Threads
      OBVIOUS
    <3>2. n + 1 \in 1..Levels /\ (n + 1) - 1 = n /\ Stride(n) \in 1..Threads
      BY <3>1, <2>2, <1>1
    <3>3. Stride(n) = 2 * Stride(n + 1)
      BY <3>2, <1>4
    <3>4. Stride(n + 1) \in 1..1024
      <4>1. Levels + 1 - (n + 1) \in 1..11
        BY <3>1, <1>1
      <4> QED BY <4>1, Powers DEF Stride
    <3> QED BY <3>2, <3>3, <3>4, <1>2
  <2>3. Nat \subseteq P
    <3> HIDE DEF P
    <3> QED BY <2>1, <2>2, Induct
  <2> QED BY <2>3, <1>1
<1> QED BY <1>1, <1>2, <1>3, <1>4, <1>5

\* Strides fall from level to level.
LEMMA StridesFall ==
  ASSUME NEW i \in 0..Levels, NEW j \in 0..Levels, i <= j
  PROVE  Stride(j) <= Stride(i)
<1> DEFINE P == {n \in Nat : i + n <= Levels => Stride(i + n) <= Stride(i)}
<1>1. 0 \in P
  BY Strides
<1>2. ASSUME NEW n \in Nat, n \in P PROVE n + 1 \in P
  <2>1. SUFFICES ASSUME i + n + 1 <= Levels PROVE Stride(i + n + 1) <= Stride(i)
    OBVIOUS
  <2>2. i + n + 1 \in 1..Levels /\ i + n \in 0..Levels /\ (i + n + 1) - 1 = i + n
    BY <2>1, Strides
  <2>3. Stride(i + n) = 2 * Stride(i + n + 1) /\ Stride(i + n + 1) \in 1..Threads
        /\ Stride(i + n) \in 1..Threads /\ Stride(i) \in 1..Threads
    BY <2>2, Strides
  <2> QED BY <1>2, <2>1, <2>3, Strides
<1>3. Nat \subseteq P
  <2> HIDE DEF P
  <2> QED BY <1>1, <1>2, Induct
<1>4. j - i \in Nat /\ i + (j - i) = j /\ j <= Levels
  BY Strides
<1>5. j - i \in P
  BY <1>3, <1>4
<1> QED BY <1>4, <1>5

LEMMA WarpIs ==
  /\ 0 \in Tids /\ WarpOf(0) = 0 /\ 0 \in Warps
  /\ \A t \in Tids : WarpOf(t) \in Warps /\ t \in Nat
  /\ \A t \in Nat : t < WarpSize => t \in Tids /\ WarpOf(t) = 0
<1>1. WarpSize \in 1..(Threads - 1) /\ Threads \in 2..1024
  BY BlocksAssumption, Strides
<1>2. 0 \in Tids
  BY <1>1 DEF Tids
<1>3. ASSUME NEW t \in Nat, t < WarpSize PROVE t \in Tids /\ WarpOf(t) = 0
  <2>1. t = WarpSize * 0 + t /\ t \in 0..(WarpSize - 1) /\ WarpSize \in Nat \ {0}
    BY <1>1, <1>3
  <2>2. t \div WarpSize = 0
    BY <2>1, Division
  <2> QED BY <2>2, <1>1, <1>3 DEF Tids, WarpOf
<1> QED BY <1>1, <1>2, <1>3 DEF Tids, Warps

-----------------------------------------------------------------------------
(* The columns a level leaves.                                             *)

\* the threads whose entries are reduced into entry t when the stride is s
Column(t, s) == {u \in Tids : u % s = t}

LEMMA Columns ==
  /\ \A t \in Tids : Column(t, Threads) = {t}
  /\ Column(0, 1) = Tids
  /\ \A j \in 1..Levels, t \in Nat : t < Stride(j) =>
       /\ Column(t, Stride(j)) =
            Column(t, Stride(j - 1)) \cup Column(t + Stride(j), Stride(j - 1))
       /\ Column(t, Stride(j - 1)) \cap Column(t + Stride(j), Stride(j - 1)) = {}
<1>1. ASSUME NEW t \in Tids PROVE Column(t, Threads) = {t}
  <2>1. ASSUME NEW u \in Tids PROVE u % Threads = u
    <3>1. u = Threads * 0 + u /\ u \in 0..(Threads - 1) /\ Threads \in Nat \ {0}
          /\ u \in Nat
      BY Strides DEF Tids
    <3> QED BY <3>1, Division
  <2> QED BY <2>1 DEF Column
<1>2. Column(0, 1) = Tids
  <2>1. ASSUME NEW u \in Tids PROVE u % 1 = 0
    <3>1. u \in Nat /\ u = 1 * u + 0 /\ 0 \in 0..(1 - 1) /\ 1 \in Nat \ {0}
      BY Strides DEF Tids
    <3> QED BY <3>1, Division
  <2> QED BY <2>1 DEF Column
<1>3. ASSUME NEW j \in 1..Levels, NEW t \in Nat, t < Stride(j)
      PROVE  /\ Column(t, Stride(j)) =
                  Column(t, Stride(j - 1)) \cup Column(t + Stride(j), Stride(j - 1))
             /\ Column(t, Stride(j - 1)) \cap Column(t + Stride(j), Stride(j - 1)) = {}
  <2> DEFINE h == Stride(j)
  <2>1. h \in Nat \ {0} /\ Stride(j - 1) = 2 * h
    BY Strides
  <2>2. ASSUME NEW u \in Tids
        PROVE  /\ u % h = t <=> u % (2 * h) = t \/ u % (2 * h) = t + h
               /\ ~(u % (2 * h) = t /\ u % (2 * h) = t + h)
    <3>1. u \in Nat
      BY WarpIs
    <3>2. u % h \in 0..(h - 1) /\ u % (2 * h) \in Nat
      <4>1. 2 * h \in Nat \ {0}
        BY <2>1
      <4> HIDE DEF h
      <4>2. u % (2 * h) \in 0..(2 * h - 1) /\ u % h \in 0..(h - 1)
        BY <4>1, <3>1, <2>1, Division
      <4> QED BY <4>2
    <3>3. u % (2 * h) = u % h \/ u % (2 * h) = (u % h) + h
      BY <3>1, <2>1, Halved
    <3> DEFINE a == u % (2 * h)
               b == u % h
    <3>4. b \in 0..(h - 1) /\ a \in Nat /\ (a = b \/ a = b + h) /\ h \in Nat \ {0}
          /\ t \in Nat /\ t < h
      BY <3>2, <3>3, <2>1, <1>3
    <3> HIDE DEF a, b, h
    <3>5. (b = t <=> a = t \/ a = t + h) /\ ~(a = t /\ a = t + h)
      BY <3>4
    <3> QED BY <3>5 DEF a, b
  <2> HIDE DEF h
  <2> QED BY <2>1, <2>2 DEF Column, h
<1> QED BY <1>1, <1>2, <1>3

-----------------------------------------------------------------------------
(* Maxima.                                                                 *)

\* what an argmax compares, the pair that stands for nothing included
Pairs == {p \in Int \X Int : p[1] >= NegInf /\ p[2] \in 0..NoIdx}

LEMMA Order ==
  /\ <<NegInf, NoIdx>> \in Pairs
  /\ \A a, b \in Pairs : a = b \/ Better(a, b) \/ Better(b, a)
  /\ \A a, b \in Pairs : ~(Better(a, b) /\ Better(b, a)) /\ ~Better(a, a)
  /\ \A a, b, c \in Pairs : Better(a, b) /\ Better(b, c) => Better(a, c)
  /\ \A a \in Pairs : a = <<NegInf, NoIdx>> \/ Better(a, <<NegInf, NoIdx>>)
<1>1. NegInf \in Int /\ NoIdx = 1000
  BY BlocksAssumption DEF NoIdx
<1>2. <<NegInf, NoIdx>> \in Pairs
  BY <1>1 DEF Pairs
<1>3. \A a \in Pairs : a = <<a[1], a[2]>> /\ a[1] \in Int /\ a[2] \in Int
  BY DEF Pairs
<1>4. \A a, b \in Pairs : a = b \/ Better(a, b) \/ Better(b, a)
  <2> TAKE a, b \in Pairs
  <2>1. a[1] = b[1] /\ a[2] = b[2] => a = b
    BY <1>3
  <2> QED BY <2>1, <1>3 DEF Better
<1>5. \A a, b \in Pairs : ~(Better(a, b) /\ Better(b, a)) /\ ~Better(a, a)
  BY <1>3 DEF Better
<1>6. \A a, b, c \in Pairs : Better(a, b) /\ Better(b, c) => Better(a, c)
  BY <1>3 DEF Better
<1>7. \A a \in Pairs : a = <<NegInf, NoIdx>> \/ Better(a, <<NegInf, NoIdx>>)
  <2> TAKE a \in Pairs
  <2>1. a[1] >= NegInf /\ a[2] \in 0..NoIdx /\ a = <<a[1], a[2]>> /\ a[1] \in Int
    BY DEF Pairs
  <2> QED BY <2>1, <1>1 DEF Better
<1> QED BY <1>2, <1>4, <1>5, <1>6, <1>7

Img(f, U) == {f[i] : i \in U}

\* a is a best pair of S
IsBest(a, S) == a \in S /\ \A b \in S : a = b \/ Better(a, b)

\* Among finitely many pairs one is the best.
LEMMA HasBest ==
  ASSUME NEW n \in Nat, NEW f \in [0..(n - 1) -> Pairs],
         NEW U \in SUBSET (0..(n - 1)), U # {}
  PROVE  \E m \in U : \A j \in U : f[m] = f[j] \/ Better(f[m], f[j])
<1> DEFINE P == {k \in Nat : \A S \in SUBSET (0..(k - 1)) :
                   S # {} /\ k <= n =>
                     \E m \in S : \A j \in S : f[m] = f[j] \/ Better(f[m], f[j])}
<1>1. 0 \in P
  <2>1. 0..(0 - 1) = {}
    OBVIOUS
  <2> QED BY <2>1
<1>2. ASSUME NEW k \in Nat, k \in P PROVE k + 1 \in P
  <2>1. SUFFICES ASSUME NEW S \in SUBSET (0..((k + 1) - 1)), S # {}, k + 1 <= n
                 PROVE  \E m \in S : \A j \in S : f[m] = f[j] \/ Better(f[m], f[j])
    OBVIOUS
  <2>2. \A j \in S : f[j] \in Pairs
    BY <2>1
  <2>3. CASE k \notin S
    <3>1. S \subseteq 0..(k - 1)
      BY <2>3
    <3> QED BY <3>1, <1>2, <2>1
  <2>4. CASE S = {k}
    BY <2>4
  <2>5. CASE k \in S /\ S # {k}
    <3> DEFINE R == S \ {k}
    <3>1. R \in SUBSET (0..(k - 1)) /\ R # {} /\ S = R \cup {k}
      BY <2>5
    <3>0. k <= n /\ R \in SUBSET (0..(k - 1)) /\ R # {}
      BY <3>1, <2>1
    <3> HIDE DEF R
    <3>2. PICK m \in R : \A j \in R : f[m] = f[j] \/ Better(f[m], f[j])
      BY <3>0, <1>2
    <3>3. CASE Better(f[k], f[m])
      <4>1. \A j \in S : f[k] = f[j] \/ Better(f[k], f[j])
        BY <3>1, <3>2, <3>3, <2>2, Order
      <4> QED BY <4>1, <2>5
    <3>4. CASE f[m] = f[k] \/ Better(f[m], f[k])
      <4>1. \A j \in S : f[m] = f[j] \/ Better(f[m], f[j])
        BY <3>1, <3>2, <3>4
      <4> QED BY <4>1, <3>1
    <3>5. f[m] \in Pairs /\ f[k] \in Pairs
      BY <2>2, <2>5, <3>1
    <3> QED BY <3>3, <3>4, <3>5, Order
  <2> QED BY <2>3, <2>4, <2>5
<1>3. Nat \subseteq P
  <2> HIDE DEF P
  <2> QED BY <1>1, <1>2, Induct
<1>4. n \in P
  BY <1>3
<1> QED BY <1>4

LEMMA BestIs ==
  ASSUME NEW n \in Nat, NEW f \in [0..(n - 1) -> Pairs],
         NEW U \in SUBSET (0..(n - 1)), U # {}
  PROVE  IsBest(BestPair({f[i] : i \in U}), {f[i] : i \in U})
<1>1. PICK m \in U : \A j \in U : f[m] = f[j] \/ Better(f[m], f[j])
  BY HasBest
<1> DEFINE S == {f[i] : i \in U}
<1>2. \E a \in S : \A b \in S : a = b \/ Better(a, b)
  BY <1>1
<1>3. S # {}
  OBVIOUS
<1> HIDE DEF S
<1>4. IsBest(BestPair(S), S)
  BY <1>2, <1>3 DEF IsBest, BestPair
<1> QED BY <1>4 DEF S

\* The best pair is the only one that is best.
LEMMA BestUnique ==
  ASSUME NEW S, S \subseteq Pairs, NEW a, IsBest(a, S)
  PROVE  BestPair(S) = a
<1> DEFINE c == CHOOSE x \in S : \A b \in S : x = b \/ Better(x, b)
<1>1. c \in S /\ \A b \in S : c = b \/ Better(c, b)
  BY DEF IsBest
<1>2. BestPair(S) = c
  BY DEF IsBest, BestPair
<1> HIDE DEF c
<1> QED BY <1>1, <1>2, Order DEF IsBest

\* The best of two sets is the better of their bests.
LEMMA BestJoin ==
  ASSUME NEW n \in Nat, NEW f \in [0..(n - 1) -> Pairs],
         NEW U \in SUBSET (0..(n - 1)), NEW V \in SUBSET (0..(n - 1))
  PROVE  BestPair(Img(f, U \cup V)) =
           Combined("best", BestPair(Img(f, U)), BestPair(Img(f, V)))
<1> DEFINE A == {f[i] : i \in U}
           B == {f[i] : i \in V}
           C == {f[i] : i \in U \cup V}
<1>0. Img(f, U \cup V) = C /\ Img(f, U) = A /\ Img(f, V) = B
  BY DEF Img
<1>1. C = A \cup B /\ A \subseteq Pairs /\ B \subseteq Pairs
  OBVIOUS
<1>2. A # {} => IsBest(BestPair(A), A)
  BY BestIs
<1>3. B # {} => IsBest(BestPair(B), B)
  BY BestIs
<1>4. BestPair({}) = <<NegInf, NoIdx>>
  BY DEF BestPair
<1> HIDE DEF A, B, C
<1> DEFINE a == BestPair(A)
           b == BestPair(B)
<1>5. a \in Pairs /\ b \in Pairs
  BY <1>1, <1>2, <1>3, <1>4, Order DEF IsBest
<1>6. Combined("best", a, b) = IF Better(b, a) THEN b ELSE a
  BY DEF Combined
<1>7. CASE A = {}
  <2>1. C = B /\ a = <<NegInf, NoIdx>>
    BY <1>1, <1>4, <1>7
  <2>2. BestPair(C) = b
    BY <2>1
  <2>3. b = a \/ Better(b, a)
    BY <2>1, <1>5, Order
  <2> QED BY <2>2, <2>3, <1>0, <1>6
<1>8. CASE B = {}
  <2>1. C = A /\ b = <<NegInf, NoIdx>>
    BY <1>1, <1>4, <1>8
  <2>2. BestPair(C) = a
    BY <2>1
  <2>3. b = a \/ ~Better(b, a)
    BY <2>1, <1>5, Order
  <2> QED BY <2>2, <2>3, <1>0, <1>6
<1>9. CASE A # {} /\ B # {}
  <2>1. IsBest(a, A) /\ IsBest(b, B)
    BY <1>2, <1>3, <1>9
  <2> HIDE DEF a, b
  <2>2. CASE Better(b, a)
    <3>1. IsBest(b, C)
      BY <2>1, <2>2, <1>1, Order DEF IsBest
    <3>2. BestPair(C) = b
      BY <3>1, <1>1, BestUnique
    <3> QED BY <3>2, <2>2, <1>0, <1>6 DEF a, b
  <2>3. CASE ~Better(b, a)
    <3>1. IsBest(a, C)
      BY <2>1, <2>3, <1>1, <1>5, Order DEF IsBest
    <3>2. BestPair(C) = a
      BY <3>1, <1>1, BestUnique
    <3> QED BY <3>2, <2>3, <1>0, <1>6 DEF a, b
  <2> QED BY <2>2, <2>3
<1> QED BY <1>7, <1>8, <1>9

\* The largest of finitely many numbers.
LEMMA LargestIs ==
  ASSUME NEW n \in Nat, NEW f \in [0..(n - 1) -> Values],
         NEW U \in SUBSET (0..(n - 1)), U # {}
  PROVE  \E v \in {f[i] : i \in U} :
           Largest({f[i] : i \in U}) = <<"max", v>> /\ \A i \in U : f[i] <= v
<1> DEFINE g == [i \in 0..(n - 1) |-> <<f[i], 0>>]
           S == {f[i] : i \in U}
<1>1. g \in [0..(n - 1) -> Pairs]
  <2>1. ASSUME NEW i \in 0..(n - 1) PROVE f[i] \in Int /\ f[i] >= NegInf
    <3>1. f[i] \in Values
      OBVIOUS
    <3> DEFINE v == f[i]
    <3>2. v \in Values
      BY <3>1
    <3> HIDE DEF g, S, v
    <3>3. NegInf < v /\ v \in Int /\ NegInf \in Int
      BY <3>2, BlocksAssumption
    <3>4. v >= NegInf
      BY <3>3
    <3> QED BY <3>3, <3>4 DEF v
  <2> QED BY <2>1 DEF Pairs, NoIdx
<1>2. PICK m \in U : \A j \in U : g[m] = g[j] \/ Better(g[m], g[j])
  BY <1>1, HasBest
<1>3. \A j \in U : f[j] \in Int /\ f[m] \in Int /\ g[j] = <<f[j], 0>> /\ g[m] = <<f[m], 0>>
  BY BlocksAssumption
<1>4. ASSUME NEW j \in U PROVE f[j] <= f[m]
  <2>1. g[m] = g[j] \/ Better(g[m], g[j])
    BY <1>2
  <2>2. f[j] \in Int /\ f[m] \in Int /\ g[j] = <<f[j], 0>> /\ g[m] = <<f[m], 0>>
    BY <1>3
  <2> HIDE DEF g, S
  <2> QED BY <2>1, <2>2 DEF Better
<1>5. \E v \in S : \A u \in S : u <= v
  BY <1>4
<1>6. S # {}
  OBVIOUS
<1> HIDE DEF S
<1>7. \E v \in S : Largest(S) = <<"max", v>> /\ \A u \in S : u <= v
  BY <1>5, <1>6 DEF Largest
<1> QED BY <1>7 DEF S

LEMMA LargestUnique ==
  ASSUME NEW S, S \subseteq Int, NEW v \in S, \A u \in S : u <= v
  PROVE  Largest(S) = <<"max", v>>
<1> DEFINE c == CHOOSE x \in S : \A u \in S : u <= x
<1>1. c \in S /\ \A u \in S : u <= c
  OBVIOUS
<1>2. Largest(S) = <<"max", c>>
  BY DEF Largest
<1> HIDE DEF c
<1>3. c \in Int /\ v \in Int /\ c <= v /\ v <= c
  BY <1>1
<1>4. c = v
  BY <1>3
<1> QED BY <1>2, <1>4

LEMMA LargestJoin ==
  ASSUME NEW n \in Nat, NEW f \in [0..(n - 1) -> Values],
         NEW U \in SUBSET (0..(n - 1)), NEW V \in SUBSET (0..(n - 1))
  PROVE  Largest(Img(f, U \cup V)) =
           Combined("max", Largest(Img(f, U)), Largest(Img(f, V)))
<1> DEFINE A == {f[i] : i \in U}
           B == {f[i] : i \in V}
           C == {f[i] : i \in U \cup V}
<1>0. Img(f, U \cup V) = C /\ Img(f, U) = A /\ Img(f, V) = B
  BY DEF Img
<1>1. C = A \cup B /\ A \subseteq Values /\ B \subseteq Values
  OBVIOUS
<1>2. A # {} => \E v \in A : Largest(A) = <<"max", v>> /\ \A x \in A : x <= v
  <2>1. SUFFICES ASSUME U # {} PROVE \E v \in A : Largest(A) = <<"max", v>> /\ \A x \in A : x <= v
    OBVIOUS
  <2>2. PICK v \in A : Largest(A) = <<"max", v>> /\ \A i \in U : f[i] <= v
    BY <2>1, LargestIs
  <2> QED BY <2>2
<1>3. B # {} => \E v \in B : Largest(B) = <<"max", v>> /\ \A x \in B : x <= v
  <2>1. SUFFICES ASSUME V # {} PROVE \E v \in B : Largest(B) = <<"max", v>> /\ \A x \in B : x <= v
    OBVIOUS
  <2>2. PICK v \in B : Largest(B) = <<"max", v>> /\ \A i \in V : f[i] <= v
    BY <2>1, LargestIs
  <2> QED BY <2>2
<1>4. Largest({}) = <<"max", NegInf>>
  BY DEF Largest
<1>5. \A v \in Values : v \in Int /\ NegInf \in Int /\ NegInf < v
  BY BlocksAssumption
<1>6. \A a, b : Combined("max", a, b) = IF b[2] > a[2] THEN b ELSE a
  BY DEF Combined
<1> HIDE DEF A, B, C
<1>7. Largest(C) = Combined("max", Largest(A), Largest(B))
  <2>1. CASE A = {}
    <3>1. C = B /\ Largest(A) = <<"max", NegInf>>
      BY <2>1, <1>1, <1>4
    <3>2. CASE B = {}
      BY <3>1, <3>2, <1>4, <1>5, <1>6
    <3>3. CASE B # {}
      <4>1. PICK v \in B : Largest(B) = <<"max", v>>
        BY <3>3, <1>3
      <4>2. v > NegInf
        BY <1>5, <1>1
      <4> QED BY <4>1, <4>2, <3>1, <1>6
    <3> QED BY <3>2, <3>3
  <2>2. CASE A # {} /\ B = {}
    <3>1. C = A /\ Largest(B) = <<"max", NegInf>>
      BY <2>2, <1>1, <1>4
    <3>2. PICK v \in A : Largest(A) = <<"max", v>>
      BY <2>2, <1>2
    <3>3. ~(NegInf > v)
      BY <1>5, <1>1
    <3> QED BY <3>1, <3>2, <3>3, <1>6
  <2>3. CASE A # {} /\ B # {}
    <3>1. PICK a \in A : Largest(A) = <<"max", a>> /\ \A x \in A : x <= a
      BY <2>3, <1>2
    <3>2. PICK b \in B : Largest(B) = <<"max", b>> /\ \A x \in B : x <= b
      BY <2>3, <1>3
    <3>3. a \in Int /\ b \in Int /\ C \subseteq Int
      BY <1>1, <1>5
    <3>4. CASE b > a
      <4>1. \A x \in C : x <= b
        BY <3>1, <3>2, <3>3, <3>4, <1>1
      <4>2. Largest(C) = <<"max", b>>
        BY <4>1, <3>3, <1>1, LargestUnique
      <4> QED BY <4>2, <3>1, <3>2, <3>4, <1>6
    <3>5. CASE ~(b > a)
      <4>1. \A x \in C : x <= a
        BY <3>1, <3>2, <3>3, <3>5, <1>1
      <4>2. Largest(C) = <<"max", a>>
        BY <4>1, <3>3, <1>1, LargestUnique
      <4> QED BY <4>2, <3>1, <3>2, <3>5, <1>6
    <3> QED BY <3>4, <3>5
  <2> QED BY <2>1, <2>2, <2>3
<1> QED BY <1>0, <1>7

\* The sum over two sets of terms that share none is the sum of their sums.
LEMMA SumJoin ==
  ASSUME NEW A, NEW B, A \cap B = {}
  PROVE  SumOf(A \cup B) = Combined("add", SumOf(A), SumOf(B))
<1>1. SetToBag(A \cup B) = SetToBag(A) (+) SetToBag(B)
  BY DEF SetToBag, (+)
<1> QED BY <1>1 DEF SumOf, Combined, Plus

-----------------------------------------------------------------------------
(* What a set of threads has found of the input.                           *)

Launched ==
  /\ kernel \in {"argmax", "partials", "normrope", "split"}
  /\ input \in Inputs(kernel) /\ extra \in Arguments(kernel)

\* the elements that the threads of T loop over
Share(T, count) == {i \in 0..(count - 1) : i % Threads \in T}

Top == Largest({input[s] : s \in 0..(extra - 1)})

\* A tree reduces one value of each thread; the split attention has two.
Whole(tree, T) ==
  CASE tree = "argmax" ->
         BestPair({<<input[i], i>> : i \in Share(T, Elements) \ {extra}})
    [] tree = "partials" -> BestPair({BlockPart(b) : b \in Share(T, Parts)})
    [] tree = "normrope" ->
         SumOf({<<"squares", Original(i)>> : i \in Share(T, Elements)})
    [] tree = "split" -> Largest({input[s] : s \in Share(T, extra)})
    [] tree = "splitsum" ->
         SumOf({<<"part", s, Exp(input[s], Top)>> : s \in Share(T, extra)})

OpOf(tree) ==
  CASE tree \in {"argmax", "partials"} -> "best"
    [] tree = "split" -> "max"
    [] tree \in {"normrope", "splitsum"} -> "add"

Trees == {"argmax", "partials", "normrope", "split", "splitsum"}

\* A tree the running kernel has.
Runs(tree) == tree = kernel \/ (kernel = "split" /\ tree = "splitsum")

LEMMA InputsAre ==
  ASSUME Launched
  PROVE  /\ input \in [Items -> Values \cup {NegInf}]
         /\ \A i \in Items : input[i] \in Int /\ input[i] >= NegInf
         /\ kernel \in {"argmax", "partials"} => extra \in -1..(Elements - 1)
         /\ kernel = "normrope" => extra \in 1..(Elements \div 2)
         /\ kernel = "split" =>
              extra \in 1..Elements /\ extra <= MaxSplits /\ input \in [Items -> Values]
         /\ Items = 0..(Elements - 1) /\ Elements \in Nat
         /\ 2 <= Elements /\ Elements < NoIdx /\ NoIdx = 1000
<1>1. input \in [Items -> Values \cup {NegInf}]
  BY DEF Launched, Inputs
<1>2. \A v \in Values \cup {NegInf} : v \in Int /\ v >= NegInf
  <2> TAKE v \in Values \cup {NegInf}
  <2>1. CASE v = NegInf
    BY <2>1, BlocksAssumption
  <2>2. CASE v \in Values
    <3>1. NegInf < v /\ v \in Int /\ NegInf \in Int
      BY <2>2, BlocksAssumption
    <3> QED BY <3>1
  <2> QED BY <2>1, <2>2
<1>3. \A i \in Items : input[i] \in Int /\ input[i] >= NegInf
  BY <1>1, <1>2
<1>4. kernel = "split" =>
        extra \in 1..Elements /\ extra <= MaxSplits /\ input \in [Items -> Values]
  BY BlocksAssumption DEF Launched, Inputs, Arguments
<1>5. Elements \in Nat /\ 2 <= Elements /\ Elements < NoIdx /\ NoIdx = 1000
  <2>1. NoIdx = 1000 /\ Elements \in 2..(NoIdx - 1)
    BY BlocksAssumption DEF NoIdx
  <2> QED BY <2>1
<1>6. kernel \in {"argmax", "partials"} => extra \in -1..(Elements - 1)
  BY DEF Launched, Arguments
<1>7. kernel = "normrope" => extra \in 1..(Elements \div 2)
  BY DEF Launched, Arguments
<1>8. Items = 0..(Elements - 1)
  BY DEF Items
<1> QED BY <1>1, <1>3, <1>4, <1>5, <1>6, <1>7, <1>8

LEMMA Shares ==
  /\ \A t, count : Share({t}, count) = Mine(t, count)
  /\ \A A, B, count : Share(A \cup B, count) = Share(A, count) \cup Share(B, count)
  /\ \A A, B, count : A \cap B = {} => Share(A, count) \cap Share(B, count) = {}
  /\ \A A, count : Share(A, count) \subseteq 0..(count - 1)
  /\ \A count \in Nat : Share(Tids, count) = 0..(count - 1)
<1>1. \A count \in Nat : Share(Tids, count) = 0..(count - 1)
  <2> TAKE count \in Nat
  <2>1. ASSUME NEW i \in 0..(count - 1) PROVE i % Threads \in Tids
    <3>1. i \in Nat /\ Threads \in Nat \ {0}
      BY Strides
    <3>2. i % Threads \in 0..(Threads - 1)
      BY <3>1, Division
    <3> QED BY <3>2 DEF Tids
  <2> QED BY <2>1 DEF Share
<1> QED BY <1>1 DEF Share, Mine

LEMMA Rows ==
  /\ RowsPerBlock \in Nat /\ RowsPerBlock >= 2 /\ Parts \in Nat
  /\ \A i \in Items :
       /\ i \div RowsPerBlock \in 0..(Parts - 1)
       /\ i % RowsPerBlock \in 0..(RowsPerBlock - 1)
       /\ i = (i \div RowsPerBlock) * RowsPerBlock + (i % RowsPerBlock)
  /\ \A b \in 0..(Parts - 1) : b * RowsPerBlock \in Items
<1> DEFINE R == RowsPerBlock
           W == WarpSize
<1>1. W \in Nat \ {0} /\ Threads \in Nat /\ W < Threads /\ Threads % W = 0
      /\ Elements \in Nat /\ Elements >= 2
  <2>1. WarpSize \in 1..(Threads - 1) /\ Threads % WarpSize = 0
        /\ Elements \in 2..(NoIdx - 1)
    BY BlocksAssumption
  <2> QED BY <2>1, Strides DEF NoIdx
<1>2. Threads \div W \in Nat /\ Threads = W * (Threads \div W) + (Threads % W)
  <2> HIDE DEF W
  <2> QED BY <1>1, Division
<1>3. R \in Nat /\ Threads = W * R
  <2>1. R = Threads \div W
    BY DEF RowsPerBlock
  <2> HIDE DEF W, R
  <2> QED BY <1>1, <1>2, <2>1
<1>4. R >= 2
  <2> HIDE DEF W, R
  <2>1. R # 0 /\ R # 1
    BY <1>1, <1>3
  <2> QED BY <2>1, <1>3
<1> DEFINE x == Elements + R - 1
           r == x % R
<1>5. Parts = x \div R
  BY DEF Parts
<1>6. Parts \in Nat /\ r \in 0..(R - 1) /\ x = R * Parts + r
  <2>1. x \in Nat /\ R \in Nat \ {0}
    <3> HIDE DEF R
    <3> QED BY <1>1, <1>3, <1>4
  <2> HIDE DEF x, R
  <2> QED BY <1>5, <2>1, Division
<1>7. ASSUME NEW i \in Items
      PROVE  /\ i \div R \in 0..(Parts - 1)
             /\ i % R \in 0..(R - 1)
             /\ i = (i \div R) * R + (i % R)
  <2> DEFINE q == i \div R
             s == i % R
  <2>1. i \in Nat /\ i <= Elements - 1 /\ R \in Nat \ {0}
    BY <1>1, <1>3, <1>4 DEF Items
  <2>2. q \in Nat /\ s \in 0..(R - 1) /\ i = R * q + s
    <3> HIDE DEF R
    <3> QED BY <2>1, Division
  <2> HIDE DEF q, s, R, r
  <2>3. ~(q >= Parts)
    <3>1. SUFFICES ASSUME q >= Parts PROVE FALSE
      OBVIOUS
    <3>2. R * q >= R * Parts
      <4>1. R * (q - Parts) >= 0
        BY <3>1, <2>1, <2>2, <1>6
      <4> QED BY <4>1, <2>1, <2>2, <1>6
    <3> QED BY <3>2, <2>1, <2>2, <1>6, <1>1
  <2>4. q \in 0..(Parts - 1) /\ i = q * R + s
    BY <2>2, <2>3, <2>1, <1>6
  <2> QED BY <2>4, <2>2 DEF q, s
<1>8. ASSUME NEW b \in 0..(Parts - 1) PROVE b * R \in Items
  <2> HIDE DEF R, r
  <2>1. R * (Parts - 1 - b) >= 0 /\ b \in Nat /\ b * R \in Nat
    BY <1>3, <1>6
  <2>2. b * R <= Elements - 1
    BY <2>1, <1>3, <1>6, <1>1
  <2> QED BY <2>1, <2>2, <1>1 DEF Items
<1> QED BY <1>3, <1>4, <1>6, <1>7, <1>8

\* a row of block b, as its warp offers it
EntryOf(b, wr) ==
  LET row == b * RowsPerBlock + wr IN
  IF row < Elements /\ row # extra THEN <<input[row], row>> ELSE <<NegInf, NoIdx>>

LEMMA PartIs ==
  ASSUME Launched, NEW b \in 0..(Parts - 1)
  PROVE  LET best == BestPair({EntryOf(b, wr) : wr \in 0..(RowsPerBlock - 1)}) IN
         /\ BlockPart(b) = <<best[1], Found(best)>>
         /\ best \in Pairs /\ BlockPart(b) \in Pairs
         /\ IsBest(best, {EntryOf(b, wr) : wr \in 0..(RowsPerBlock - 1)})
         /\ \A wr \in 0..(RowsPerBlock - 1) : EntryOf(b, wr) \in Pairs
<1> DEFINE R == RowsPerBlock
           f == [wr \in 0..(R - 1) |-> EntryOf(b, wr)]
           S == {EntryOf(b, wr) : wr \in 0..(R - 1)}
           best == BestPair(S)
<1>1. R \in Nat /\ R >= 2 /\ b \in Nat
  BY Rows
<1>2. ASSUME NEW wr \in 0..(R - 1) PROVE EntryOf(b, wr) \in Pairs
  <2> DEFINE row == b * R + wr
  <2>1. row \in Nat
    <3> HIDE DEF R
    <3> QED BY <1>1
  <2>2. CASE row < Elements /\ row # extra
    <3>1. row \in Items /\ row \in 0..NoIdx
      <4>1. Items = 0..(Elements - 1) /\ Elements \in Nat /\ Elements < NoIdx /\ NoIdx = 1000
        BY InputsAre
      <4> HIDE DEF row
      <4> QED BY <2>1, <2>2, <4>1
    <3>2. input[row] \in Int /\ input[row] >= NegInf
      <4>1. \A i \in Items : input[i] \in Int /\ input[i] >= NegInf
        BY InputsAre
      <4> HIDE DEF row
      <4> QED BY <3>1, <4>1
    <3>3. EntryOf(b, wr) = <<input[row], row>>
      BY <2>2 DEF EntryOf
    <3> HIDE DEF row
    <3>4. <<input[row], row>> \in Pairs
      BY <3>1, <3>2 DEF Pairs
    <3> QED BY <3>3, <3>4
  <2>3. CASE ~(row < Elements /\ row # extra)
    <3>1. EntryOf(b, wr) = <<NegInf, NoIdx>>
      BY <2>3 DEF EntryOf
    <3> QED BY <3>1, Order
  <2> QED BY <2>2, <2>3
<1>3. f \in [0..(R - 1) -> Pairs] /\ S = {f[i] : i \in 0..(R - 1)}
  BY <1>2
<1>4. IsBest(best, S)
  <2>1. 0 \in 0..(R - 1)
    BY <1>1
  <2>2. IsBest(BestPair({f[i] : i \in 0..(R - 1)}), {f[i] : i \in 0..(R - 1)})
    <3> HIDE DEF f, R
    <3> QED BY <1>1, <1>3, <2>1, BestIs
  <2> QED BY <2>2, <1>3
<1>5. best \in Pairs
  <2>1. S \subseteq Pairs
    BY <1>2
  <2> HIDE DEF S
  <2> QED BY <2>1, <1>4 DEF IsBest
<1>6. BlockPart(b) = <<best[1], Found(best)>>
  BY DEF BlockPart, EntryOf
<1>7. <<best[1], Found(best)>> \in Pairs
  <2> HIDE DEF best
  <2>1. best[1] \in Int /\ best[1] >= NegInf /\ best[2] \in 0..NoIdx /\ NoIdx = 1000
    BY <1>5 DEF Pairs, NoIdx
  <2>2. Found(best) \in 0..NoIdx
    BY <2>1 DEF Found
  <2> QED BY <2>1, <2>2 DEF Pairs
<1> QED BY <1>2, <1>4, <1>5, <1>6, <1>7

\* Two disjoint sets of threads have found together what the operation of the
\* tree makes of what each has found.
LEMMA Joins ==
  ASSUME Launched, NEW tree \in Trees, Runs(tree), NEW A, NEW B, A \cap B = {}
  PROVE  Whole(tree, A \cup B) = Combined(OpOf(tree), Whole(tree, A), Whole(tree, B))
<1>1. CASE tree = "argmax"
  <2> DEFINE f == [i \in 0..(Elements - 1) |-> <<input[i], i>>]
             U == Share(A, Elements) \ {extra}
             V == Share(B, Elements) \ {extra}
  <2>1. f \in [0..(Elements - 1) -> Pairs] /\ Elements \in Nat
    <3>1. ASSUME NEW i \in 0..(Elements - 1) PROVE <<input[i], i>> \in Pairs
      <4>1. input[i] \in Int /\ input[i] >= NegInf /\ i \in 0..NoIdx
        <5>1. Items = 0..(Elements - 1) /\ Elements \in Nat /\ Elements < NoIdx /\ NoIdx = 1000
          BY InputsAre
        <5>2. \A k \in Items : input[k] \in Int /\ input[k] >= NegInf
          BY InputsAre
        <5> QED BY <5>1, <5>2
      <4> QED BY <4>1 DEF Pairs
    <3> QED BY <3>1, InputsAre
  <2>2. U \in SUBSET (0..(Elements - 1)) /\ V \in SUBSET (0..(Elements - 1))
        /\ Share(A \cup B, Elements) \ {extra} = U \cup V
    <3>1. Share(A \cup B, Elements) = Share(A, Elements) \cup Share(B, Elements)
          /\ \A X : Share(X, Elements) \subseteq 0..(Elements - 1)
      BY Shares
    <3> QED BY <3>1
  <2>3. \A X \in SUBSET (0..(Elements - 1)) :
          {<<input[i], i>> : i \in X} = Img(f, X)
    BY DEF Img
  <2> HIDE DEF f, U, V
  <2>4. BestPair(Img(f, U \cup V)) =
          Combined("best", BestPair(Img(f, U)), BestPair(Img(f, V)))
    BY <2>1, <2>2, BestJoin
  <2>5. /\ Whole(tree, A \cup B) = BestPair(Img(f, U \cup V))
        /\ Whole(tree, A) = BestPair(Img(f, U))
        /\ Whole(tree, B) = BestPair(Img(f, V))
    BY <1>1, <2>2, <2>3 DEF Whole, U, V
  <2> QED BY <1>1, <2>4, <2>5 DEF OpOf
<1>2. CASE tree = "partials"
  <2> DEFINE f == [b \in 0..(Parts - 1) |-> BlockPart(b)]
             U == Share(A, Parts)
             V == Share(B, Parts)
  <2>1. f \in [0..(Parts - 1) -> Pairs] /\ Parts \in Nat
    BY PartIs, Rows
  <2>2. U \in SUBSET (0..(Parts - 1)) /\ V \in SUBSET (0..(Parts - 1))
        /\ Share(A \cup B, Parts) = U \cup V
    BY Shares
  <2>3. \A X \in SUBSET (0..(Parts - 1)) :
          {BlockPart(b) : b \in X} = Img(f, X)
    BY DEF Img
  <2> HIDE DEF f, U, V
  <2>4. BestPair(Img(f, U \cup V)) =
          Combined("best", BestPair(Img(f, U)), BestPair(Img(f, V)))
    BY <2>1, <2>2, BestJoin
  <2>5. /\ Whole(tree, A \cup B) = BestPair(Img(f, U \cup V))
        /\ Whole(tree, A) = BestPair(Img(f, U))
        /\ Whole(tree, B) = BestPair(Img(f, V))
    BY <1>2, <2>2, <2>3 DEF Whole, U, V
  <2> QED BY <1>2, <2>4, <2>5 DEF OpOf
<1>3. CASE tree = "split"
  <2> DEFINE f == [i \in 0..(extra - 1) |-> input[i]]
             U == Share(A, extra)
             V == Share(B, extra)
  <2>1. f \in [0..(extra - 1) -> Values] /\ extra \in Nat
    <3>1. kernel = "split"
      BY <1>3 DEF Runs
    <3>2. extra \in 1..Elements /\ input \in [Items -> Values] /\ Items = 0..(Elements - 1)
          /\ Elements \in Nat
      BY <3>1, InputsAre
    <3>3. 0..(extra - 1) \subseteq Items
      BY <3>2
    <3> QED BY <3>2, <3>3
  <2>2. U \in SUBSET (0..(extra - 1)) /\ V \in SUBSET (0..(extra - 1))
        /\ Share(A \cup B, extra) = U \cup V
    BY Shares
  <2>3. \A X \in SUBSET (0..(extra - 1)) :
          {input[s] : s \in X} = Img(f, X)
    BY DEF Img
  <2> HIDE DEF f, U, V
  <2>4. Largest(Img(f, U \cup V)) =
          Combined("max", Largest(Img(f, U)), Largest(Img(f, V)))
    BY <2>1, <2>2, LargestJoin
  <2>5. /\ Whole(tree, A \cup B) = Largest(Img(f, U \cup V))
        /\ Whole(tree, A) = Largest(Img(f, U))
        /\ Whole(tree, B) = Largest(Img(f, V))
    BY <1>3, <2>2, <2>3 DEF Whole, U, V
  <2> QED BY <1>3, <2>4, <2>5 DEF OpOf
<1>4. CASE tree = "normrope"
  <2> DEFINE Terms(X) == {<<"squares", Original(i)>> : i \in Share(X, Elements)}
  <2>1. Terms(A \cup B) = Terms(A) \cup Terms(B)
    BY Shares
  <2>2. Terms(A) \cap Terms(B) = {}
    BY Shares DEF Original
  <2>3. \A X : Whole(tree, X) = SumOf(Terms(X))
    BY <1>4 DEF Whole
  <2> HIDE DEF Terms
  <2>4. SumOf(Terms(A) \cup Terms(B)) = Combined("add", SumOf(Terms(A)), SumOf(Terms(B)))
    BY <2>2, SumJoin
  <2> QED BY <1>4, <2>1, <2>3, <2>4 DEF OpOf
<1>5. CASE tree = "splitsum"
  <2> DEFINE Terms(X) == {<<"part", s, Exp(input[s], Top)>> : s \in Share(X, extra)}
  <2>1. Terms(A \cup B) = Terms(A) \cup Terms(B)
    BY Shares
  <2>2. Terms(A) \cap Terms(B) = {}
    BY Shares
  <2>3. \A X : Whole(tree, X) = SumOf(Terms(X))
    BY <1>5 DEF Whole
  <2> HIDE DEF Terms
  <2>4. SumOf(Terms(A) \cup Terms(B)) = Combined("add", SumOf(Terms(A)), SumOf(Terms(B)))
    BY <2>2, SumJoin
  <2> QED BY <1>5, <2>1, <2>3, <2>4 DEF OpOf
<1> QED BY <1>1, <1>2, <1>3, <1>4, <1>5 DEF Trees

-----------------------------------------------------------------------------
(* The programs.                                                           *)

Dos == {"barrier", "add", "max", "best", "mean", "squares", "scan", "scanparts",
        "greatest", "weights", "norm", "rope", "combine", "answer"}
Instr == [do : Dos, stride : Nat]

LEMMA TreeIs ==
  ASSUME NEW op \in Dos
  PROVE  /\ Tree(op) \in Seq(Instr) /\ Len(Tree(op)) = 2 * Levels
         /\ \A j \in 1..Levels :
              /\ Tree(op)[2 * j - 1] = [do |-> op, stride |-> Stride(j)]
              /\ Tree(op)[2 * j] = Bar
<1>1. Levels \in 1..10 /\ \A j \in 0..Levels : Stride(j) \in Nat
  BY Strides
<1>2. Bar \in Instr
  BY DEF Bar, I, Instr, Dos
<1>3. ASSUME NEW i \in 1..(2 * Levels) PROVE Tree(op)[i] \in Instr
  <2>1. CASE i % 2 = 0
    BY <2>1, <1>2 DEF Tree
  <2>2. CASE i % 2 # 0
    <3> DEFINE j == (i + 1) \div 2
    <3>1. j \in 0..Levels
      BY <1>1
    <3>2. Tree(op)[i] = [do |-> op, stride |-> Stride(j)]
      BY <2>2 DEF Tree, Stride
    <3> HIDE DEF j
    <3> QED BY <3>1, <3>2, <1>1 DEF Instr
  <2> QED BY <2>1, <2>2
<1>4. Tree(op) \in [1..(2 * Levels) -> Instr]
  BY <1>3 DEF Tree
<1>5. Tree(op) \in Seq(Instr) /\ Len(Tree(op)) = 2 * Levels
  <2>1. 2 * Levels \in Nat
    BY <1>1
  <2> QED BY <2>1, <1>4
<1>6. ASSUME NEW j \in 1..Levels
      PROVE  /\ Tree(op)[2 * j - 1] = [do |-> op, stride |-> Stride(j)]
             /\ Tree(op)[2 * j] = Bar
  <2>1. 2 * j - 1 \in 1..(2 * Levels) /\ 2 * j \in 1..(2 * Levels)
        /\ (2 * j - 1) % 2 # 0 /\ (2 * j) % 2 = 0 /\ ((2 * j - 1) + 1) \div 2 = j
    BY <1>1
  <2> QED BY <2>1 DEF Tree, Stride
<1> QED BY <1>5, <1>6

\* Two programs one after the other.
LEMMA Joined ==
  ASSUME NEW s \in Seq(Instr), NEW t \in Seq(Instr)
  PROVE  /\ s \o t \in Seq(Instr) /\ Len(s \o t) = Len(s) + Len(t)
         /\ \A i \in 1..Len(s) : (s \o t)[i] = s[i]
         /\ \A i \in 1..Len(t) : (s \o t)[Len(s) + i] = t[i]
<1>1. Len(s) \in Nat /\ Len(t) \in Nat
  OBVIOUS
<1>2. s \o t \in Seq(Instr) /\ Len(s \o t) = Len(s) + Len(t)
  BY ConcatProperties
<1>3. \A i \in 1..(Len(s) + Len(t)) :
        (s \o t)[i] = IF i <= Len(s) THEN s[i] ELSE t[i - Len(s)]
  BY ConcatProperties
<1>4. \A i \in 1..Len(s) : (s \o t)[i] = s[i]
  BY <1>1, <1>3
<1>5. ASSUME NEW i \in 1..Len(t) PROVE (s \o t)[Len(s) + i] = t[i]
  <2>1. Len(s) + i \in 1..(Len(s) + Len(t)) /\ ~(Len(s) + i <= Len(s))
        /\ (Len(s) + i) - Len(s) = i
    BY <1>1
  <2> QED BY <2>1, <1>3
<1> QED BY <1>2, <1>4, <1>5

\* A program that has a tree in it.
Has(c, b, pre, op, rest) ==
  /\ c \in Seq(Instr) /\ Len(c) = b + 2 * Levels + Len(rest)
  /\ \A i \in 1..b : c[i] = pre[i]
  /\ \A j \in 1..Levels :
       /\ c[b + 2 * j - 1] = [do |-> op, stride |-> Stride(j)]
       /\ c[b + 2 * j] = Bar
  /\ \A i \in 1..Len(rest) : c[b + 2 * Levels + i] = rest[i]

LEMMA Layout ==
  ASSUME NEW pre \in Seq(Instr), NEW op \in Dos, NEW rest \in Seq(Instr), NEW b \in Nat,
         Len(pre) = b
  PROVE  Has(pre \o Tree(op) \o rest, b, pre, op, rest)
<1> DEFINE T == Tree(op)
           m == pre \o T
           c == m \o rest
<1>1. T \in Seq(Instr) /\ Len(T) = 2 * Levels /\ Levels \in 1..10
      /\ \A j \in 1..Levels :
           T[2 * j - 1] = [do |-> op, stride |-> Stride(j)] /\ T[2 * j] = Bar
  BY TreeIs, Strides
<1> HIDE DEF T, c
<1>2. T = Tree(op)
  BY DEF T
<1>3. /\ m \in Seq(Instr) /\ Len(m) = b + 2 * Levels
      /\ \A i \in 1..b : m[i] = pre[i]
      /\ \A i \in 1..(2 * Levels) : m[b + i] = T[i]
  BY <1>1, Joined
<1> HIDE DEF m
<1> DEFINE n == b + 2 * Levels
<1>4. /\ c \in Seq(Instr) /\ Len(c) = Len(m) + Len(rest)
      /\ \A i \in 1..Len(m) : c[i] = m[i]
      /\ \A i \in 1..Len(rest) : c[Len(m) + i] = rest[i]
  BY <1>3, Joined DEF c
<1>5. n = b + 2 * Levels /\ Len(m) = n
  BY <1>3
<1> HIDE DEF n
<1>6. ASSUME NEW j \in 1..Levels
      PROVE  /\ c[b + 2 * j - 1] = [do |-> op, stride |-> Stride(j)]
             /\ c[b + 2 * j] = Bar
  <2>1. 2 * j - 1 \in 1..(2 * Levels) /\ 2 * j \in 1..(2 * Levels)
        /\ b + 2 * j - 1 = b + (2 * j - 1)
        /\ b + 2 * j - 1 \in 1..n /\ b + 2 * j \in 1..n
    BY <1>1, <1>5
  <2>3. c[b + 2 * j - 1] = m[b + 2 * j - 1] /\ c[b + 2 * j] = m[b + 2 * j]
    BY <2>1, <1>4, <1>5
  <2>2. c[b + 2 * j - 1] = T[2 * j - 1] /\ c[b + 2 * j] = T[2 * j]
    BY <2>1, <2>3, <1>3
  <2> QED BY <2>2, <1>1
<1>7. \A i \in 1..b : c[i] = pre[i]
  <2>1. \A i \in 1..b : i \in 1..n
    BY <1>1, <1>5
  <2> QED BY <2>1, <1>3, <1>4, <1>5
<1>8. \A i \in 1..Len(rest) : c[b + 2 * Levels + i] = rest[i]
  BY <1>4, <1>5
<1>9. Len(c) = b + 2 * Levels + Len(rest)
  BY <1>4, <1>5
<1>10. Has(c, b, pre, op, rest)
  BY <1>4, <1>6, <1>7, <1>8, <1>9 DEF Has
<1> QED BY <1>10 DEF c, m, T

LEMMA InstrIs ==
  /\ \A do \in Dos : I(do) \in Instr /\ I(do).do = do
  /\ Bar \in Instr /\ Bar.do = "barrier"
<1>1. \A do \in Dos : I(do) \in Instr /\ I(do).do = do
  BY DEF I, Instr
<1>2. "barrier" \in Dos
  BY DEF Dos
<1> QED BY <1>1, <1>2 DEF Bar

\* A kernel with one tree, or the first tree of one with two.
Starts(c, leaf, op, rest) ==
  /\ c \in Seq(Instr) /\ Len(c) = 2 * Levels + 2 + Len(rest)
  /\ c[1].do = leaf /\ c[2].do = "barrier"
  /\ \A j \in 1..Levels :
       /\ c[2 + 2 * j - 1] = [do |-> op, stride |-> Stride(j)]
       /\ c[2 + 2 * j].do = "barrier"
  /\ \A i \in 1..Len(rest) : c[2 * Levels + 2 + i] = rest[i]

LEMMA OneTree ==
  ASSUME NEW leaf \in Dos, NEW op \in Dos, NEW rest \in Seq(Instr)
  PROVE  Starts(<<I(leaf), Bar>> \o Tree(op) \o rest, leaf, op, rest)
<1> DEFINE pre == <<I(leaf), Bar>>
           c == pre \o Tree(op) \o rest
<1>1. I(leaf) \in Instr /\ I(leaf).do = leaf /\ Bar \in Instr /\ Bar.do = "barrier"
  BY InstrIs
<1>2. pre \in Seq(Instr) /\ Len(pre) = 2 /\ pre[1].do = leaf /\ pre[2].do = "barrier"
  BY <1>1
<1> HIDE DEF pre
<1>3. Has(c, 2, pre, op, rest)
  BY <1>2, Layout
<1> HIDE DEF c
<1>4. /\ c \in Seq(Instr) /\ Len(c) = 2 + 2 * Levels + Len(rest)
      /\ \A i \in 1..2 : c[i] = pre[i]
      /\ \A j \in 1..Levels :
           /\ c[2 + 2 * j - 1] = [do |-> op, stride |-> Stride(j)]
           /\ c[2 + 2 * j] = Bar
      /\ \A i \in 1..Len(rest) : c[2 + 2 * Levels + i] = rest[i]
  BY <1>3 DEF Has
<1>5. Levels \in Nat /\ Len(rest) \in Nat
  BY Strides
<1>6. c[1] = pre[1] /\ c[2] = pre[2]
  BY <1>4
<1>7. \A i \in 1..Len(rest) : c[2 * Levels + 2 + i] = rest[i]
  <2> TAKE i \in 1..Len(rest)
  <2>1. 2 * Levels + 2 + i = 2 + 2 * Levels + i
    BY <1>5
  <2> QED BY <2>1, <1>4
<1>8. Len(c) = 2 * Levels + 2 + Len(rest)
  BY <1>4, <1>5
<1>9. Starts(c, leaf, op, rest)
  BY <1>1, <1>2, <1>4, <1>6, <1>7, <1>8 DEF Starts
<1> QED BY <1>9 DEF c, pre

\* the position before a tree's first level, and the one that ends its values
Base(tree) == IF tree = "splitsum" THEN 2 * Levels + 5 ELSE 2
Spoilt(tree) == IF tree = "split" THEN 2 * Levels + 4 ELSE Len(Code) + 1

\* what follows the first tree
RestOf(k) ==
  CASE k \in {"argmax", "partials"} -> <<"answer">>
    [] k = "normrope" -> <<"norm", "barrier", "rope">>
    [] k = "split" -> <<"mean", "weights", "barrier">>

LeafOf(tree) ==
  CASE tree = "argmax" -> "scan" [] tree = "partials" -> "scanparts"
    [] tree = "normrope" -> "squares" [] tree = "split" -> "greatest"
    [] tree = "splitsum" -> "weights"

LEMMA CodeIs ==
  ASSUME Launched
  PROVE  /\ Code \in Seq(Instr)
         /\ Len(Code) = IF kernel = "split" THEN 4 * Levels + 6
                        ELSE 2 * Levels + 2 + Len(RestOf(kernel))
         /\ Code[1].do = LeafOf(kernel) /\ Code[2].do = "barrier"
         /\ \A i \in 1..Len(RestOf(kernel)) :
              Code[2 * Levels + 2 + i].do = RestOf(kernel)[i]
         /\ \A tree \in Trees : Runs(tree) => \A j \in 1..Levels :
              /\ Code[Base(tree) + 2 * j - 1] = [do |-> OpOf(tree), stride |-> Stride(j)]
              /\ Code[Base(tree) + 2 * j].do = "barrier"
         /\ kernel = "split" => Code[4 * Levels + 6].do = "combine"
<1>1. CASE kernel = "argmax"
  <2> DEFINE rest == <<I("answer")>>
  <2>1. I("answer") \in Instr /\ I("answer").do = "answer"
        /\ Bar \in Instr /\ Bar.do = "barrier"
    BY InstrIs DEF Dos
  <2>2. rest \in Seq(Instr) /\ Len(rest) = 1 /\ rest[1].do = "answer"
    BY <2>1
  <2>3. "scan" \in Dos /\ "best" \in Dos
    BY DEF Dos
  <2> DEFINE c == <<I("scan"), Bar>> \o Tree("best") \o rest
  <2>4. Code = c
    BY <1>1 DEF Code, ArgmaxCode
  <2> HIDE DEF rest
  <2>9. Starts(c, "scan", "best", rest)
    BY <2>2, <2>3, OneTree
  <2> HIDE DEF c
  <2>5. /\ Code \in Seq(Instr) /\ Len(Code) = 2 * Levels + 2 + Len(rest)
        /\ Code[1].do = "scan" /\ Code[2].do = "barrier"
        /\ \A j \in 1..Levels :
             /\ Code[2 + 2 * j - 1] = [do |-> "best", stride |-> Stride(j)]
             /\ Code[2 + 2 * j].do = "barrier"
        /\ \A i \in 1..Len(rest) : Code[2 * Levels + 2 + i] = rest[i]
    BY <2>4, <2>9 DEF Starts
  <2>6. RestOf(kernel) = <<"answer">> /\ LeafOf(kernel) = "scan"
        /\ kernel # "split"
    BY <1>1 DEF RestOf, LeafOf
  <2>7. Len(RestOf(kernel)) = 1 /\ \A i \in 1..1 : RestOf(kernel)[i] = rest[i].do
    BY <2>2, <2>6
  <2>8. \A tree \in Trees : Runs(tree) => Base(tree) = 2 /\ OpOf(tree) = "best"
    BY <1>1 DEF Runs, Base, OpOf
  <2> QED BY <2>2, <2>5, <2>6, <2>7, <2>8
<1>2. CASE kernel = "partials"
  <2> DEFINE rest == <<I("answer")>>
  <2>1. I("answer") \in Instr /\ I("answer").do = "answer"
        /\ Bar \in Instr /\ Bar.do = "barrier"
    BY InstrIs DEF Dos
  <2>2. rest \in Seq(Instr) /\ Len(rest) = 1 /\ rest[1].do = "answer"
    BY <2>1
  <2>3. "scanparts" \in Dos /\ "best" \in Dos
    BY DEF Dos
  <2> DEFINE c == <<I("scanparts"), Bar>> \o Tree("best") \o rest
  <2>4. Code = c
    BY <1>2 DEF Code, PartialsCode
  <2> HIDE DEF rest
  <2>9. Starts(c, "scanparts", "best", rest)
    BY <2>2, <2>3, OneTree
  <2> HIDE DEF c
  <2>5. /\ Code \in Seq(Instr) /\ Len(Code) = 2 * Levels + 2 + Len(rest)
        /\ Code[1].do = "scanparts" /\ Code[2].do = "barrier"
        /\ \A j \in 1..Levels :
             /\ Code[2 + 2 * j - 1] = [do |-> "best", stride |-> Stride(j)]
             /\ Code[2 + 2 * j].do = "barrier"
        /\ \A i \in 1..Len(rest) : Code[2 * Levels + 2 + i] = rest[i]
    BY <2>4, <2>9 DEF Starts
  <2>6. RestOf(kernel) = <<"answer">> /\ LeafOf(kernel) = "scanparts"
        /\ kernel # "split"
    BY <1>2 DEF RestOf, LeafOf
  <2>7. Len(RestOf(kernel)) = 1 /\ \A i \in 1..1 : RestOf(kernel)[i] = rest[i].do
    BY <2>2, <2>6
  <2>8. \A tree \in Trees : Runs(tree) => Base(tree) = 2 /\ OpOf(tree) = "best"
    BY <1>2 DEF Runs, Base, OpOf
  <2> QED BY <2>2, <2>5, <2>6, <2>7, <2>8
<1>3. CASE kernel = "normrope"
  <2> DEFINE rest == <<I("norm"), Bar, I("rope")>>
  <2>1. I("norm") \in Instr /\ I("norm").do = "norm"
        /\ I("rope") \in Instr /\ I("rope").do = "rope"
        /\ Bar \in Instr /\ Bar.do = "barrier"
    BY InstrIs DEF Dos
  <2>2. rest \in Seq(Instr) /\ Len(rest) = 3 /\ rest[1].do = "norm"
        /\ rest[2].do = "barrier" /\ rest[3].do = "rope"
    BY <2>1
  <2>3. "squares" \in Dos /\ "add" \in Dos
    BY DEF Dos
  <2> DEFINE c == <<I("squares"), Bar>> \o Tree("add") \o rest
  <2>4. Code = c
    BY <1>3 DEF Code, NormRopeCode
  <2> HIDE DEF rest
  <2>9. Starts(c, "squares", "add", rest)
    BY <2>2, <2>3, OneTree
  <2> HIDE DEF c
  <2>5. /\ Code \in Seq(Instr) /\ Len(Code) = 2 * Levels + 2 + Len(rest)
        /\ Code[1].do = "squares" /\ Code[2].do = "barrier"
        /\ \A j \in 1..Levels :
             /\ Code[2 + 2 * j - 1] = [do |-> "add", stride |-> Stride(j)]
             /\ Code[2 + 2 * j].do = "barrier"
        /\ \A i \in 1..Len(rest) : Code[2 * Levels + 2 + i] = rest[i]
    BY <2>4, <2>9 DEF Starts
  <2>6. RestOf(kernel) = <<"norm", "barrier", "rope">> /\ LeafOf(kernel) = "squares"
        /\ kernel # "split"
    BY <1>3 DEF RestOf, LeafOf
  <2>7. Len(RestOf(kernel)) = 3 /\ \A i \in 1..3 : RestOf(kernel)[i] = rest[i].do
    BY <2>2, <2>6
  <2>8. \A tree \in Trees : Runs(tree) => Base(tree) = 2 /\ OpOf(tree) = "add"
    BY <1>3 DEF Runs, Base, OpOf
  <2> QED BY <2>2, <2>5, <2>6, <2>7, <2>8
<1>4. CASE kernel = "split"
  <2> DEFINE mid == <<I("mean"), I("weights"), Bar>>
             end == <<I("combine")>>
             a == <<I("greatest"), Bar>> \o Tree("max") \o mid
             c == a \o Tree("add") \o end
             b == 2 * Levels + 5
  <2>1. I("mean") \in Instr /\ I("mean").do = "mean" /\ I("weights") \in Instr
        /\ I("weights").do = "weights" /\ I("combine") \in Instr
        /\ I("combine").do = "combine" /\ Bar \in Instr /\ Bar.do = "barrier"
    BY InstrIs DEF Dos
  <2>2. mid \in Seq(Instr) /\ Len(mid) = 3 /\ mid[1].do = "mean" /\ mid[2].do = "weights"
        /\ mid[3].do = "barrier"
    BY <2>1
  <2>3. end \in Seq(Instr) /\ Len(end) = 1 /\ end[1].do = "combine"
    BY <2>1
  <2>4. Code = c
    BY <1>4 DEF Code, SplitCode
  <2>5. "greatest" \in Dos /\ "max" \in Dos /\ "add" \in Dos /\ Levels \in 1..10
    BY Strides DEF Dos
  <2> HIDE DEF mid, end, c
  <2>17. Starts(a, "greatest", "max", mid)
    BY <2>2, <2>5, OneTree
  <2> HIDE DEF a
  <2>6. /\ a \in Seq(Instr) /\ Len(a) = 2 * Levels + 2 + Len(mid)
        /\ a[1].do = "greatest" /\ a[2].do = "barrier"
        /\ \A j \in 1..Levels :
             /\ a[2 + 2 * j - 1] = [do |-> "max", stride |-> Stride(j)]
             /\ a[2 + 2 * j].do = "barrier"
        /\ \A i \in 1..Len(mid) : a[2 * Levels + 2 + i] = mid[i]
    BY <2>17 DEF Starts
  <2>7. b \in Nat /\ Len(a) = b
    <3>1. Levels \in Nat
      BY <2>5
    <3>2. Len(a) = 2 * Levels + 2 + 3
      BY <2>2, <2>6
    <3> QED BY <3>1, <3>2
  <2> HIDE DEF b
  <2>18. Has(c, b, a, "add", end)
    BY <2>3, <2>5, <2>6, <2>7, Layout DEF c
  <2>8. /\ Code \in Seq(Instr) /\ Len(Code) = b + 2 * Levels + Len(end)
        /\ \A i \in 1..b : Code[i] = a[i]
        /\ \A j \in 1..Levels :
             /\ Code[b + 2 * j - 1] = [do |-> "add", stride |-> Stride(j)]
             /\ Code[b + 2 * j] = Bar
        /\ \A i \in 1..Len(end) : Code[b + 2 * Levels + i] = end[i]
    BY <2>4, <2>18 DEF Has
  <2>9. 1 \in 1..b /\ 2 \in 1..b
        /\ \A i \in 1..3 : 2 * Levels + 2 + i \in 1..b
        /\ \A j \in 1..Levels : 2 + 2 * j - 1 \in 1..b /\ 2 + 2 * j \in 1..b
    <3>1. Levels \in Nat /\ b = 2 * Levels + 5
      BY <2>5 DEF b
    <3> QED BY <3>1
  <2>10. Code[1].do = "greatest" /\ Code[2].do = "barrier"
    BY <2>6, <2>8, <2>9
  <2>11. \A i \in 1..3 : Code[2 * Levels + 2 + i] = mid[i]
    BY <2>2, <2>6, <2>8, <2>9
  <2>12. \A j \in 1..Levels :
           /\ Code[2 + 2 * j - 1] = [do |-> "max", stride |-> Stride(j)]
           /\ Code[2 + 2 * j].do = "barrier"
    BY <2>6, <2>8, <2>9
  <2>13. Code[4 * Levels + 6].do = "combine" /\ Len(Code) = 4 * Levels + 6
    <3>1. b + 2 * Levels + 1 = 4 * Levels + 6
      <4>1. Levels \in Nat /\ b = 2 * Levels + 5
        BY <2>5 DEF b
      <4> QED BY <4>1
    <3>2. Code[b + 2 * Levels + 1] = end[1] /\ Len(Code) = b + 2 * Levels + 1
      BY <2>3, <2>8
    <3> QED BY <3>1, <3>2, <2>3
  <2>14. RestOf(kernel) = <<"mean", "weights", "barrier">> /\ LeafOf(kernel) = "greatest"
    BY <1>4 DEF RestOf, LeafOf
  <2>15. Len(RestOf(kernel)) = 3 /\ \A i \in 1..3 : RestOf(kernel)[i] = mid[i].do
    BY <2>2, <2>14
  <2>16. \A tree \in Trees : Runs(tree) =>
           \/ Base(tree) = 2 /\ OpOf(tree) = "max"
           \/ Base(tree) = b /\ OpOf(tree) = "add"
    BY <1>4 DEF Runs, Base, OpOf, b
  <2> QED BY <1>4, <2>1, <2>8, <2>10, <2>11, <2>12, <2>13, <2>14, <2>15, <2>16
<1> QED BY <1>1, <1>2, <1>3, <1>4 DEF Launched

-----------------------------------------------------------------------------
(* The inductive invariant.                                                *)

\* the position of level j of a tree; its leaves are level 0
FoldAt(tree, j) == Base(tree) + 2 * j - 1

\* the last position a first reduction's value is read or written at
AnswerAt == 2 * Levels + 3

TypesAre ==
  /\ Launched
  /\ shared = [t \in Tids |-> shared[t]] /\ reg = [t \in Tids |-> reg[t]]
  /\ cells = [i \in 0..(Elements + Threads - 1) |-> cells[i]]
  /\ at \in [Warps -> 1..(Len(Code) + 1)]

\* No warp is past a barrier that another has not come to.
Together ==
  \A p \in 1..Len(Code) : Code[p].do = "barrier" =>
    \A v, w \in Warps : at[w] > p => at[v] >= p

\* Thread t holds what its column found, from the level it took part in last
\* until the next one it takes part in.
Holds(tree, t, i) ==
  /\ t < Stride(i) /\ at[WarpOf(t)] > FoldAt(tree, i)
  /\ i = Levels \/ t >= Stride(i + 1) \/ at[WarpOf(t)] <= FoldAt(tree, i + 1)
  /\ at[WarpOf(t)] <= Spoilt(tree)

LevelsHold ==
  \A tree \in Trees, t \in Tids, i \in 0..Levels :
    Runs(tree) /\ Holds(tree, t, i) =>
      shared[t] = Whole(tree, Column(t, Stride(i)))

\* the thread that normalises element i, the one that rotates it
NormOwner(i) == i % Threads
RopeOwner(i) == (IF i < extra THEN i ELSE i - extra) % Threads

NormOf(i) == <<"normed", Original(i), Whole("normrope", Tids)>>
RopeOf(i) == IF i < extra THEN <<"low", i, NormOf(i), NormOf(i + extra)>>
             ELSE <<"high", i, NormOf(i - extra), NormOf(i)>>

Turned(i) == i < 2 * extra /\ at[WarpOf(RopeOwner(i))] > AnswerAt + 2

HeadHolds ==
  kernel = "normrope" => \A i \in Items :
    /\ at[WarpOf(NormOwner(i))] <= AnswerAt => cells[i] = Original(i)
    /\ at[WarpOf(NormOwner(i))] > AnswerAt =>
         cells[i] = IF Turned(i) THEN RopeOf(i) ELSE NormOf(i)

SplitHolds ==
  kernel = "split" =>
    /\ at[0] > AnswerAt => \A t \in Lanes(0) : reg[t] = Top
    /\ \A s \in 0..(extra - 1) :
         cells[s] = IF at[WarpOf(s % Threads)] <= AnswerAt + 1 THEN input[s]
                    ELSE Exp(input[s], Top)
    /\ \A t \in Tids : at[WarpOf(t)] > Len(Code) =>
         cells[Elements + t] =
           <<"combined", [s \in 0..(extra - 1) |-> Exp(input[s], Top)],
             Whole("splitsum", Tids)>>

AnswerHolds ==
  kernel \in {"argmax", "partials"} /\ at[0] > AnswerAt =>
    cells[Elements] = Found(Whole(kernel, Tids))

Good == TypesAre /\ Together /\ LevelsHold /\ HeadHolds /\ SplitHolds /\ AnswerHolds

Inductive == kernel \in {"argmax", "partials", "normrope", "split"} => Good

-----------------------------------------------------------------------------
(* Which instruction stands where.                                         *)

LEMMA Numbered ==
  ASSUME Launched
  PROVE  /\ Levels \in 1..10 /\ AnswerAt = 2 * Levels + 3
         /\ Len(Code) \in Nat /\ AnswerAt <= Len(Code)
         /\ kernel \in {"argmax", "partials"} =>
              Len(Code) = AnswerAt /\ Code[AnswerAt].do = "answer"
         /\ kernel = "normrope" =>
              /\ Len(Code) = AnswerAt + 2 /\ Code[AnswerAt].do = "norm"
              /\ Code[AnswerAt + 1].do = "barrier" /\ Code[AnswerAt + 2].do = "rope"
         /\ kernel = "split" =>
              /\ Len(Code) = 4 * Levels + 6 /\ Code[AnswerAt].do = "mean"
              /\ Code[AnswerAt + 1].do = "weights" /\ Code[AnswerAt + 2].do = "barrier"
              /\ Code[Len(Code)].do = "combine"
<1>1. Levels \in 1..10 /\ AnswerAt = 2 * Levels + 3
  BY Strides DEF AnswerAt
<1>2. Code \in Seq(Instr) /\ Len(Code) \in Nat
  BY CodeIs
<1>3. ASSUME NEW i \in 1..Len(RestOf(kernel))
      PROVE  Code[2 * Levels + 2 + i].do = RestOf(kernel)[i]
  BY CodeIs
<1>4. /\ Len(Code) = IF kernel = "split" THEN 4 * Levels + 6
                     ELSE 2 * Levels + 2 + Len(RestOf(kernel))
      /\ kernel = "split" => Code[4 * Levels + 6].do = "combine"
  BY CodeIs
<1>5. /\ 2 * Levels + 2 + 1 = AnswerAt /\ 2 * Levels + 2 + 2 = AnswerAt + 1
      /\ 2 * Levels + 2 + 3 = AnswerAt + 2
  BY <1>1
<1>6. CASE kernel \in {"argmax", "partials"}
  <2>1. RestOf(kernel) = <<"answer">> /\ kernel # "split" /\ kernel # "normrope"
    BY <1>6 DEF RestOf
  <2>2. Len(RestOf(kernel)) = 1 /\ RestOf(kernel)[1] = "answer"
    BY <2>1
  <2> HIDE DEF AnswerAt
  <2>3. Code[AnswerAt].do = "answer"
    BY <2>2, <1>3, <1>5
  <2>4. Len(Code) = AnswerAt
    BY <2>1, <2>2, <1>4, <1>5
  <2> QED BY <2>1, <2>3, <2>4, <1>1, <1>2
<1>7. CASE kernel = "normrope"
  <2>1. RestOf(kernel) = <<"norm", "barrier", "rope">>
    BY <1>7 DEF RestOf
  <2>2. Len(RestOf(kernel)) = 3 /\ RestOf(kernel)[1] = "norm"
        /\ RestOf(kernel)[2] = "barrier" /\ RestOf(kernel)[3] = "rope"
    BY <2>1
  <2>3. Code[AnswerAt].do = "norm" /\ Code[AnswerAt + 1].do = "barrier"
        /\ Code[AnswerAt + 2].do = "rope"
    BY <2>2, <1>3, <1>5
  <2>4. Len(Code) = AnswerAt + 2
    BY <1>7, <2>2, <1>4, <1>5
  <2> QED BY <1>7, <2>3, <2>4, <1>1, <1>2
<1>8. CASE kernel = "split"
  <2>1. RestOf(kernel) = <<"mean", "weights", "barrier">>
    BY <1>8 DEF RestOf
  <2>2. Len(RestOf(kernel)) = 3 /\ RestOf(kernel)[1] = "mean"
        /\ RestOf(kernel)[2] = "weights" /\ RestOf(kernel)[3] = "barrier"
    BY <2>1
  <2>3. Code[AnswerAt].do = "mean" /\ Code[AnswerAt + 1].do = "weights"
        /\ Code[AnswerAt + 2].do = "barrier"
    BY <2>2, <1>3, <1>5
  <2>4. Len(Code) = 4 * Levels + 6 /\ Code[Len(Code)].do = "combine"
    BY <1>8, <1>4
  <2>5. AnswerAt <= Len(Code)
    BY <2>4, <1>1
  <2> QED BY <1>8, <2>3, <2>4, <2>5, <1>1, <1>2
<1> QED BY <1>6, <1>7, <1>8 DEF Launched

\* what a tree is made of, and where
LEMMA Trunk ==
  ASSUME Launched, NEW tree \in Trees, Runs(tree)
  PROVE  /\ Base(tree) = IF tree = "splitsum" THEN AnswerAt + 2 ELSE 2
         /\ tree = "splitsum" => kernel = "split"
         /\ tree # "splitsum" => tree = kernel
         /\ Code[Base(tree)].do = "barrier"
         /\ \A j \in 1..Levels :
              /\ FoldAt(tree, j) \in 1..Len(Code)
              /\ Code[FoldAt(tree, j)] = [do |-> OpOf(tree), stride |-> Stride(j)]
              /\ FoldAt(tree, j) + 1 \in 1..Len(Code)
              /\ Code[FoldAt(tree, j) + 1].do = "barrier"
              /\ FoldAt(tree, j) - 1 \in 1..Len(Code)
              /\ Code[FoldAt(tree, j) - 1].do = "barrier"
         /\ \A j \in 0..Levels : FoldAt(tree, j) = Base(tree) + 2 * j - 1
<1>1. /\ Levels \in 1..10 /\ AnswerAt = 2 * Levels + 3
      /\ Len(Code) \in Nat /\ AnswerAt <= Len(Code)
      /\ kernel = "split" =>
           Len(Code) = 4 * Levels + 6 /\ Code[AnswerAt + 2].do = "barrier"
  BY Numbered
<1>2. /\ Base(tree) = IF tree = "splitsum" THEN AnswerAt + 2 ELSE 2
      /\ tree = "splitsum" => kernel = "split"
      /\ tree # "splitsum" => tree = kernel
  <2>1. 2 * Levels + 5 = AnswerAt + 2
    BY <1>1
  <2>2. "splitsum" # kernel
    BY DEF Launched
  <2> QED BY <2>1, <2>2 DEF Base, Runs
<1>3. Code[Base(tree)].do = "barrier"
  <2>1. Code[2].do = "barrier"
    BY CodeIs
  <2> QED BY <2>1, <1>1, <1>2
<1>4. \A j \in 1..Levels :
        /\ Code[Base(tree) + 2 * j - 1] = [do |-> OpOf(tree), stride |-> Stride(j)]
        /\ Code[Base(tree) + 2 * j].do = "barrier"
  BY CodeIs
<1>5. ASSUME NEW j \in 1..Levels
      PROVE  /\ FoldAt(tree, j) \in 1..Len(Code)
             /\ Code[FoldAt(tree, j)] = [do |-> OpOf(tree), stride |-> Stride(j)]
             /\ FoldAt(tree, j) + 1 \in 1..Len(Code)
             /\ Code[FoldAt(tree, j) + 1].do = "barrier"
             /\ FoldAt(tree, j) - 1 \in 1..Len(Code)
             /\ Code[FoldAt(tree, j) - 1].do = "barrier"
  <2> DEFINE b == Base(tree)
             n == Len(Code)
  <2>1. b \in Nat /\ b >= 2 /\ b + 2 * Levels <= n /\ n \in Nat
    BY <1>1, <1>2
  <2>2. FoldAt(tree, j) = b + 2 * j - 1
    BY DEF FoldAt
  <2> HIDE DEF b, n
  <2>3. /\ b + 2 * j - 1 \in 1..n /\ (b + 2 * j - 1) + 1 = b + 2 * j
        /\ b + 2 * j \in 1..n /\ (b + 2 * j - 1) - 1 \in 1..n
    BY <2>1, <1>1
  <2>4. Code[(b + 2 * j - 1) - 1].do = "barrier"
    <3>1. CASE j = 1
      <4>1. (b + 2 * j - 1) - 1 = b
        BY <3>1, <2>1
      <4> QED BY <4>1, <1>3 DEF b
    <3>2. CASE j # 1
      <4> DEFINE k == j - 1
      <4>1. k \in 1..Levels /\ (b + 2 * j - 1) - 1 = b + 2 * k
        BY <3>2, <2>1, <1>1
      <4> HIDE DEF k
      <4> QED BY <4>1, <1>4 DEF b
    <3> QED BY <3>1, <3>2
  <2>5. Code[b + 2 * j - 1] = [do |-> OpOf(tree), stride |-> Stride(j)]
        /\ Code[b + 2 * j].do = "barrier"
    BY <1>4 DEF b
  <2> QED BY <2>2, <2>3, <2>4, <2>5 DEF n
<1>6. \A j \in 0..Levels : FoldAt(tree, j) = Base(tree) + 2 * j - 1
  BY DEF FoldAt
<1> QED BY <1>2, <1>3, <1>5, <1>6

\* The instructions that are no barrier.
Place(p) ==
  \/ p = 1 /\ Code[p].do = LeafOf(kernel)
  \/ Code[p].do = "barrier"
  \/ \E tree \in Trees, j \in 1..Levels : Runs(tree) /\ p = FoldAt(tree, j)
  \/ p = AnswerAt
  \/ kernel = "normrope" /\ p = AnswerAt + 2
  \/ kernel = "split" /\ p \in {AnswerAt + 1, Len(Code)}

LEMMA Where ==
  ASSUME Launched, NEW p \in 1..Len(Code)
  PROVE  Place(p)
<1>1. /\ Levels \in 1..10 /\ AnswerAt = 2 * Levels + 3 /\ Len(Code) \in Nat
      /\ kernel \in {"argmax", "partials"} => Len(Code) = AnswerAt
      /\ kernel = "normrope" =>
           Len(Code) = AnswerAt + 2 /\ Code[AnswerAt + 1].do = "barrier"
      /\ kernel = "split" =>
           Len(Code) = 4 * Levels + 6 /\ Code[AnswerAt + 2].do = "barrier"
  BY Numbered
<1>2. Code[1].do = LeafOf(kernel) /\ Code[2].do = "barrier"
  BY CodeIs
<1>3. kernel \in Trees /\ Runs(kernel) /\ kernel # "splitsum"
  BY DEF Trees, Runs, Launched
<1>4. kernel = "split" => "splitsum" \in Trees /\ Runs("splitsum")
  BY DEF Trees, Runs
<1>5. ASSUME NEW tree \in Trees, Runs(tree), NEW j \in 1..Levels,
             p = Base(tree) + 2 * j - 1 \/ p = Base(tree) + 2 * j
      PROVE  Place(p)
  <2>1. /\ FoldAt(tree, j) = Base(tree) + 2 * j - 1
        /\ Code[FoldAt(tree, j) + 1].do = "barrier" /\ Base(tree) \in Nat
    <3>1. FoldAt(tree, j) = Base(tree) + 2 * j - 1
      BY DEF FoldAt
    <3>2. Code[FoldAt(tree, j) + 1].do = "barrier"
      BY <1>5, Trunk
    <3>3. Base(tree) \in Nat
      BY <1>1 DEF Base
    <3> QED BY <3>1, <3>2, <3>3
  <2>2. CASE p = Base(tree) + 2 * j - 1
    BY <2>1, <2>2, <1>5 DEF Place
  <2>3. CASE p = Base(tree) + 2 * j
    <3>1. p = FoldAt(tree, j) + 1
      BY <2>1, <2>3, <1>1
    <3> QED BY <3>1, <2>1 DEF Place
  <2> QED BY <2>2, <2>3, <1>5
<1>6. CASE p = 1 \/ p = 2
  BY <1>6, <1>2 DEF Place
<1>7. CASE p > 2 /\ p < AnswerAt
  <2> DEFINE j == (p - 1) \div 2
  <2>1. j \in 1..Levels /\ (p = 2 + 2 * j - 1 \/ p = 2 + 2 * j)
    BY <1>1, <1>7
  <2> HIDE DEF j
  <2>2. Base(kernel) = 2
    BY <1>3 DEF Base
  <2> QED BY <2>1, <2>2, <1>3, <1>5
<1>8. CASE p = AnswerAt
  BY <1>8 DEF Place
<1>9. CASE p > AnswerAt /\ kernel = "normrope"
  <2>1. p = AnswerAt + 1 \/ p = AnswerAt + 2
    BY <1>1, <1>9
  <2> QED BY <2>1, <1>1, <1>9 DEF Place
<1>10. CASE p > AnswerAt /\ kernel = "split"
  <2>1. CASE p = AnswerAt + 1 \/ p = AnswerAt + 2 \/ p = Len(Code)
    BY <2>1, <1>1, <1>10 DEF Place
  <2>2. CASE p > AnswerAt + 2 /\ p < Len(Code)
    <3> DEFINE j == (p - (2 * Levels + 4)) \div 2
    <3>1. Len(Code) = 4 * Levels + 6 /\ AnswerAt = 2 * Levels + 3 /\ p \in Nat
      BY <1>1, <1>10
    <3>2. j \in 1..Levels
          /\ (p = 2 * Levels + 5 + 2 * j - 1 \/ p = 2 * Levels + 5 + 2 * j)
      BY <1>1, <2>2, <3>1
    <3> HIDE DEF j
    <3>3. Base("splitsum") = 2 * Levels + 5
      BY DEF Base
    <3> QED BY <3>2, <3>3, <1>4, <1>5, <1>10
  <2>3. p \in Nat /\ AnswerAt \in Nat /\ Len(Code) \in Nat /\ p <= Len(Code)
    BY <1>1
  <2> QED BY <2>1, <2>2, <2>3, <1>10
<1>11. CASE p > AnswerAt /\ kernel \in {"argmax", "partials"}
  BY <1>1, <1>11
<1>12. p \in Nat /\ p >= 1 /\ AnswerAt \in Nat
  BY <1>1
<1>13. p = 1 \/ p = 2 \/ (p > 2 /\ p < AnswerAt) \/ p = AnswerAt \/ p > AnswerAt
  BY <1>12
<1> QED BY <1>6, <1>7, <1>8, <1>9, <1>10, <1>11, <1>13 DEF Launched

\* What an instruction does says where it stands.
LEMMA Kinds ==
  ASSUME Launched, NEW p \in 1..Len(Code), NEW d, d = Code[p].do
  PROVE  /\ d \in Dos
         /\ d \in {"add", "max", "best"} =>
              \E tree \in Trees, j \in 1..Levels :
                /\ Runs(tree) /\ p = FoldAt(tree, j)
                /\ Code[p] = [do |-> OpOf(tree), stride |-> Stride(j)]
         /\ d \in {"squares", "scan", "scanparts", "greatest"} =>
              p = 1 /\ d = LeafOf(kernel)
         /\ d = "mean" => p = AnswerAt /\ kernel = "split"
         /\ d = "weights" => p = AnswerAt + 1 /\ kernel = "split"
         /\ d = "combine" => p = Len(Code) /\ kernel = "split"
         /\ d = "norm" => p = AnswerAt /\ kernel = "normrope"
         /\ d = "rope" => p = AnswerAt + 2 /\ kernel = "normrope"
         /\ d = "answer" => p = AnswerAt /\ kernel \in {"argmax", "partials"}
<1>1. d \in Dos
  <2>1. Code \in Seq(Instr)
    BY CodeIs
  <2>2. Code[p] \in Instr
    BY <2>1
  <2> QED BY <2>2 DEF Instr
<1>2. Place(p)
  BY Where
<1>3. CASE p = 1 /\ d = LeafOf(kernel)
  <2>1. d \in {"squares", "scan", "scanparts", "greatest"}
    BY <1>3 DEF LeafOf, Launched
  <2> QED BY <2>1, <1>1, <1>3
<1>4. CASE d = "barrier"
  BY <1>1, <1>4
<1>5. ASSUME NEW tree \in Trees, NEW j \in 1..Levels, Runs(tree), p = FoldAt(tree, j)
      PROVE  /\ Code[p] = [do |-> OpOf(tree), stride |-> Stride(j)]
             /\ d \in {"add", "max", "best"}
  <2>1. Code[p] = [do |-> OpOf(tree), stride |-> Stride(j)]
    BY <1>5, Trunk
  <2>2. d = OpOf(tree)
    BY <2>1
  <2>3. OpOf(tree) \in {"add", "max", "best"}
    BY DEF OpOf, Trees
  <2> QED BY <2>1, <2>2, <2>3
<1>6. CASE \E tree \in Trees, j \in 1..Levels : Runs(tree) /\ p = FoldAt(tree, j)
  <2>1. PICK tree \in Trees, j \in 1..Levels : Runs(tree) /\ p = FoldAt(tree, j)
    BY <1>6
  <2>2. Code[p] = [do |-> OpOf(tree), stride |-> Stride(j)] /\ d \in {"add", "max", "best"}
    BY <2>1, <1>5
  <2> QED BY <2>1, <2>2, <1>1
<1>7. CASE p = AnswerAt
  <2>1. d = IF kernel = "normrope" THEN "norm" ELSE IF kernel = "split" THEN "mean"
            ELSE "answer"
    BY <1>7, Numbered DEF Launched
  <2> QED BY <2>1, <1>1, <1>7 DEF Launched
<1>8. CASE kernel = "normrope" /\ p = AnswerAt + 2
  <2>1. d = "rope"
    BY <1>8, Numbered
  <2> QED BY <2>1, <1>1, <1>8
<1>9. CASE kernel = "split" /\ p = AnswerAt + 1
  <2>1. d = "weights"
    BY <1>9, Numbered
  <2> QED BY <2>1, <1>1, <1>9
<1>10. CASE kernel = "split" /\ p = Len(Code)
  <2>1. d = "combine"
    BY <1>10, Numbered
  <2> QED BY <2>1, <1>1, <1>10
<1> QED BY <1>2, <1>3, <1>4, <1>6, <1>7, <1>8, <1>9, <1>10 DEF Place

-----------------------------------------------------------------------------
(* The first state.                                                        *)

LEMMA Started ==
  ASSUME BlockInit PROVE Inductive
<1> SUFFICES ASSUME kernel \in {"argmax", "partials", "normrope", "split"}
             PROVE  TypesAre /\ Together /\ LevelsHold /\ HeadHolds /\ SplitHolds
                    /\ AnswerHolds
  BY DEF Inductive, Good
<1>1. Launched
  BY DEF BlockInit, Launched
<1>2. /\ Levels \in 1..10 /\ AnswerAt = 2 * Levels + 3
      /\ Len(Code) \in Nat /\ AnswerAt <= Len(Code)
  BY <1>1, Numbered
<1>3. \A w \in Warps : at[w] = 1
  BY DEF BlockInit
<1>4. 0 \in Warps /\ \A t \in Tids : WarpOf(t) \in Warps /\ t \in Nat
  BY WarpIs
<1>5. TypesAre
  <2>1. 1 \in 1..(Len(Code) + 1)
    BY <1>2
  <2> HIDE DEF Launched, Code
  <2> QED BY <1>1, <2>1 DEF BlockInit, TypesAre
<1>6. Together
  <2>1. \A p \in 1..Len(Code) : ~(1 > p)
    BY <1>2
  <2> QED BY <2>1, <1>3 DEF Together
<1>7. LevelsHold
  <2>1. ASSUME NEW tree \in Trees, NEW t \in Tids, NEW i \in 0..Levels, Runs(tree),
               Holds(tree, t, i)
        PROVE  FALSE
    <3>1. at[WarpOf(t)] = 1
      BY <1>3, <1>4
    <3>2. FoldAt(tree, i) \in Int /\ FoldAt(tree, i) >= 1
      BY <1>2 DEF FoldAt, Base
    <3> QED BY <2>1, <3>1, <3>2 DEF Holds
  <2> QED BY <2>1 DEF LevelsHold
<1>8. Elements \in Nat /\ Items = 0..(Elements - 1) /\ Threads \in Nat \ {0}
      /\ Items \subseteq 0..(Elements + Threads - 1)
  <2>1. Elements \in Nat /\ Items = 0..(Elements - 1)
    BY <1>1, InputsAre
  <2>2. Threads \in Nat \ {0}
    BY Strides
  <2> QED BY <2>1, <2>2
<1>9. \A i \in Nat : i % Threads \in Tids
  <2> TAKE i \in Nat
  <2>1. i % Threads \in 0..(Threads - 1)
    BY <1>8, Division
  <2> QED BY <2>1 DEF Tids
<1>10. \A i \in Nat : at[WarpOf(i % Threads)] = 1
  BY <1>3, <1>4, <1>9
<1>11. HeadHolds
  <2>1. ASSUME kernel = "normrope", NEW i \in Items
        PROVE  at[WarpOf(NormOwner(i))] = 1 /\ cells[i] = Original(i)
    <3>1. i \in Nat /\ i \in 0..(Elements + Threads - 1) /\ ~(i >= Elements)
      BY <1>8
    <3>2. cells[i] = Original(i)
      BY <2>1, <3>1 DEF BlockInit
    <3> QED BY <3>1, <3>2, <1>10 DEF NormOwner
  <2>2. 1 <= AnswerAt /\ ~(1 > AnswerAt)
    BY <1>2
  <2> QED BY <2>1, <2>2 DEF HeadHolds
<1>12. SplitHolds
  <2>1. ASSUME kernel = "split", NEW s \in 0..(extra - 1)
        PROVE  at[WarpOf(s % Threads)] = 1 /\ cells[s] = input[s]
    <3>1. extra \in 1..Elements
      BY <2>1, <1>1, InputsAre
    <3>2. s \in Nat /\ s \in 0..(Elements + Threads - 1) /\ ~(s >= Elements)
      BY <3>1, <1>8
    <3>3. cells[s] = input[s]
      BY <2>1, <3>2 DEF BlockInit
    <3> QED BY <3>2, <3>3, <1>10
  <2>2. 1 <= AnswerAt + 1 /\ ~(1 > AnswerAt) /\ ~(1 > Len(Code))
    BY <1>2
  <2> QED BY <2>1, <2>2, <1>3, <1>4 DEF SplitHolds
<1>13. AnswerHolds
  <2>1. ~(1 > AnswerAt)
    BY <1>2
  <2> QED BY <2>1, <1>3, <1>4 DEF AnswerHolds
<1> QED BY <1>5, <1>6, <1>7, <1>11, <1>12, <1>13

-----------------------------------------------------------------------------
(* A step: what it leaves alone, and the order of the warps.               *)

LEMMA Same ==
  ASSUME UNCHANGED <<kernel, input, extra>>
  PROVE  /\ Code' = Code /\ Launched' = Launched /\ Top' = Top
         /\ \A tree : Runs(tree)' = Runs(tree) /\ Spoilt(tree)' = Spoilt(tree)
         /\ \A tree, T : Whole(tree, T)' = Whole(tree, T)
<1>1. Code' = Code
  BY DEF Code
<1>2. Launched' = Launched
  BY DEF Launched, Inputs, Arguments
<1>3. Top' = Top
  BY DEF Top
<1>4. ASSUME NEW tree PROVE Runs(tree)' = Runs(tree) /\ Spoilt(tree)' = Spoilt(tree)
  BY <1>1 DEF Runs, Spoilt
<1>5. ASSUME NEW tree, NEW T PROVE Whole(tree, T)' = Whole(tree, T)
  BY <1>3 DEF Whole, BlockPart
<1> QED BY <1>1, <1>2, <1>3, <1>4, <1>5

\* warp w runs the instruction at p
Steps(w, p) ==
  /\ w \in Warps /\ p = at[w] /\ p \in 1..Len(Code)
  /\ at' = [at EXCEPT ![w] = @ + 1] /\ UNCHANGED <<kernel, input, extra>>

LEMMA Moved ==
  ASSUME TypesAre, NEW w, NEW p, Steps(w, p)
  PROVE  /\ at' \in [Warps -> 1..(Len(Code) + 1)]
         /\ \A v \in Warps : at[v] \in Int /\ at'[v] = IF v = w THEN p + 1 ELSE at[v]
         /\ w \in Warps /\ at[w] = p /\ p \in Nat /\ p >= 1 /\ Len(Code) \in Nat
<1>1. Len(Code) \in Nat
  BY Numbered DEF TypesAre
<1>2. at \in [Warps -> 1..(Len(Code) + 1)] /\ w \in Warps /\ p = at[w] /\ p \in 1..Len(Code)
      /\ at' = [at EXCEPT ![w] = @ + 1]
  BY DEF TypesAre, Steps
<1> DEFINE n == Len(Code)
<1> HIDE DEF n
<1>3. n \in Nat /\ at \in [Warps -> 1..(n + 1)] /\ p \in 1..n
  BY <1>1, <1>2 DEF n
<1>4. p + 1 \in 1..(n + 1) /\ p \in Nat /\ p >= 1
  BY <1>3
<1>5. at' \in [Warps -> 1..(n + 1)]
  BY <1>2, <1>3, <1>4
<1>6. \A v \in Warps : at[v] \in Int /\ at'[v] = IF v = w THEN p + 1 ELSE at[v]
  BY <1>2, <1>3
<1> QED BY <1>1, <1>2, <1>4, <1>5, <1>6 DEF n

\* A warp passes a barrier only after the others have come.
LEMMA StayTogether ==
  ASSUME TypesAre, Together, NEW w, NEW p, Steps(w, p),
         Code[p].do = "barrier" => \A v \in Warps : at[v] >= p
  PROVE  Together'
<1>1. Code' = Code
  BY Same DEF Steps
<1>2. /\ \A v \in Warps : at[v] \in Int /\ at'[v] = IF v = w THEN p + 1 ELSE at[v]
      /\ at[w] = p /\ p \in Nat /\ w \in Warps /\ Len(Code) \in Nat
  BY Moved
<1>3. ASSUME NEW q \in 1..Len(Code), Code[q].do = "barrier", NEW u \in Warps, NEW v \in Warps,
             at'[v] > q
      PROVE  at'[u] >= q
  <2>1. q \in Nat /\ at[u] \in Int /\ at[v] \in Int /\ at'[u] >= at[u]
    BY <1>2
  <2>2. CASE at[v] > q
    <3>1. at[u] >= q
      BY <2>2, <1>3 DEF Together
    <3> QED BY <3>1, <2>1, <1>2
  <2>3. CASE ~(at[v] > q)
    <3>1. q = p
      BY <2>3, <2>1, <1>2, <1>3
    <3>2. at[u] >= p
      BY <3>1, <1>3
    <3> QED BY <3>1, <3>2, <2>1, <1>2
  <2> QED BY <2>2, <2>3
<1> QED BY <1>1, <1>3 DEF Together

\* Where a warp stands, the others have passed the barriers before it and not
\* the ones after it.
LEMMA Met ==
  ASSUME TypesAre, Together, NEW w \in Warps, NEW v \in Warps,
         NEW q \in 1..Len(Code), Code[q].do = "barrier"
  PROVE  /\ at[w] \in Int /\ at[v] \in Int
         /\ at[w] > q => at[v] >= q
         /\ at[w] <= q - 1 => at[v] <= q
<1>1. at[w] \in Int /\ at[v] \in Int /\ q \in Nat
  <2>1. Len(Code) \in Nat
    BY Numbered DEF TypesAre
  <2> QED BY <2>1 DEF TypesAre
<1>2. (at[w] > q => at[v] >= q) /\ (at[v] > q => at[w] >= q)
  BY DEF Together
<1> QED BY <1>1, <1>2

LEMMA Leaves ==
  ASSUME Launched, NEW tree \in Trees, Runs(tree)
  PROVE  /\ FoldAt(tree, 0) \in 1..Len(Code) /\ Code[FoldAt(tree, 0)].do = LeafOf(tree)
         /\ FoldAt(tree, 0) = IF tree = "splitsum" THEN AnswerAt + 1 ELSE 1
<1>1. /\ Levels \in 1..10 /\ AnswerAt = 2 * Levels + 3
      /\ Len(Code) \in Nat /\ AnswerAt <= Len(Code)
      /\ kernel = "split" =>
           Len(Code) = 4 * Levels + 6 /\ Code[AnswerAt + 1].do = "weights"
  BY Numbered
<1>2. /\ FoldAt(tree, 0) = Base(tree) + 2 * 0 - 1
      /\ Base(tree) = IF tree = "splitsum" THEN AnswerAt + 2 ELSE 2
      /\ tree = "splitsum" => kernel = "split"
      /\ tree # "splitsum" => tree = kernel
  BY Trunk, <1>1
<1>3. FoldAt(tree, 0) = IF tree = "splitsum" THEN AnswerAt + 1 ELSE 1
  BY <1>1, <1>2
<1>4. Code[1].do = LeafOf(kernel)
  BY CodeIs
<1>5. LeafOf("splitsum") = "weights"
  BY DEF LeafOf
<1>6. 1 \in 1..Len(Code)
  BY <1>1
<1>7. kernel = "split" => AnswerAt + 1 \in 1..Len(Code)
  BY <1>1
<1> QED BY <1>1, <1>2, <1>3, <1>4, <1>5, <1>6, <1>7

\* After a step an entry is new, or it holds what it held before.
Old(tree, t, i, w, p) ==
  /\ Holds(tree, t, i)
  /\ WarpOf(t) = w =>
       /\ p > FoldAt(tree, i) /\ p < Spoilt(tree)
       /\ i = Levels \/ t >= Stride(i + 1) \/ p < FoldAt(tree, i + 1)

New(tree, t, i, w, p) ==
  WarpOf(t) = w /\ p = FoldAt(tree, i) /\ t < Stride(i) /\ p < Spoilt(tree)

LEMMA NewOrOld ==
  ASSUME TypesAre, NEW w, NEW p, Steps(w, p),
         NEW tree \in Trees, NEW t \in Tids, NEW i \in 0..Levels, Holds(tree, t, i)'
  PROVE  New(tree, t, i, w, p) \/ Old(tree, t, i, w, p)
<1>1. /\ \A v \in Warps : at[v] \in Int /\ at'[v] = IF v = w THEN p + 1 ELSE at[v]
      /\ at[w] = p /\ p \in Nat
  BY Moved
<1>2. WarpOf(t) \in Warps
  BY WarpIs
<1>3. Spoilt(tree)' = Spoilt(tree)
  BY Same DEF Steps
<1>4. Levels \in 1..10
  BY Strides
<1> DEFINE a == FoldAt(tree, i)
           b == FoldAt(tree, i + 1)
           s == Spoilt(tree)
           n == at'[WarpOf(t)]
<1>5. a \in Int /\ b \in Int
  BY <1>4 DEF FoldAt, Base
<1>6. s \in Int
  <2>1. Len(Code) \in Nat
    BY Numbered DEF TypesAre
  <2> QED BY <2>1, <1>4 DEF Spoilt
<1>7. /\ t < Stride(i) /\ n > a /\ n <= s
      /\ i = Levels \/ t >= Stride(i + 1) \/ n <= b
  BY <1>3 DEF Holds
<1> HIDE DEF a, b, s
<1>8. CASE WarpOf(t) # w
  <2>1. n = at[WarpOf(t)]
    BY <1>1, <1>2, <1>8
  <2> QED BY <2>1, <1>7, <1>8 DEF Old, Holds, a, b, s
<1>9. CASE WarpOf(t) = w
  <2>1. n = p + 1
    BY <1>1, <1>2, <1>9
  <2>2. CASE p = a
    <3>1. p < s
      BY <2>1, <1>1, <1>6, <1>7
    <3> QED BY <2>2, <3>1, <1>7, <1>9 DEF New, a, s
  <2>3. CASE p # a
    <3>1. p > a /\ p < s /\ p <= s /\ (n <= b => p < b /\ p <= b)
      BY <2>1, <2>3, <1>1, <1>5, <1>6, <1>7
    <3>2. i = Levels \/ t >= Stride(i + 1) \/ (p < b /\ p <= b)
      BY <3>1, <1>7
    <3>3. at[WarpOf(t)] = p
      BY <1>1, <1>9
    <3> QED BY <3>1, <3>2, <3>3, <1>7, <1>9 DEF Old, Holds, a, b, s
  <2> QED BY <2>2, <2>3
<1> QED BY <1>8, <1>9

-----------------------------------------------------------------------------
(* The levels of the trees.                                                *)

LevelDos == {"add", "max", "best", "squares", "scan", "scanparts", "greatest", "weights"}

LEMMA NewIsLevel ==
  ASSUME TypesAre, NEW w, NEW p, Steps(w, p),
         NEW tree \in Trees, Runs(tree), NEW t \in Tids, NEW i \in 0..Levels,
         New(tree, t, i, w, p)
  PROVE  /\ i = 0 => Code[p].do = LeafOf(tree) /\ p = FoldAt(tree, 0)
         /\ i # 0 => Code[p] = [do |-> OpOf(tree), stride |-> Stride(i)]
                     /\ OpOf(tree) \in {"add", "max", "best"}
         /\ LeafOf(tree) \in LevelDos \ {"add", "max", "best"}
         /\ Code[p].do \in LevelDos
<1>1. Launched /\ Levels \in 1..10 /\ p = FoldAt(tree, i)
  BY Strides DEF TypesAre, New
<1>2. LeafOf(tree) \in LevelDos \ {"add", "max", "best"}
  BY DEF LeafOf, LevelDos, Trees
<1>3. OpOf(tree) \in {"add", "max", "best"}
  BY DEF OpOf, Trees
<1>4. CASE i = 0
  <2>1. Code[FoldAt(tree, 0)].do = LeafOf(tree)
    BY <1>1, Leaves
  <2> QED BY <2>1, <1>1, <1>2, <1>4
<1>5. CASE i # 0
  <2>1. i \in 1..Levels
    BY <1>1, <1>5
  <2>2. Code[FoldAt(tree, i)] = [do |-> OpOf(tree), stride |-> Stride(i)]
    BY <1>1, <2>1, Trunk
  <2>3. Code[p].do = OpOf(tree)
    BY <2>2, <1>1
  <2> QED BY <2>2, <2>3, <1>1, <1>2, <1>3, <1>5 DEF LevelDos
<1> QED BY <1>4, <1>5

\* A step that is no level of a tree disturbs none.
LEMMA LevelsQuiet ==
  ASSUME TypesAre, LevelsHold, NEW w, NEW p, Steps(w, p), shared' = shared,
         Code[p].do \notin LevelDos
  PROVE  LevelsHold'
<1>1. /\ \A tree : Runs(tree)' = Runs(tree)
      /\ \A tree, T : Whole(tree, T)' = Whole(tree, T)
  BY Same DEF Steps
<1>2. ASSUME NEW tree \in Trees, NEW t \in Tids, NEW i \in 0..Levels,
             Runs(tree), Holds(tree, t, i)'
      PROVE  shared[t] = Whole(tree, Column(t, Stride(i)))
  <2>1. ~New(tree, t, i, w, p)
    BY <1>2, NewIsLevel
  <2>2. Holds(tree, t, i)
    BY <2>1, <1>2, NewOrOld DEF Old
  <2> QED BY <2>2, <1>2 DEF LevelsHold
<1> QED BY <1>1, <1>2 DEF LevelsHold

\* what a thread folds in: its own column and the one a stride away
LEMMA Operands ==
  ASSUME TypesAre, Together, LevelsHold, NEW w, NEW p, Steps(w, p),
         NEW tree \in Trees, Runs(tree), NEW t \in Tids, NEW i \in 1..Levels,
         WarpOf(t) = w, p = FoldAt(tree, i), t < Stride(i), p < Spoilt(tree)
  PROVE  /\ t + Stride(i) \in Tids
         /\ shared[t] = Whole(tree, Column(t, Stride(i - 1)))
         /\ shared[t + Stride(i)] = Whole(tree, Column(t + Stride(i), Stride(i - 1)))
<1> DEFINE h == Stride(i)
           u == t + h
           k == i - 1
<1>1. /\ Levels \in 1..10 /\ Threads \in Nat /\ h \in 1..Threads
      /\ Stride(k) = 2 * h /\ Stride(k) \in 1..Threads /\ k \in 0..Levels /\ k + 1 = i
      /\ k # Levels
  <2>1. k \in 0..Levels /\ i \in 0..Levels /\ Levels \in 1..10 /\ k + 1 = i /\ k # Levels
    BY Strides
  <2> QED BY <2>1, Strides
<1>2. t \in Nat
  BY WarpIs
<1> HIDE DEF h, k
<1>3. u \in Tids /\ u \in Nat /\ u < Stride(k) /\ u >= h /\ t < Stride(k)
  <2>1. t < h
    BY DEF h
  <2> QED BY <2>1, <1>1, <1>2 DEF Tids
<1>4. Launched
  BY DEF TypesAre
<1>5. /\ FoldAt(tree, i) - 1 \in 1..Len(Code) /\ Code[FoldAt(tree, i) - 1].do = "barrier"
      /\ FoldAt(tree, i) + 1 \in 1..Len(Code) /\ Code[FoldAt(tree, i) + 1].do = "barrier"
  BY <1>4, Trunk
<1>6. FoldAt(tree, i) = p /\ FoldAt(tree, k) = p - 2 /\ p \in Int
  <2>1. Base(tree) \in Int
    BY <1>1 DEF Base
  <2>2. k \in Int /\ i \in Int /\ k = i - 1
    BY <1>1 DEF k
  <2> QED BY <2>1, <2>2 DEF FoldAt
<1>7. WarpOf(u) \in Warps /\ w \in Warps /\ at[w] = p /\ WarpOf(t) \in Warps
  BY <1>3, WarpIs DEF Steps
<1>8. at[WarpOf(u)] \in Int /\ at[WarpOf(u)] >= p - 1 /\ at[WarpOf(u)] <= p + 1
  <2>1. p - 1 \in 1..Len(Code) /\ Code[p - 1].do = "barrier"
    BY <1>5, <1>6
  <2>2. p + 1 \in 1..Len(Code) /\ Code[p + 1].do = "barrier"
    BY <1>5, <1>6
  <2>3. at[WarpOf(u)] \in Int /\ (at[w] > p - 1 => at[WarpOf(u)] >= p - 1)
    BY <1>7, <2>1, Met
  <2>4. at[w] <= (p + 1) - 1 => at[WarpOf(u)] <= p + 1
    BY <1>7, <2>2, Met
  <2> QED BY <2>3, <2>4, <1>6, <1>7
<1>9. Spoilt(tree) \in Int /\ p + 1 <= Spoilt(tree)
  <2>1. Spoilt(tree) \in Int
    <3>1. Len(Code) \in Nat
      BY <1>4, Numbered
    <3> QED BY <3>1, <1>1 DEF Spoilt
  <2> QED BY <2>1, <1>6
<1>10. Holds(tree, t, k)
  <2>1. at[WarpOf(t)] > FoldAt(tree, k) /\ at[WarpOf(t)] <= FoldAt(tree, i)
        /\ at[WarpOf(t)] <= Spoilt(tree)
    BY <1>6, <1>7, <1>9
  <2> QED BY <2>1, <1>1, <1>3 DEF Holds
<1>11. Holds(tree, u, k)
  <2>1. at[WarpOf(u)] > FoldAt(tree, k) /\ at[WarpOf(u)] <= Spoilt(tree)
    BY <1>6, <1>8, <1>9
  <2>2. u >= Stride(k + 1)
    BY <1>1, <1>3 DEF h
  <2> QED BY <2>1, <2>2, <1>1, <1>3 DEF Holds
<1> QED BY <1>1, <1>3, <1>10, <1>11 DEF LevelsHold, h, k

\* A level changes no entry that another level or tree still needs.
LEMMA NotHit ==
  ASSUME TypesAre, NEW w, NEW p, Steps(w, p),
         NEW tree \in Trees, Runs(tree), NEW t \in Tids, NEW i \in 0..Levels,
         Old(tree, t, i, w, p), WarpOf(t) = w,
         NEW other \in Trees, Runs(other), NEW j \in 0..Levels, p = FoldAt(other, j),
         t < Stride(j)
  PROVE  FALSE
<1>1. Launched
  BY DEF TypesAre
<1>2. Levels \in 1..10 /\ AnswerAt = 2 * Levels + 3 /\ Len(Code) \in Nat
  BY <1>1, Numbered
<1>3. /\ p > FoldAt(tree, i) /\ p < Spoilt(tree)
      /\ i = Levels \/ t >= Stride(i + 1) \/ p < FoldAt(tree, i + 1)
  BY DEF Old
<1>4. CASE tree = other
  <2>1. /\ FoldAt(tree, i) = Base(tree) + 2 * i - 1
        /\ p = Base(tree) + 2 * j - 1 /\ Base(tree) \in Int
        /\ FoldAt(tree, i + 1) = Base(tree) + 2 * (i + 1) - 1
    BY <1>2, <1>4 DEF FoldAt, Base
  <2>2. j > i
    BY <1>2, <1>3, <2>1
  <2>3. i + 1 \in 0..Levels /\ i + 1 <= j /\ i # Levels
    BY <1>2, <2>2
  <2>4. Stride(j) <= Stride(i + 1)
    BY <2>3, StridesFall
  <2>5. Stride(j) \in Int /\ Stride(i + 1) \in Int
    BY <2>3, Strides
  <2>6. t \in Nat
    BY WarpIs
  <2>7. ~(t >= Stride(i + 1))
    BY <2>4, <2>5, <2>6
  <2>8. p < FoldAt(tree, i + 1)
    BY <1>3, <2>3, <2>7
  <2> QED BY <2>1, <2>3, <2>8, <1>2
<1>5. CASE tree # other
  <2>1. (tree = "split" /\ other = "splitsum") \/ (tree = "splitsum" /\ other = "split")
    BY <1>5 DEF Runs, Trees
  <2>2. CASE tree = "split" /\ other = "splitsum"
    <3>1. Spoilt(tree) = AnswerAt + 1
      BY <2>2, <1>2 DEF Spoilt
    <3>2. p = AnswerAt + 2 + 2 * j - 1
      BY <2>2, <1>2 DEF FoldAt, Base
    <3> QED BY <3>1, <3>2, <1>2, <1>3
  <2>3. CASE tree = "splitsum" /\ other = "split"
    <3>1. FoldAt(tree, i) = AnswerAt + 2 + 2 * i - 1 /\ p = 2 + 2 * j - 1
      BY <2>3, <1>2 DEF FoldAt, Base
    <3> QED BY <3>1, <1>2, <1>3
  <2> QED BY <2>1, <2>2, <2>3
<1> QED BY <1>4, <1>5

\* Each thread of the warp folds the entry one stride away into its own.
LEMMA LevelsFold ==
  ASSUME TypesAre, Together, LevelsHold, NEW w, Fold(w), Steps(w, at[w])
  PROVE  LevelsHold'
<1> DEFINE p == at[w]
           d == Reached(w).do
           h == Reached(w).stride
<1>1. /\ \A tree : Runs(tree)' = Runs(tree)
      /\ \A tree, T : Whole(tree, T)' = Whole(tree, T)
  BY Same DEF Steps
<1>2. /\ d \in {"add", "max", "best"} /\ Code[p].do = d /\ Code[p].stride = h
      /\ \A t \in Tids : shared'[t] = IF t \in Lanes(w) /\ t < h
                                      THEN Folded(d, t, h) ELSE shared[t]
  BY DEF Fold, Reached
<1>3. Launched
  BY DEF TypesAre
<1>4. Steps(w, p) /\ p \in 1..Len(Code)
  BY DEF Steps
<1> HIDE DEF p, d, h
<1>5. PICK other \in Trees, j \in 1..Levels :
        /\ Runs(other) /\ p = FoldAt(other, j)
        /\ Code[p] = [do |-> OpOf(other), stride |-> Stride(j)]
  BY <1>2, <1>3, <1>4, Kinds
<1>6. h = Stride(j)
  BY <1>2, <1>5
<1>7. \A t \in Tids : t \in Lanes(w) <=> WarpOf(t) = w
  BY DEF Lanes
<1>8. ASSUME NEW tree \in Trees, NEW t \in Tids, NEW i \in 0..Levels,
             Runs(tree), Holds(tree, t, i)'
      PROVE  shared'[t] = Whole(tree, Column(t, Stride(i)))
  <2>1. CASE New(tree, t, i, w, p)
    <3>1. WarpOf(t) = w /\ p = FoldAt(tree, i) /\ t < Stride(i) /\ p < Spoilt(tree)
      BY <2>1 DEF New
    <3>2. i # 0 /\ Code[p] = [do |-> OpOf(tree), stride |-> Stride(i)]
      <4>1. /\ i = 0 => Code[p].do = LeafOf(tree) /\ p = FoldAt(tree, 0)
            /\ i # 0 => Code[p] = [do |-> OpOf(tree), stride |-> Stride(i)]
                        /\ OpOf(tree) \in {"add", "max", "best"}
            /\ LeafOf(tree) \in LevelDos \ {"add", "max", "best"}
        BY <1>4, <1>8, <2>1, NewIsLevel
      <4> QED BY <4>1, <1>2
    <3>3. i \in 1..Levels
      <4>1. Levels \in Nat
        BY Strides
      <4> QED BY <3>2, <4>1
    <3>4. d = OpOf(tree) /\ h = Stride(i)
      BY <3>2, <1>2
    <3>5. /\ shared[t] = Whole(tree, Column(t, Stride(i - 1)))
          /\ shared[t + Stride(i)] = Whole(tree, Column(t + Stride(i), Stride(i - 1)))
      BY <1>4, <1>8, <3>1, <3>3, Operands
    <3>6. shared'[t] = Combined(OpOf(tree), shared[t], shared[t + Stride(i)])
      BY <1>2, <1>7, <3>1, <3>4 DEF Folded
    <3>7. t \in Nat
      BY WarpIs
    <3>8. /\ Column(t, Stride(i)) = Column(t, Stride(i - 1))
                                      \cup Column(t + Stride(i), Stride(i - 1))
          /\ Column(t, Stride(i - 1)) \cap Column(t + Stride(i), Stride(i - 1)) = {}
      BY <3>1, <3>3, <3>7, Columns
    <3> DEFINE A == Column(t, Stride(i - 1))
               B == Column(t + Stride(i), Stride(i - 1))
    <3> HIDE DEF A, B
    <3>9. A \cap B = {} /\ Column(t, Stride(i)) = A \cup B
      BY <3>8 DEF A, B
    <3>10. Whole(tree, A \cup B) = Combined(OpOf(tree), Whole(tree, A), Whole(tree, B))
      BY <1>3, <1>8, <3>9, Joins
    <3>11. shared[t] = Whole(tree, A) /\ shared[t + Stride(i)] = Whole(tree, B)
      BY <3>5 DEF A, B
    <3> QED BY <3>6, <3>9, <3>10, <3>11
  <2>2. CASE Old(tree, t, i, w, p)
    <3>1. Holds(tree, t, i)
      BY <2>2 DEF Old
    <3>2. shared[t] = Whole(tree, Column(t, Stride(i)))
      BY <3>1, <1>8 DEF LevelsHold
    <3>3. ~(WarpOf(t) = w /\ t < h)
      <4>1. SUFFICES ASSUME WarpOf(t) = w, t < Stride(j) PROVE FALSE
        BY <1>6
      <4>2. j \in 0..Levels
        OBVIOUS
      <4> QED BY <4>1, <4>2, <1>4, <1>5, <1>8, <2>2, NotHit
    <3>4. shared'[t] = shared[t]
      BY <3>3, <1>2, <1>7
    <3> QED BY <3>2, <3>4
  <2> QED BY <2>1, <2>2, <1>4, <1>8, NewOrOld
<1> QED BY <1>1, <1>8 DEF LevelsHold

\* No more parts than lanes: the first warp has them all, one a lane.
LEMMA InFirstWarp ==
  ASSUME MaxSplits <= WarpSize, Launched, kernel = "split", NEW s \in 0..(extra - 1)
  PROVE  /\ s % Threads = s /\ s \in Tids /\ WarpOf(s) = 0 /\ s \in Nat
         /\ extra \in Nat /\ extra <= Elements /\ Elements \in Nat /\ Threads \in Nat \ {0}
<1>1. extra \in 1..Elements /\ extra <= MaxSplits /\ Elements \in Nat
  BY InputsAre
<1>2. Threads \in Nat \ {0}
  BY Strides
<1>3. WarpSize \in 1..(Threads - 1) /\ MaxSplits \in 0..Elements
  BY BlocksAssumption
<1>4. s \in Nat /\ s < WarpSize /\ s < Threads
  BY <1>1, <1>2, <1>3
<1>5. s % Threads = s
  BY <1>2, <1>4
<1>6. s \in Tids /\ WarpOf(s) = 0
  BY <1>4, WarpIs
<1> QED BY <1>1, <1>2, <1>4, <1>5, <1>6

\* Before the first level a thread finds in its elements what the tree wants.
\* The maximum is taken into the registers and the entry it was read from is
\* overwritten without a barrier between: only the first warp may have a part.
LEMMA LeafIs ==
  ASSUME MaxSplits <= WarpSize,
         TypesAre, HeadHolds, SplitHolds, NEW w, NEW p, Steps(w, p),
         NEW tree \in Trees, Runs(tree), p = FoldAt(tree, 0), NEW t \in Tids, WarpOf(t) = w
  PROVE  Shared(LeafOf(tree), t) = Whole(tree, {t})
<1>1. Launched
  BY DEF TypesAre
<1>2. Levels \in 1..10 /\ AnswerAt = 2 * Levels + 3 /\ Len(Code) \in Nat
  BY <1>1, Numbered
<1>3. /\ p = IF tree = "splitsum" THEN AnswerAt + 1 ELSE 1
      /\ tree = "splitsum" => kernel = "split"
      /\ tree # "splitsum" => tree = kernel
  BY <1>1, Leaves, Trunk
<1>4. at[w] = p /\ w \in Warps
  BY DEF Steps
<1>5. \A count : Share({t}, count) = Mine(t, count)
  BY Shares
<1>6. \A count : \A i \in Mine(t, count) : i \in 0..(count - 1) /\ i % Threads = t
  BY DEF Mine
<1>7. CASE tree = "argmax"
  BY <1>5, <1>7 DEF Shared, Whole, LeafOf
<1>8. CASE tree = "partials"
  BY <1>5, <1>8 DEF Shared, Whole, LeafOf
<1>9. CASE tree = "normrope"
  <2>1. p <= AnswerAt /\ kernel = "normrope"
    BY <1>2, <1>3, <1>9
  <2>2. \A i \in Mine(t, Elements) : i \in Items /\ NormOwner(i) = t
    BY <1>6 DEF Items, NormOwner
  <2>3. \A i \in Mine(t, Elements) : cells[i] = Original(i)
    BY <2>1, <2>2, <1>4 DEF HeadHolds
  <2>4. Shared("squares", t) = SumOf({<<"squares", cells[i]>> : i \in Mine(t, Elements)})
    BY DEF Shared
  <2>5. {<<"squares", cells[i]>> : i \in Mine(t, Elements)}
          = {<<"squares", Original(i)>> : i \in Mine(t, Elements)}
    BY <2>3
  <2>6. Whole(tree, {t}) = SumOf({<<"squares", Original(i)>> : i \in Mine(t, Elements)})
    BY <1>5, <1>9 DEF Whole
  <2>7. LeafOf(tree) = "squares"
    BY <1>9 DEF LeafOf
  <2> QED BY <2>4, <2>5, <2>6, <2>7
<1>10. ASSUME kernel = "split", p <= AnswerAt + 1, NEW s \in Mine(t, extra)
       PROVE  cells[s] = input[s]
  <2>1. s \in 0..(extra - 1) /\ s % Threads = t
    BY <1>6, <1>10
  <2> QED BY <2>1, <1>4, <1>10 DEF SplitHolds
<1>11. CASE tree = "split"
  <2>1. p <= AnswerAt + 1 /\ kernel = "split"
    BY <1>2, <1>3, <1>11
  <2>2. {cells[s] : s \in Mine(t, extra)} = {input[s] : s \in Mine(t, extra)}
    BY <2>1, <1>10
  <2>3. Shared("greatest", t) = Largest({cells[s] : s \in Mine(t, extra)})
    BY DEF Shared
  <2>4. Whole(tree, {t}) = Largest({input[s] : s \in Mine(t, extra)})
    BY <1>5, <1>11 DEF Whole
  <2>5. LeafOf(tree) = "greatest"
    BY <1>11 DEF LeafOf
  <2> QED BY <2>2, <2>3, <2>4, <2>5
<1>12. CASE tree = "splitsum"
  <2>1. p = AnswerAt + 1 /\ kernel = "split" /\ p <= AnswerAt + 1 /\ p > AnswerAt
    BY <1>2, <1>3, <1>12
  <2>2. ASSUME NEW s \in Mine(t, extra) PROVE cells[s] = input[s] /\ reg[t] = Top
    <3>1. s \in 0..(extra - 1) /\ s % Threads = t
      BY <1>6, <2>2
    <3>6. t = s /\ WarpOf(t) = 0
      BY <3>1, <2>1, <1>1, InFirstWarp
    <3>7. t \in Lanes(0) /\ w = 0
      BY <3>6 DEF Lanes
    <3>8. reg[t] = Top
      BY <3>7, <2>1, <1>4 DEF SplitHolds
    <3> QED BY <3>8, <2>1, <2>2, <1>10
  <2>3. {<<"part", s, Exp(cells[s], reg[t])>> : s \in Mine(t, extra)}
          = {<<"part", s, Exp(input[s], Top)>> : s \in Mine(t, extra)}
    BY <2>2
  <2>4. Shared("weights", t)
          = SumOf({<<"part", s, Exp(cells[s], reg[t])>> : s \in Mine(t, extra)})
    BY DEF Shared
  <2>5. Whole(tree, {t}) = SumOf({<<"part", s, Exp(input[s], Top)>> : s \in Mine(t, extra)})
    BY <1>5, <1>12 DEF Whole
  <2>6. LeafOf(tree) = "weights"
    BY <1>12 DEF LeafOf
  <2> QED BY <2>3, <2>4, <2>5, <2>6
<1> QED BY <1>7, <1>8, <1>9, <1>11, <1>12 DEF Trees

LEMMA LevelsLeaf ==
  ASSUME MaxSplits <= WarpSize,
         TypesAre, Together, LevelsHold, HeadHolds, SplitHolds,
         NEW w, Compute(w), Steps(w, at[w]),
         Reached(w).do \in LevelDos \ {"add", "max", "best"}
  PROVE  LevelsHold'
<1> DEFINE p == at[w]
           d == Reached(w).do
<1>1. /\ \A tree : Runs(tree)' = Runs(tree)
      /\ \A tree, T : Whole(tree, T)' = Whole(tree, T)
  BY Same DEF Steps
<1>2. /\ d \in LevelDos \ {"add", "max", "best"} /\ Code[p].do = d
      /\ \A t \in Tids : shared'[t] = IF t \in Lanes(w) THEN Shared(d, t) ELSE shared[t]
  <2>1. d \in {"sum", "squares", "var", "scan", "scanparts", "greatest", "weights"}
    BY DEF LevelDos
  <2> QED BY <2>1 DEF Compute, Reached
<1>3. Launched
  BY DEF TypesAre
<1>4. Steps(w, p) /\ p \in 1..Len(Code)
  BY DEF Steps
<1>5. \A t \in Tids : t \in Lanes(w) <=> WarpOf(t) = w
  BY DEF Lanes
<1> HIDE DEF p, d
<1>6. PICK other \in Trees : Runs(other) /\ p = FoldAt(other, 0)
  <2>1. CASE d = "weights"
    <3>1. p = AnswerAt + 1 /\ kernel = "split"
      BY <2>1, <1>2, <1>3, <1>4, Kinds
    <3>2. "splitsum" \in Trees /\ Runs("splitsum")
      BY <3>1 DEF Trees, Runs
    <3>3. FoldAt("splitsum", 0) = AnswerAt + 1
      BY <3>2, <1>3, Leaves
    <3> QED BY <3>1, <3>2, <3>3
  <2>2. CASE d # "weights"
    <3>1. d \in {"squares", "scan", "scanparts", "greatest"}
      BY <2>2, <1>2 DEF LevelDos
    <3>2. p = 1
      BY <3>1, <1>2, <1>3, <1>4, Kinds
    <3>3. kernel \in Trees /\ Runs(kernel) /\ kernel # "splitsum"
      BY <1>3 DEF Trees, Runs, Launched
    <3>4. FoldAt(kernel, 0) = 1
      BY <3>3, <1>3, Leaves
    <3> QED BY <3>2, <3>3, <3>4
  <2> QED BY <2>1, <2>2
<1>7. Stride(0) = Threads /\ 0 \in 0..Levels /\ \A t \in Tids : t < Stride(0)
  <2>1. Stride(0) = Threads /\ Levels \in 1..10 /\ Threads \in Nat
    BY Strides
  <2> QED BY <2>1 DEF Tids
<1>8. ASSUME NEW tree \in Trees, NEW t \in Tids, NEW i \in 0..Levels,
             Runs(tree), Holds(tree, t, i)'
      PROVE  shared'[t] = Whole(tree, Column(t, Stride(i)))
  <2>1. CASE New(tree, t, i, w, p)
    <3>1. /\ i = 0 => Code[p].do = LeafOf(tree) /\ p = FoldAt(tree, 0)
          /\ i # 0 => Code[p] = [do |-> OpOf(tree), stride |-> Stride(i)]
                      /\ OpOf(tree) \in {"add", "max", "best"}
      BY <1>4, <1>8, <2>1, NewIsLevel
    <3>2. i = 0
      BY <3>1, <1>2
    <3>3. d = LeafOf(tree) /\ p = FoldAt(tree, 0)
      BY <3>1, <3>2, <1>2
    <3>4. WarpOf(t) = w
      BY <2>1 DEF New
    <3>5. Shared(LeafOf(tree), t) = Whole(tree, {t})
      BY <3>3, <3>4, <1>4, <1>8, LeafIs
    <3>6. Column(t, Stride(i)) = {t}
      BY <3>2, <1>7, Columns
    <3> QED BY <3>3, <3>4, <3>5, <3>6, <1>2, <1>5
  <2>2. CASE Old(tree, t, i, w, p)
    <3>1. Holds(tree, t, i)
      BY <2>2 DEF Old
    <3>2. shared[t] = Whole(tree, Column(t, Stride(i)))
      BY <3>1, <1>8 DEF LevelsHold
    <3>3. WarpOf(t) # w
      <4>1. SUFFICES ASSUME WarpOf(t) = w PROVE FALSE
        OBVIOUS
      <4>2. t < Stride(0)
        BY <1>7
      <4> QED BY <4>1, <4>2, <1>4, <1>6, <1>7, <1>8, <2>2, NotHit
    <3>4. shared'[t] = shared[t]
      BY <3>3, <1>2, <1>5
    <3> QED BY <3>2, <3>4
  <2> QED BY <2>1, <2>2, <1>4, <1>8, NewOrOld
<1> QED BY <1>1, <1>8 DEF LevelsHold

-----------------------------------------------------------------------------
(* The global memory.                                                      *)

Writers == {"scaled", "norm", "rope", "weights", "combine", "answer"}

\* A cell takes what its one writer in the warp writes.
LEMMA Stored ==
  ASSUME TypesAre, NEW w, Compute(w), NEW d, d = Reached(w).do, d \in Writers
  PROVE  /\ cells' = [i \in 0..(Elements + Threads - 1) |-> cells'[i]]
         /\ \A i \in 0..(Elements + Threads - 1) :
              /\ (\A t \in Lanes(w) : i \notin DOMAIN Written(d, t)) => cells'[i] = cells[i]
              /\ \A t \in Lanes(w) :
                   i \in DOMAIN Written(d, t)
                     /\ (\A u \in Lanes(w) : i \in DOMAIN Written(d, u) => u = t)
                   => cells'[i] = Written(d, t)[i]
<1> DEFINE By(i) == {t \in Lanes(w) : i \in DOMAIN Written(d, t)}
<1>1. DOMAIN cells = 0..(Elements + Threads - 1)
  BY DEF TypesAre
<1>2. cells' = [i \in DOMAIN cells |->
                  IF By(i) = {} THEN cells[i]
                  ELSE Written(d, CHOOSE t \in By(i) : TRUE)[i]]
  BY DEF Compute, Writers
<1>3. ASSUME NEW i \in 0..(Elements + Threads - 1), NEW t \in Lanes(w),
             i \in DOMAIN Written(d, t),
             \A u \in Lanes(w) : i \in DOMAIN Written(d, u) => u = t
      PROVE  cells'[i] = Written(d, t)[i]
  <2>1. By(i) = {t}
    BY <1>3
  <2>2. (CHOOSE x \in {t} : TRUE) = t
    OBVIOUS
  <2> HIDE DEF By
  <2> QED BY <1>1, <1>2, <2>1, <2>2
<1>4. ASSUME NEW i \in 0..(Elements + Threads - 1),
             \A t \in Lanes(w) : i \notin DOMAIN Written(d, t)
      PROVE  cells'[i] = cells[i]
  <2>1. By(i) = {}
    BY <1>4
  <2> HIDE DEF By
  <2> QED BY <1>1, <1>2, <2>1
<1>5. cells' = [i \in 0..(Elements + Threads - 1) |-> cells'[i]]
  <2> HIDE DEF By
  <2> QED BY <1>1, <1>2
<1> QED BY <1>3, <1>4, <1>5

LEMMA Reduced ==
  ASSUME TypesAre, Together, LevelsHold, NEW w \in Warps,
         NEW tree \in Trees, Runs(tree),
         at[w] > FoldAt(tree, Levels) + 1, at[0] <= Spoilt(tree)
  PROVE  shared[0] = Whole(tree, Tids)
<1>1. Launched
  BY DEF TypesAre
<1>2. Levels \in 1..Levels /\ Levels \in 0..Levels /\ Stride(Levels) = 1 /\ Levels \in 1..10
  BY Strides
<1> DEFINE q == FoldAt(tree, Levels) + 1
<1>3. q \in 1..Len(Code) /\ Code[q].do = "barrier"
  BY <1>1, <1>2, Trunk
<1>4. 0 \in Warps /\ 0 \in Tids /\ WarpOf(0) = 0
  BY WarpIs
<1>5. FoldAt(tree, Levels) \in Int
  BY <1>2 DEF FoldAt, Base
<1> HIDE DEF q
<1>6. at[0] \in Int /\ at[0] >= q
  <2>1. at[w] > q
    BY DEF q
  <2> QED BY <2>1, <1>3, <1>4, Met
<1>7. at[0] > FoldAt(tree, Levels)
  BY <1>5, <1>6 DEF q
<1>8. Holds(tree, 0, Levels)
  BY <1>2, <1>4, <1>7 DEF Holds
<1>9. Column(0, Stride(Levels)) = Tids
  BY <1>2, Columns
<1> QED BY <1>2, <1>4, <1>8, <1>9 DEF LevelsHold

\* Two threads of the block look after an element of a head.
LEMMA OwnersAre ==
  ASSUME Launched, kernel = "normrope", NEW i \in Items
  PROVE  /\ i \in Nat /\ extra \in Nat /\ 2 * extra <= Elements
         /\ Threads \in Nat \ {0} /\ Elements \in Nat
         /\ i \in 0..(Elements + Threads - 1)
         /\ NormOwner(i) \in Tids /\ WarpOf(NormOwner(i)) \in Warps
         /\ i < 2 * extra => RopeOwner(i) \in Tids /\ WarpOf(RopeOwner(i)) \in Warps
<1>1. Items = 0..(Elements - 1) /\ Elements \in Nat /\ extra \in 1..(Elements \div 2)
  BY InputsAre
<1>2. Threads \in Nat \ {0}
  BY Strides
<1>3. i \in Nat /\ extra \in Nat /\ 2 * extra <= Elements
      /\ i \in 0..(Elements + Threads - 1)
  BY <1>1, <1>2
<1>4. \A n \in Nat : n % Threads \in Tids
  <2> TAKE n \in Nat
  <2>1. n % Threads \in 0..(Threads - 1)
    BY <1>2, Division
  <2> QED BY <2>1 DEF Tids
<1>5. (IF i < extra THEN i ELSE i - extra) \in Nat
  BY <1>3
<1>6. NormOwner(i) \in Tids /\ RopeOwner(i) \in Tids
  BY <1>3, <1>4, <1>5 DEF NormOwner, RopeOwner
<1> QED BY <1>1, <1>2, <1>3, <1>6, WarpIs

LEMMA HeadQuiet ==
  ASSUME TypesAre, HeadHolds, NEW w, NEW p, Steps(w, p), cells' = cells,
         p # AnswerAt, p # AnswerAt + 2
  PROVE  HeadHolds'
<1>1. /\ \A v \in Warps : at[v] \in Int /\ at'[v] = IF v = w THEN p + 1 ELSE at[v]
      /\ at[w] = p /\ p \in Nat
  BY Moved
<1>2. AnswerAt \in Int
  BY Strides DEF AnswerAt
<1>3. \A v \in Warps : /\ at'[v] <= AnswerAt <=> at[v] <= AnswerAt
                       /\ at'[v] > AnswerAt <=> at[v] > AnswerAt
                       /\ at'[v] > AnswerAt + 2 <=> at[v] > AnswerAt + 2
  BY <1>1, <1>2
<1>4. /\ \A i : NormOf(i)' = NormOf(i)
      /\ \A i : RopeOf(i)' = RopeOf(i) /\ RopeOwner(i)' = RopeOwner(i)
      /\ kernel' = kernel /\ extra' = extra
  BY Same DEF Steps, NormOf, RopeOf, RopeOwner
<1>5. ASSUME kernel = "normrope", NEW i \in Items
      PROVE  /\ WarpOf(NormOwner(i)) \in Warps
             /\ i < 2 * extra => WarpOf(RopeOwner(i)) \in Warps
  BY <1>5, OwnersAre DEF TypesAre
<1>6. ASSUME kernel = "normrope", NEW i \in Items PROVE Turned(i)' = Turned(i)
  BY <1>3, <1>4, <1>5, <1>6 DEF Turned
<1>7. ASSUME kernel = "normrope", NEW i \in Items
      PROVE  /\ at'[WarpOf(NormOwner(i))] <= AnswerAt => cells'[i] = Original(i)
             /\ at'[WarpOf(NormOwner(i))] > AnswerAt =>
                  cells'[i] = IF Turned(i) THEN RopeOf(i) ELSE NormOf(i)
  BY <1>3, <1>5, <1>7 DEF HeadHolds
<1> QED BY <1>4, <1>6, <1>7 DEF HeadHolds, NormOwner

\* Each thread normalises its elements, with the sum of all the squares.
LEMMA HeadNorm ==
  ASSUME TypesAre, Together, LevelsHold, HeadHolds, NEW w, Compute(w), NEW p, Steps(w, p),
         Reached(w).do = "norm"
  PROVE  HeadHolds'
<1>1. Launched
  BY DEF TypesAre
<1>2. p = AnswerAt /\ kernel = "normrope" /\ w \in Warps /\ at[w] = p /\ p \in 1..Len(Code)
  <2>1. Code[p].do = "norm" /\ p \in 1..Len(Code) /\ w \in Warps /\ at[w] = p
    BY DEF Reached, Steps
  <2> QED BY <2>1, <1>1, Kinds
<1>3. /\ Levels \in 1..10 /\ AnswerAt = 2 * Levels + 3 /\ Len(Code) = AnswerAt + 2
      /\ Code[AnswerAt + 1].do = "barrier" /\ AnswerAt \in Nat
      /\ AnswerAt + 1 \in 1..Len(Code) /\ Len(Code) \in Nat
  BY <1>1, <1>2, Numbered
<1>4. \A v \in Warps : at[v] \in Int /\ at[v] <= AnswerAt + 1
                       /\ at'[v] = (IF v = w THEN p + 1 ELSE at[v])
                       /\ at'[v] \in Int /\ at'[v] <= AnswerAt + 1
  <2> TAKE v \in Warps
  <2>1. at[v] \in Int /\ at'[v] = IF v = w THEN p + 1 ELSE at[v]
    BY Moved
  <2>2. at[w] <= (AnswerAt + 1) - 1 => at[v] <= AnswerAt + 1
    BY <1>2, <1>3, Met
  <2> QED BY <2>1, <2>2, <1>2, <1>3
<1>5. shared[0] = Whole("normrope", Tids)
  <2>1. "normrope" \in Trees /\ Runs("normrope")
    BY <1>2 DEF Trees, Runs
  <2>2. FoldAt("normrope", Levels) + 1 = AnswerAt - 1
    BY <1>3 DEF FoldAt, Base
  <2>3. Spoilt("normrope") = Len(Code) + 1
    BY DEF Spoilt
  <2>4. 0 \in Warps
    BY WarpIs
  <2>5. at[0] <= Len(Code) + 1 /\ at[w] > AnswerAt - 1
    BY <2>4, <1>2, <1>3, <1>4
  <2> QED BY <2>1, <2>2, <2>3, <2>5, <1>2, Reduced
<1>6. /\ \A i : NormOf(i)' = NormOf(i)
      /\ \A i : RopeOf(i)' = RopeOf(i) /\ RopeOwner(i)' = RopeOwner(i)
      /\ kernel' = kernel /\ extra' = extra
  BY Same DEF Steps, NormOf, RopeOf, RopeOwner
<1>7. \A i \in Items : ~Turned(i)'
  <2>1. ASSUME NEW i \in Items, i < 2 * extra PROVE ~(at'[WarpOf(RopeOwner(i))] > AnswerAt + 2)
    <3>1. WarpOf(RopeOwner(i)) \in Warps
      BY <2>1, <1>1, <1>2, OwnersAre
    <3> QED BY <3>1, <1>3, <1>4
  <2> QED BY <2>1, <1>6 DEF Turned
<1>8. \A t : Written("norm", t) =
              [i \in Mine(t, Elements) |-> <<"normed", cells[i], shared[0]>>]
  BY DEF Written, Normed
<1>9. ASSUME NEW i \in Items
      PROVE  /\ at'[WarpOf(NormOwner(i))] <= AnswerAt => cells'[i] = Original(i)
             /\ at'[WarpOf(NormOwner(i))] > AnswerAt => cells'[i] = NormOf(i)
  <2> DEFINE t == NormOwner(i)
  <2>1. t \in Tids /\ WarpOf(t) \in Warps /\ i \in 0..(Elements + Threads - 1)
    BY <1>1, <1>2, OwnersAre
  <2>2. \A u : i \in DOMAIN Written("norm", u) <=> i \in Mine(u, Elements)
    BY <1>8
  <2>3. \A u : i \in Mine(u, Elements) <=> u = t
    BY DEF Mine, Items, NormOwner
  <2> HIDE DEF t
  <2>4. CASE WarpOf(t) = w
    <3>1. cells[i] = Original(i)
      BY <2>4, <1>2, <1>3, <1>4 DEF HeadHolds, t
    <3>2. t \in Lanes(w)
      BY <2>1, <2>4 DEF Lanes
    <3>3. cells'[i] = Written("norm", t)[i]
      <4>1. "norm" \in Writers
        BY DEF Writers
      <4>2. i \in DOMAIN Written("norm", t)
            /\ \A u \in Lanes(w) : i \in DOMAIN Written("norm", u) => u = t
        BY <2>2, <2>3
      <4> QED BY <2>1, <3>2, <4>1, <4>2, Stored
    <3>4. Written("norm", t)[i] = <<"normed", cells[i], shared[0]>>
      BY <1>8, <2>3
    <3>5. cells'[i] = NormOf(i)
      BY <3>1, <3>3, <3>4, <1>5 DEF NormOf
    <3>6. ~(at'[WarpOf(t)] <= AnswerAt)
      BY <2>1, <2>4, <1>2, <1>3, <1>4
    <3> QED BY <3>5, <3>6 DEF t
  <2>5. CASE WarpOf(t) # w
    <3>1. cells'[i] = cells[i]
      <4>1. "norm" \in Writers
        BY DEF Writers
      <4>2. \A u \in Lanes(w) : i \notin DOMAIN Written("norm", u)
        BY <2>2, <2>3, <2>5 DEF Lanes
      <4> QED BY <2>1, <4>1, <4>2, Stored
    <3>2. at'[WarpOf(t)] = at[WarpOf(t)]
      BY <2>1, <2>5, <1>4
    <3>3. ~Turned(i)
      <4>1. ASSUME i < 2 * extra PROVE ~(at[WarpOf(RopeOwner(i))] > AnswerAt + 2)
        <5>1. WarpOf(RopeOwner(i)) \in Warps
          BY <4>1, <1>1, <1>2, OwnersAre
        <5> QED BY <5>1, <1>3, <1>4
      <4> QED BY <4>1 DEF Turned
    <3>4. /\ at[WarpOf(t)] <= AnswerAt => cells[i] = Original(i)
          /\ at[WarpOf(t)] > AnswerAt => cells[i] = NormOf(i)
      BY <3>3, <1>2 DEF HeadHolds, t
    <3> QED BY <3>1, <3>2, <3>4 DEF t
  <2> QED BY <2>4, <2>5
<1> QED BY <1>6, <1>7, <1>9 DEF HeadHolds, NormOwner

\* A thread rotates the two elements of its pairs, both normalised by then.
LEMMA HeadRope ==
  ASSUME TypesAre, Together, HeadHolds, NEW w, Compute(w), NEW p, Steps(w, p),
         Reached(w).do = "rope"
  PROVE  HeadHolds'
<1>1. Launched
  BY DEF TypesAre
<1>2. p = AnswerAt + 2 /\ kernel = "normrope" /\ w \in Warps /\ at[w] = p
      /\ p \in 1..Len(Code)
  <2>1. Code[p].do = "rope" /\ p \in 1..Len(Code) /\ w \in Warps /\ at[w] = p
    BY DEF Reached, Steps
  <2> QED BY <2>1, <1>1, Kinds
<1>3. /\ Len(Code) = AnswerAt + 2 /\ AnswerAt \in Nat
      /\ Code[AnswerAt + 1].do = "barrier" /\ AnswerAt + 1 \in 1..Len(Code)
  BY <1>1, <1>2, Numbered
<1>4. \A v \in Warps : at[v] \in Int /\ at[v] > AnswerAt
                       /\ at'[v] = (IF v = w THEN p + 1 ELSE at[v])
                       /\ at'[v] \in Int /\ at'[v] > AnswerAt
  <2> TAKE v \in Warps
  <2>1. at[v] \in Int /\ at'[v] = IF v = w THEN p + 1 ELSE at[v]
    BY Moved
  <2>2. at[w] > AnswerAt + 1 => at[v] >= AnswerAt + 1
    BY <1>2, <1>3, Met
  <2> QED BY <2>1, <2>2, <1>2, <1>3
<1>5. /\ \A i : NormOf(i)' = NormOf(i)
      /\ \A i : RopeOf(i)' = RopeOf(i) /\ RopeOwner(i)' = RopeOwner(i)
      /\ kernel' = kernel /\ extra' = extra
  BY Same DEF Steps, NormOf, RopeOf, RopeOwner
<1>6. \A i \in Items : cells[i] = IF Turned(i) THEN RopeOf(i) ELSE NormOf(i)
  <2> TAKE i \in Items
  <2>1. WarpOf(NormOwner(i)) \in Warps
    BY <1>1, <1>2, OwnersAre
  <2> QED BY <2>1, <1>2, <1>4 DEF HeadHolds
<1>7. /\ Threads \in Nat \ {0} /\ Elements \in Nat /\ extra \in Nat \ {0}
      /\ 2 * extra <= Elements /\ Items = 0..(Elements - 1)
  <2>1. 0 \in Items
    BY <1>1, InputsAre
  <2>2. Threads \in Nat \ {0} /\ Elements \in Nat /\ extra \in Nat /\ 2 * extra <= Elements
    BY <2>1, <1>1, <1>2, OwnersAre
  <2>3. extra \in 1..(Elements \div 2) /\ Items = 0..(Elements - 1)
    BY <1>1, <1>2, InputsAre
  <2> QED BY <2>2, <2>3
<1> DEFINE Dom(t) == {q + k * extra : q \in Mine(t, extra), k \in {0, 1}}
<1>8. \A t : Written("rope", t) =
              [i \in Dom(t) |-> IF i < extra THEN <<"low", i, cells[i], cells[i + extra]>>
                                ELSE <<"high", i, cells[i - extra], cells[i]>>]
  BY DEF Written, Rotated
<1>9. ASSUME NEW i \in Items, NEW t PROVE i \in Dom(t) <=> (i < 2 * extra /\ t = RopeOwner(i))
  <2>1. ASSUME NEW q \in Mine(t, extra), NEW k \in {0, 1}, i = q + k * extra
        PROVE  i < 2 * extra /\ t = RopeOwner(i)
    <3>1. q \in 0..(extra - 1) /\ q % Threads = t
      BY DEF Mine
    <3>2. (k = 0 /\ i = q) \/ (k = 1 /\ i = q + extra)
      BY <2>1, <3>1, <1>7
    <3>3. i < 2 * extra /\ (IF i < extra THEN i ELSE i - extra) = q
      BY <3>1, <3>2, <1>7
    <3> QED BY <3>1, <3>3 DEF RopeOwner
  <2>2. ASSUME i < 2 * extra, t = RopeOwner(i) PROVE i \in Dom(t)
    <3> DEFINE q == IF i < extra THEN i ELSE i - extra
               k == IF i < extra THEN 0 ELSE 1
    <3>1. q \in 0..(extra - 1) /\ k \in {0, 1} /\ i = q + k * extra
      BY <2>2, <1>7
    <3>2. q % Threads = t
      BY <2>2 DEF RopeOwner
    <3> HIDE DEF q, k
    <3>3. q \in Mine(t, extra)
      BY <3>1, <3>2 DEF Mine
    <3> QED BY <3>1, <3>3
  <2> QED BY <2>1, <2>2
<1> HIDE DEF Dom
<1>10. "rope" \in Writers
  BY DEF Writers
<1>11. ASSUME NEW i \in Items
       PROVE  cells'[i] = IF Turned(i)' THEN RopeOf(i) ELSE NormOf(i)
  <2>1. i \in 0..(Elements + Threads - 1) /\ i \in Nat
    BY <1>7
  <2>2. CASE i < 2 * extra /\ WarpOf(RopeOwner(i)) = w
    <3> DEFINE t == RopeOwner(i)
               j == IF i < extra THEN i + extra ELSE i - extra
    <3>1. t \in Tids
      BY <2>2, <1>1, <1>2, OwnersAre
    <3>2. j \in Items /\ j < 2 * extra /\ RopeOwner(j) = t
      <4>1. j \in Items /\ j < 2 * extra
            /\ (IF j < extra THEN j ELSE j - extra) = (IF i < extra THEN i ELSE i - extra)
        BY <2>1, <2>2, <1>7
      <4> QED BY <4>1 DEF RopeOwner
    <3>3. \A x \in Items : RopeOwner(x) = t => ~Turned(x)
      BY <2>2, <1>2, <1>3 DEF Turned
    <3> HIDE DEF t
    <3>4. cells[i] = NormOf(i) /\ cells[j] = NormOf(j)
      BY <3>2, <3>3, <1>6 DEF t
    <3>5. cells'[i] = Written("rope", t)[i]
      <4>1. t \in Lanes(w)
        BY <2>2, <3>1 DEF Lanes, t
      <4>2. i \in DOMAIN Written("rope", t)
            /\ \A u \in Lanes(w) : i \in DOMAIN Written("rope", u) => u = t
        BY <2>2, <1>8, <1>9 DEF t
      <4> QED BY <2>1, <4>1, <4>2, <1>10, Stored
    <3>6. Written("rope", t)[i] =
            IF i < extra THEN <<"low", i, cells[i], cells[i + extra]>>
            ELSE <<"high", i, cells[i - extra], cells[i]>>
      <4>1. i \in Dom(t)
        BY <2>2, <1>9 DEF t
      <4> QED BY <4>1, <1>8
    <3>7. cells'[i] = RopeOf(i)
      BY <3>4, <3>5, <3>6 DEF RopeOf
    <3>8. Turned(i)'
      <4>1. at'[w] > AnswerAt + 2
        BY <1>2, <1>3, <1>4
      <4> QED BY <4>1, <2>2, <1>5 DEF Turned
    <3> QED BY <3>7, <3>8
  <2>3. CASE ~(i < 2 * extra /\ WarpOf(RopeOwner(i)) = w)
    <3>1. \A t \in Lanes(w) : i \notin DOMAIN Written("rope", t)
      BY <2>3, <1>8, <1>9 DEF Lanes
    <3>2. cells'[i] = cells[i]
      BY <2>1, <3>1, <1>10, Stored
    <3>3. Turned(i)' = Turned(i)
      <4>1. CASE i < 2 * extra
        <5>1. WarpOf(RopeOwner(i)) \in Warps /\ WarpOf(RopeOwner(i)) # w
          BY <2>3, <4>1, <1>1, <1>2, OwnersAre
        <5>2. at'[WarpOf(RopeOwner(i))] = at[WarpOf(RopeOwner(i))]
          BY <5>1, <1>4
        <5> QED BY <5>2, <1>5 DEF Turned
      <4>2. CASE ~(i < 2 * extra)
        BY <4>2, <1>5 DEF Turned
      <4> QED BY <4>1, <4>2
    <3> QED BY <3>2, <3>3, <1>6
  <2> QED BY <2>2, <2>3
<1>12. \A i \in Items : ~(at'[WarpOf(NormOwner(i))] <= AnswerAt)
  <2> TAKE i \in Items
  <2>1. WarpOf(NormOwner(i)) \in Warps
    BY <1>1, <1>2, OwnersAre
  <2> QED BY <2>1, <1>3, <1>4
<1> QED BY <1>5, <1>11, <1>12 DEF HeadHolds, NormOwner

\* what the split attention ends with
Mixed == <<"combined", [s \in 0..(extra - 1) |-> Exp(input[s], Top)],
           Whole("splitsum", Tids)>>

\* Only the maximum, the weights and the end concern what SplitHolds says.
LEMMA SplitSame ==
  ASSUME TypesAre, NEW w, NEW p, Steps(w, p)
  PROVE  /\ Mixed' = Mixed /\ Top' = Top /\ kernel' = kernel /\ input' = input
         /\ extra' = extra /\ Code' = Code
         /\ AnswerAt \in Int /\ Len(Code) \in Int
         /\ \A v \in Warps :
              /\ at[v] \in Int /\ at'[v] \in Int
              /\ at'[v] = IF v = w THEN p + 1 ELSE at[v]
              /\ p # AnswerAt => (at'[v] > AnswerAt <=> at[v] > AnswerAt)
              /\ p # AnswerAt + 1 => (at'[v] <= AnswerAt + 1 <=> at[v] <= AnswerAt + 1)
              /\ p # Len(Code) => (at'[v] > Len(Code) <=> at[v] > Len(Code))
<1>1. /\ Top' = Top /\ kernel' = kernel /\ input' = input /\ extra' = extra /\ Code' = Code
      /\ Whole("splitsum", Tids)' = Whole("splitsum", Tids)
  BY Same DEF Steps
<1>2. Mixed' = Mixed
  BY <1>1 DEF Mixed
<1>3. AnswerAt \in Int /\ Len(Code) \in Int
  BY Numbered DEF TypesAre
<1>4. /\ \A v \in Warps : at[v] \in Int /\ at'[v] = IF v = w THEN p + 1 ELSE at[v]
      /\ at[w] = p /\ p \in Nat
  BY Moved
<1> DEFINE n == Len(Code)
<1>5. n \in Int
  BY <1>3
<1> HIDE DEF n
<1>6. ASSUME NEW v \in Warps
      PROVE  /\ at[v] \in Int /\ at'[v] \in Int
             /\ at'[v] = IF v = w THEN p + 1 ELSE at[v]
             /\ p # AnswerAt => (at'[v] > AnswerAt <=> at[v] > AnswerAt)
             /\ p # AnswerAt + 1 => (at'[v] <= AnswerAt + 1 <=> at[v] <= AnswerAt + 1)
             /\ p # n => (at'[v] > n <=> at[v] > n)
  <2> DEFINE c == AnswerAt
  <2>1. c \in Int
    BY <1>3
  <2> HIDE DEF c
  <2>2. /\ at[v] \in Int /\ at'[v] \in Int
        /\ at'[v] = IF v = w THEN p + 1 ELSE at[v]
        /\ p # c => (at'[v] > c <=> at[v] > c)
        /\ p # c + 1 => (at'[v] <= c + 1 <=> at[v] <= c + 1)
        /\ p # n => (at'[v] > n <=> at[v] > n)
    BY <2>1, <1>4, <1>5
  <2> QED BY <2>2 DEF c
<1> QED BY <1>1, <1>2, <1>3, <1>6 DEF n

LEMMA SplitQuiet ==
  ASSUME MaxSplits <= WarpSize, TypesAre, SplitHolds, NEW w, NEW p, Steps(w, p),
         cells' = cells, p # AnswerAt + 1, p # Len(Code),
         \/ p # AnswerAt /\ reg' = reg
         \/ p = AnswerAt /\ \A t \in Lanes(0) : at'[0] > AnswerAt => reg'[t] = Top
  PROVE  SplitHolds'
<1>1. /\ Mixed' = Mixed /\ Top' = Top /\ kernel' = kernel /\ input' = input
      /\ extra' = extra /\ Code' = Code
      /\ \A v \in Warps :
           /\ at[v] \in Int /\ at'[v] \in Int
           /\ p # AnswerAt => (at'[v] > AnswerAt <=> at[v] > AnswerAt)
           /\ p # AnswerAt + 1 => (at'[v] <= AnswerAt + 1 <=> at[v] <= AnswerAt + 1)
           /\ p # Len(Code) => (at'[v] > Len(Code) <=> at[v] > Len(Code))
  BY SplitSame
<1>2. 0 \in Warps /\ \A t \in Tids : WarpOf(t) \in Warps
  BY WarpIs
<1> SUFFICES ASSUME kernel = "split" PROVE SplitHolds'
  BY <1>1 DEF SplitHolds
<1>3. /\ at[0] > AnswerAt => \A t \in Lanes(0) : reg[t] = Top
      /\ \A s \in 0..(extra - 1) :
           cells[s] = IF at[WarpOf(s % Threads)] <= AnswerAt + 1 THEN input[s]
                      ELSE Exp(input[s], Top)
      /\ \A t \in Tids : at[WarpOf(t)] > Len(Code) => cells[Elements + t] = Mixed
  BY DEF SplitHolds, Mixed
<1>4. at'[0] > AnswerAt => \A t \in Lanes(0) : reg'[t] = Top
  BY <1>1, <1>2, <1>3
<1>5. ASSUME NEW s \in 0..(extra - 1)
      PROVE  cells'[s] = IF at'[WarpOf(s % Threads)] <= AnswerAt + 1 THEN input[s]
                         ELSE Exp(input[s], Top)
  <2>1. WarpOf(s % Threads) \in Warps
    BY InFirstWarp, <1>2 DEF TypesAre
  <2> QED BY <2>1, <1>1, <1>3
<1>6. ASSUME NEW t \in Tids, at'[WarpOf(t)] > Len(Code)
      PROVE  cells'[Elements + t] = Mixed
  BY <1>1, <1>2, <1>3, <1>6
<1> QED BY <1>1, <1>4, <1>5, <1>6 DEF SplitHolds, Mixed

LEMMA SplitKeep ==
  ASSUME MaxSplits <= WarpSize, TypesAre, Together, LevelsHold, SplitHolds,
         NEW w, Keep(w), NEW p, Steps(w, p)
  PROVE  SplitHolds'
<1>1. Launched
  BY DEF TypesAre
<1>2. p = AnswerAt /\ kernel = "split" /\ w \in Warps /\ at[w] = p /\ p \in 1..Len(Code)
  <2>1. Code[p].do = "mean" /\ p \in 1..Len(Code) /\ w \in Warps /\ at[w] = p
    BY DEF Keep, Reached, Steps
  <2> QED BY <2>1, <1>1, Kinds
<1>3. Levels \in 1..10 /\ AnswerAt = 2 * Levels + 3 /\ Len(Code) = 4 * Levels + 6
  BY <1>1, <1>2, Numbered
<1>4. cells' = cells /\ \A t \in Tids : reg'[t] = IF t \in Lanes(w) THEN shared[0] ELSE reg[t]
  BY DEF Keep
<1>5. \A t \in Lanes(0) : t \in Tids /\ (t \in Lanes(w) <=> w = 0)
  BY DEF Lanes
<1>6. ASSUME w = 0 PROVE shared[0] = Top
  <2>1. "split" \in Trees /\ Runs("split")
    BY <1>2 DEF Trees, Runs
  <2>2. FoldAt("split", Levels) + 1 = AnswerAt - 1
    BY <1>3 DEF FoldAt, Base
  <2>3. Spoilt("split") = AnswerAt + 1
    BY <1>3 DEF Spoilt
  <2>4. at[0] = AnswerAt /\ AnswerAt \in Int
    BY <1>2, <1>3, <1>6
  <2>5. shared[0] = Whole("split", Tids)
    <3>1. at[w] > FoldAt("split", Levels) + 1
      BY <2>2, <2>4, <1>6
    <3>2. at[0] <= Spoilt("split")
      BY <2>3, <2>4
    <3> QED BY <2>1, <3>1, <3>2, <1>2, Reduced
  <2>6. extra \in Nat
    <3>1. extra \in 1..Elements
      BY <1>1, <1>2, InputsAre
    <3> QED BY <3>1
  <2>7. Share(Tids, extra) = 0..(extra - 1)
    BY <2>6, Shares
  <2> QED BY <2>5, <2>7 DEF Whole, Top
<1>7. ASSUME NEW t \in Lanes(0), at'[0] > AnswerAt PROVE reg'[t] = Top
  <2>1. CASE w = 0
    BY <2>1, <1>4, <1>5, <1>6
  <2>2. CASE w # 0
    <3>1. 0 \in Warps
      BY WarpIs
    <3>2. at'[0] = at[0]
      BY <3>1, <2>2, SplitSame
    <3>3. reg'[t] = reg[t]
      BY <2>2, <1>4, <1>5
    <3> QED BY <3>2, <3>3, <1>2, <1>7 DEF SplitHolds
  <2> QED BY <2>1, <2>2
<1>8. p # AnswerAt + 1 /\ p # Len(Code)
  BY <1>2, <1>3
<1> QED BY <1>2, <1>4, <1>7, <1>8, SplitQuiet

\* Each part is scaled by the maximum of all of them.
LEMMA SplitWeights ==
  ASSUME MaxSplits <= WarpSize, TypesAre, SplitHolds, NEW w, Compute(w), NEW p, Steps(w, p),
         Reached(w).do = "weights"
  PROVE  SplitHolds'
<1>1. Launched
  BY DEF TypesAre
<1>2. p = AnswerAt + 1 /\ kernel = "split" /\ w \in Warps /\ at[w] = p
      /\ p \in 1..Len(Code)
  <2>1. Code[p].do = "weights" /\ p \in 1..Len(Code) /\ w \in Warps /\ at[w] = p
    BY DEF Reached, Steps
  <2> QED BY <2>1, <1>1, Kinds
<1>3. /\ Levels \in 1..10 /\ AnswerAt = 2 * Levels + 3 /\ Len(Code) = 4 * Levels + 6
      /\ p # AnswerAt /\ p # Len(Code)
  <2>1. Levels \in 1..10 /\ AnswerAt = 2 * Levels + 3 /\ Len(Code) = 4 * Levels + 6
    BY <1>1, <1>2, Numbered
  <2> QED BY <2>1, <1>2
<1>4. /\ Mixed' = Mixed /\ Top' = Top /\ kernel' = kernel /\ input' = input
      /\ extra' = extra /\ Code' = Code
      /\ \A v \in Warps :
           /\ at[v] \in Int /\ at'[v] = IF v = w THEN p + 1 ELSE at[v]
           /\ at'[v] > AnswerAt <=> at[v] > AnswerAt
           /\ at'[v] > Len(Code) <=> at[v] > Len(Code)
  BY <1>3, SplitSame
<1>5. /\ 0 \in Warps /\ \A t \in Tids : WarpOf(t) \in Warps /\ t \in Nat
  BY WarpIs
<1>6. /\ at[0] > AnswerAt => \A t \in Lanes(0) : reg[t] = Top
      /\ \A s \in 0..(extra - 1) :
           cells[s] = IF at[WarpOf(s % Threads)] <= AnswerAt + 1 THEN input[s]
                      ELSE Exp(input[s], Top)
      /\ \A t \in Tids : at[WarpOf(t)] > Len(Code) => cells[Elements + t] = Mixed
  BY <1>2 DEF SplitHolds, Mixed
<1>7. reg' = reg
  BY DEF Compute
<1>8. "weights" \in Writers
  BY DEF Writers
<1>9. \A t : Written("weights", t) = [s \in Mine(t, extra) |-> Exp(cells[s], reg[t])]
  BY DEF Written
<1>10. Elements \in Nat /\ extra \in Nat /\ extra <= Elements /\ Threads \in Nat \ {0}
  <2>1. extra \in 1..Elements /\ Elements \in Nat
    BY <1>1, <1>2, InputsAre
  <2> QED BY <2>1, Strides
<1>11. ASSUME NEW s \in 0..(extra - 1)
       PROVE  cells'[s] = IF at'[WarpOf(s % Threads)] <= AnswerAt + 1 THEN input[s]
                          ELSE Exp(input[s], Top)
  <2>1. s % Threads = s /\ s \in Tids /\ WarpOf(s) = 0
    BY <1>1, <1>2, InFirstWarp
  <2>2. s \in 0..(Elements + Threads - 1)
    BY <1>10
  <2>3. \A t : s \in DOMAIN Written("weights", t) <=> t = s
    <3>1. \A t : s \in DOMAIN Written("weights", t) <=> s \in Mine(t, extra)
      BY <1>9
    <3>2. \A t : s \in Mine(t, extra) <=> t = s
      BY <2>1 DEF Mine
    <3> QED BY <3>1, <3>2
  <2>4. CASE w = 0
    <3>1. s \in Lanes(w) /\ s \in Lanes(0)
      BY <2>1, <2>4 DEF Lanes
    <3>2. cells'[s] = Written("weights", s)[s]
      BY <2>2, <2>3, <3>1, <1>8, Stored
    <3>3. Written("weights", s)[s] = Exp(cells[s], reg[s])
      BY <1>9, <2>3
    <3>4. at[0] > AnswerAt /\ at[0] <= AnswerAt + 1 /\ at'[0] = AnswerAt + 2
          /\ ~(AnswerAt + 2 <= AnswerAt + 1)
      BY <2>4, <1>2, <1>3, <1>4, <1>5
    <3>5. cells[s] = input[s] /\ reg[s] = Top
      BY <2>1, <3>1, <3>4, <1>6
    <3> QED BY <2>1, <3>2, <3>3, <3>4, <3>5
  <2>5. CASE w # 0
    <3>1. \A t \in Lanes(w) : s \notin DOMAIN Written("weights", t)
      BY <2>1, <2>3, <2>5 DEF Lanes
    <3>2. cells'[s] = cells[s]
      BY <2>2, <3>1, <1>8, Stored
    <3>3. at'[0] = at[0]
      BY <2>5, <1>4, <1>5
    <3> QED BY <2>1, <3>2, <3>3, <1>6
  <2> QED BY <2>4, <2>5
<1>12. ASSUME NEW t \in Tids, at'[WarpOf(t)] > Len(Code)
       PROVE  cells'[Elements + t] = Mixed
  <2>1. Elements + t \in 0..(Elements + Threads - 1)
    BY <1>5, <1>10 DEF Tids
  <2>2. \A u : Elements + t \notin Mine(u, extra)
    BY <1>5, <1>10 DEF Mine
  <2>3. \A u \in Lanes(w) : Elements + t \notin DOMAIN Written("weights", u)
    BY <2>2, <1>9
  <2>4. cells'[Elements + t] = cells[Elements + t]
    BY <2>1, <2>3, <1>8, Stored
  <2> QED BY <2>4, <1>4, <1>5, <1>6, <1>12
<1>13. at'[0] > AnswerAt => \A t \in Lanes(0) : reg'[t] = Top
  BY <1>4, <1>5, <1>6, <1>7
<1> QED BY <1>4, <1>11, <1>12, <1>13 DEF SplitHolds, Mixed

\* At the end every thread mixes all the parts, each written by then.
LEMMA SplitCombine ==
  ASSUME MaxSplits <= WarpSize, TypesAre, Together, LevelsHold, SplitHolds,
         NEW w, Compute(w), NEW p, Steps(w, p), Reached(w).do = "combine"
  PROVE  SplitHolds'
<1>1. Launched
  BY DEF TypesAre
<1>2. p = Len(Code) /\ kernel = "split" /\ w \in Warps /\ at[w] = p /\ p \in 1..Len(Code)
  <2>1. Code[p].do = "combine" /\ p \in 1..Len(Code) /\ w \in Warps /\ at[w] = p
    BY DEF Reached, Steps
  <2> QED BY <2>1, <1>1, Kinds
<1>3. /\ Levels \in 1..10 /\ AnswerAt = 2 * Levels + 3 /\ Len(Code) = 4 * Levels + 6
      /\ Code[AnswerAt + 2].do = "barrier" /\ p # AnswerAt /\ p # AnswerAt + 1
      /\ AnswerAt + 2 \in 1..Len(Code) /\ p > AnswerAt + 2
  <2>1. Levels \in 1..10 /\ AnswerAt = 2 * Levels + 3 /\ Len(Code) = 4 * Levels + 6
        /\ Code[AnswerAt + 2].do = "barrier"
    BY <1>1, <1>2, Numbered
  <2>2. Len(Code) \in Nat
    BY <2>1
  <2> QED BY <2>1, <2>2, <1>2
<1>4. /\ Mixed' = Mixed /\ Top' = Top /\ kernel' = kernel /\ input' = input
      /\ extra' = extra /\ Code' = Code
      /\ \A v \in Warps :
           /\ at[v] \in Int /\ at'[v] = IF v = w THEN p + 1 ELSE at[v]
           /\ at'[v] > AnswerAt <=> at[v] > AnswerAt
           /\ at'[v] <= AnswerAt + 1 <=> at[v] <= AnswerAt + 1
  BY <1>3, SplitSame
<1>5. 0 \in Warps /\ \A t \in Tids : WarpOf(t) \in Warps /\ t \in Nat
  BY WarpIs
<1>6. /\ at[0] > AnswerAt => \A t \in Lanes(0) : reg[t] = Top
      /\ \A s \in 0..(extra - 1) :
           cells[s] = IF at[WarpOf(s % Threads)] <= AnswerAt + 1 THEN input[s]
                      ELSE Exp(input[s], Top)
      /\ \A t \in Tids : at[WarpOf(t)] > Len(Code) => cells[Elements + t] = Mixed
  BY <1>2 DEF SplitHolds, Mixed
<1>7. reg' = reg
  BY DEF Compute
<1>8. "combine" \in Writers
  BY DEF Writers
<1>9. shared[0] = Whole("splitsum", Tids)
  <2>1. "splitsum" \in Trees /\ Runs("splitsum")
    BY <1>2 DEF Trees, Runs
  <2>2. FoldAt("splitsum", Levels) + 1 = 4 * Levels + 5
    <3>1. FoldAt("splitsum", Levels) = (2 * Levels + 5) + 2 * Levels - 1
      BY DEF FoldAt, Base
    <3>2. Levels \in Nat
      BY Strides
    <3> QED BY <3>1, <3>2
  <2>3. Spoilt("splitsum") = Len(Code) + 1
    BY DEF Spoilt
  <2>4. at[w] > FoldAt("splitsum", Levels) + 1
    BY <2>2, <1>2, <1>3
  <2>5. at[0] <= Len(Code) + 1
    <3>1. at \in [Warps -> 1..(Len(Code) + 1)] /\ Len(Code) \in Nat
      BY <1>3 DEF TypesAre
    <3> QED BY <3>1, <1>5
  <2> QED BY <2>1, <2>3, <2>4, <2>5, <1>2, Reduced
<1>10. \A v \in Warps : ~(at[v] <= AnswerAt + 1)
  <2> TAKE v \in Warps
  <2>1. at[v] \in Int /\ at[v] >= AnswerAt + 2
    BY <1>2, <1>3, Met
  <2> QED BY <2>1, <1>3
<1>11. \A s \in 0..(extra - 1) : cells[s] = Exp(input[s], Top)
  <2> TAKE s \in 0..(extra - 1)
  <2>1. WarpOf(s % Threads) \in Warps
    BY <1>1, <1>2, <1>5, InFirstWarp
  <2> QED BY <2>1, <1>6, <1>10
<1>12. \A t : Written("combine", t) = [i \in {Elements + t} |-> Mixed]
  <2>1. [s \in 0..(extra - 1) |-> cells[s]] = [s \in 0..(extra - 1) |-> Exp(input[s], Top)]
    BY <1>11
  <2>2. \A t : Written("combine", t) =
          [i \in {Elements + t} |->
             <<"combined", [s \in 0..(extra - 1) |-> cells[s]], shared[0]>>]
    BY DEF Written
  <2> QED BY <2>1, <2>2, <1>9 DEF Mixed
<1>13. Elements \in Nat /\ extra \in Nat /\ extra <= Elements /\ Threads \in Nat \ {0}
  <2>1. extra \in 1..Elements /\ Elements \in Nat
    BY <1>1, <1>2, InputsAre
  <2> QED BY <2>1, Strides
<1>14. \A t : DOMAIN Written("combine", t) = {Elements + t}
  BY <1>12
<1>15. \A u \in Lanes(w) : u \in Tids /\ u \in Nat /\ WarpOf(u) = w
  BY <1>5 DEF Lanes
<1>16. ASSUME NEW s \in 0..(extra - 1)
       PROVE  cells'[s] = IF at'[WarpOf(s % Threads)] <= AnswerAt + 1 THEN input[s]
                          ELSE Exp(input[s], Top)
  <2>1. s \in 0..(Elements + Threads - 1)
    BY <1>13
  <2>2. \A u \in Lanes(w) : s # Elements + u
    BY <1>13, <1>15
  <2>3. \A u \in Lanes(w) : s \notin DOMAIN Written("combine", u)
    BY <2>2, <1>14
  <2>4. cells'[s] = cells[s]
    BY <2>1, <2>3, <1>8, Stored
  <2>5. WarpOf(s % Threads) \in Warps
    BY <1>1, <1>2, <1>5, InFirstWarp
  <2> QED BY <2>4, <2>5, <1>4, <1>6
<1>17. ASSUME NEW t \in Tids, at'[WarpOf(t)] > Len(Code)
       PROVE  cells'[Elements + t] = Mixed
  <2>1. Elements + t \in 0..(Elements + Threads - 1) /\ t \in Nat
    BY <1>5, <1>13 DEF Tids
  <2>2. \A u \in Lanes(w) : Elements + t = Elements + u => u = t
    BY <2>1, <1>13, <1>15
  <2>3. CASE WarpOf(t) = w
    <3>1. t \in Lanes(w)
      BY <2>3 DEF Lanes
    <3>2. Elements + t \in DOMAIN Written("combine", t)
          /\ \A u \in Lanes(w) : Elements + t \in DOMAIN Written("combine", u) => u = t
      BY <2>2, <1>14
    <3>3. cells'[Elements + t] = Written("combine", t)[Elements + t]
      BY <2>1, <3>1, <3>2, <1>8, Stored
    <3> QED BY <3>3, <1>12
  <2>4. CASE WarpOf(t) # w
    <3>1. \A u \in Lanes(w) : Elements + t \notin DOMAIN Written("combine", u)
      BY <2>2, <2>4, <1>14, <1>15
    <3>2. cells'[Elements + t] = cells[Elements + t]
      BY <2>1, <3>1, <1>8, Stored
    <3>3. at'[WarpOf(t)] = at[WarpOf(t)]
      BY <2>4, <1>4, <1>5
    <3> QED BY <3>2, <3>3, <1>6, <1>17
  <2> QED BY <2>3, <2>4
<1>18. at'[0] > AnswerAt => \A t \in Lanes(0) : reg'[t] = Top
  BY <1>4, <1>5, <1>6, <1>7
<1> QED BY <1>4, <1>16, <1>17, <1>18 DEF SplitHolds, Mixed

\* Thread 0 writes the answer of a greedy kernel.
LEMMA Answers ==
  ASSUME TypesAre, Together, LevelsHold, AnswerHolds, NEW w, Compute(w), NEW p, Steps(w, p),
         Reached(w).do = "answer"
  PROVE  AnswerHolds'
<1>1. Launched
  BY DEF TypesAre
<1>2. p = AnswerAt /\ kernel \in {"argmax", "partials"} /\ w \in Warps /\ at[w] = p
      /\ p \in 1..Len(Code)
  <2>1. Code[p].do = "answer" /\ p \in 1..Len(Code) /\ w \in Warps /\ at[w] = p
    BY DEF Reached, Steps
  <2> QED BY <2>1, <1>1, Kinds
<1>3. Levels \in 1..10 /\ AnswerAt = 2 * Levels + 3 /\ Len(Code) = AnswerAt
  BY <1>1, <1>2, Numbered
<1>4. kernel' = kernel /\ \A tree, T : Whole(tree, T)' = Whole(tree, T)
  BY Same DEF Steps
<1>5. \A v \in Warps : at[v] \in Int /\ at'[v] = IF v = w THEN p + 1 ELSE at[v]
  BY Moved
<1>6. 0 \in Warps /\ 0 \in Tids /\ WarpOf(0) = 0
  BY WarpIs
<1>7. Elements \in 0..(Elements + Threads - 1)
  <2>1. Elements \in Nat
    BY <1>1, InputsAre
  <2>2. Threads \in 2..1024
    BY Strides
  <2> QED BY <2>1, <2>2
<1>8. "answer" \in Writers
  BY DEF Writers
<1>9. \A t : Written("answer", t) =
               [i \in (IF t = 0 THEN {Elements} ELSE {}) |-> Found(shared[0])]
  BY DEF Written
<1>10. \A t : DOMAIN Written("answer", t) = IF t = 0 THEN {Elements} ELSE {}
  BY <1>9
<1>11. ASSUME at'[0] > AnswerAt PROVE cells'[Elements] = Found(Whole(kernel, Tids))
  <2>1. CASE w = 0
    <3>1. shared[0] = Whole(kernel, Tids)
      <4>1. kernel \in Trees /\ Runs(kernel) /\ kernel # "splitsum" /\ kernel # "split"
        BY <1>2 DEF Trees, Runs
      <4>2. FoldAt(kernel, Levels) + 1 = AnswerAt - 1
        <5>1. FoldAt(kernel, Levels) = 2 + 2 * Levels - 1
          BY <4>1 DEF FoldAt, Base
        <5> QED BY <5>1, <1>3
      <4>3. Spoilt(kernel) = Len(Code) + 1
        BY <4>1 DEF Spoilt
      <4>4. at[w] > FoldAt(kernel, Levels) + 1 /\ at[0] <= Spoilt(kernel)
        BY <4>2, <4>3, <2>1, <1>2, <1>3
      <4> QED BY <4>1, <4>4, <1>2, Reduced
    <3>2. 0 \in Lanes(w)
      BY <2>1, <1>6 DEF Lanes
    <3>3. Elements \in DOMAIN Written("answer", 0)
          /\ \A u \in Lanes(w) : Elements \in DOMAIN Written("answer", u) => u = 0
      BY <1>10
    <3>4. cells'[Elements] = Written("answer", 0)[Elements]
      BY <3>2, <3>3, <1>7, <1>8, Stored
    <3>5. Written("answer", 0)[Elements] = Found(shared[0])
      BY <1>9
    <3> QED BY <3>1, <3>4, <3>5
  <2>2. CASE w # 0
    <3>1. \A u \in Lanes(w) : u # 0
      BY <2>2, <1>6 DEF Lanes
    <3>2. \A u \in Lanes(w) : Elements \notin DOMAIN Written("answer", u)
      BY <3>1, <1>10
    <3>3. cells'[Elements] = cells[Elements]
      BY <3>2, <1>7, <1>8, Stored
    <3>4. at'[0] = at[0]
      BY <2>2, <1>5, <1>6
    <3> QED BY <3>3, <3>4, <1>2, <1>11 DEF AnswerHolds
  <2> QED BY <2>1, <2>2
<1> QED BY <1>4, <1>11 DEF AnswerHolds

\* the instructions that write the global memory or the registers
Memory == {"norm", "rope", "mean", "weights", "combine", "answer"}

\* Every other instruction leaves what the memory holds alone.
LEMMA MemoryQuiet ==
  ASSUME MaxSplits <= WarpSize, TypesAre, HeadHolds, SplitHolds, AnswerHolds,
         NEW w, NEW p, Steps(w, p), cells' = cells, reg' = reg, Code[p].do \notin Memory
  PROVE  HeadHolds' /\ SplitHolds' /\ AnswerHolds'
<1>1. Launched
  BY DEF TypesAre
<1>2. /\ kernel \in {"argmax", "partials"} => p # AnswerAt
      /\ kernel = "normrope" => p # AnswerAt /\ p # AnswerAt + 2
      /\ kernel = "split" => p # AnswerAt /\ p # AnswerAt + 1 /\ p # Len(Code)
  BY <1>1, Numbered DEF Memory
<1>3. kernel' = kernel /\ \A tree, T : Whole(tree, T)' = Whole(tree, T)
  BY Same DEF Steps
<1>4. HeadHolds'
  <2>1. CASE kernel = "normrope"
    BY <2>1, <1>2, HeadQuiet
  <2>2. CASE kernel # "normrope"
    BY <2>2, <1>3 DEF HeadHolds
  <2> QED BY <2>1, <2>2
<1>5. SplitHolds'
  <2>1. CASE kernel = "split"
    BY <2>1, <1>2, SplitQuiet
  <2>2. CASE kernel # "split"
    BY <2>2, <1>3 DEF SplitHolds
  <2> QED BY <2>1, <2>2
<1>6. AnswerHolds'
  <2>1. SUFFICES ASSUME kernel \in {"argmax", "partials"}, at'[0] > AnswerAt
                 PROVE  cells'[Elements] = Found(Whole(kernel, Tids))
    BY <1>3 DEF AnswerHolds
  <2>2. 0 \in Warps
    BY WarpIs
  <2>3. p # AnswerAt
    BY <2>1, <1>2
  <2>4. at[0] > AnswerAt
    BY <2>1, <2>2, <2>3, SplitSame
  <2> QED BY <2>1, <2>4 DEF AnswerHolds
<1> QED BY <1>4, <1>5, <1>6

\* The variables stay functions.
LEMMA StayTyped ==
  ASSUME TypesAre, NEW w, NEW p, Steps(w, p),
         shared' = [t \in Tids |-> shared'[t]], reg' = [t \in Tids |-> reg'[t]],
         cells' = [i \in 0..(Elements + Threads - 1) |-> cells'[i]]
  PROVE  TypesAre'
<1>1. Launched' /\ Code' = Code
  BY Same DEF Steps, TypesAre
<1>2. at' \in [Warps -> 1..(Len(Code) + 1)]
  BY Moved
<1> QED BY <1>1, <1>2 DEF TypesAre

-----------------------------------------------------------------------------
(* The steps.                                                              *)

LEMMA BarrierKeeps ==
  ASSUME MaxSplits <= WarpSize, Good, NEW w \in Warps, Barrier(w)
  PROVE  Good'
<1> DEFINE p == at[w]
<1> USE DEF Good
<1>1. Steps(w, p) /\ Code[p].do = "barrier" /\ (\A v \in Warps : at[v] >= p)
      /\ shared' = shared /\ reg' = reg /\ cells' = cells
  <2>1. at \in [Warps -> 1..(Len(Code) + 1)] /\ Len(Code) \in Nat
    BY Numbered DEF TypesAre
  <2>2. p \in 1..Len(Code)
    BY <2>1 DEF Barrier
  <2> QED BY <2>2 DEF Barrier, Steps, Advance, Reached
<1> HIDE DEF p
<1>2. Together'
  BY <1>1, StayTogether
<1>3. LevelsHold'
  BY <1>1, LevelsQuiet DEF LevelDos
<1>4. HeadHolds' /\ SplitHolds' /\ AnswerHolds'
  <2>1. Code[p].do \notin Memory
    BY <1>1 DEF Memory
  <2> QED BY <1>1, <2>1, MemoryQuiet
<1>5. TypesAre'
  <2>1. /\ shared' = [t \in Tids |-> shared'[t]] /\ reg' = [t \in Tids |-> reg'[t]]
        /\ cells' = [i \in 0..(Elements + Threads - 1) |-> cells'[i]]
    BY <1>1 DEF TypesAre
  <2> QED BY <1>1, <2>1, StayTyped
<1> QED BY <1>2, <1>3, <1>4, <1>5

LEMMA FoldKeeps ==
  ASSUME MaxSplits <= WarpSize, Good, NEW w \in Warps, Fold(w)
  PROVE  Good'
<1> DEFINE p == at[w]
<1> USE DEF Good
<1>1. /\ Steps(w, at[w]) /\ Code[p].do \in {"add", "max", "best"}
      /\ reg' = reg /\ cells' = cells
  <2>1. at \in [Warps -> 1..(Len(Code) + 1)] /\ Len(Code) \in Nat
    BY Numbered DEF TypesAre
  <2>2. at[w] \in 1..Len(Code)
    BY <2>1 DEF Fold
  <2> QED BY <2>2 DEF Fold, Steps, Advance, Reached
<1>2. LevelsHold'
  BY <1>1, LevelsFold
<1>3. Steps(w, p)
  BY <1>1
<1> HIDE DEF p
<1>4. Together'
  BY <1>1, <1>3, StayTogether
<1>5. HeadHolds' /\ SplitHolds' /\ AnswerHolds'
  <2>1. Code[p].do \notin Memory
    BY <1>1 DEF Memory
  <2> QED BY <1>1, <1>3, <2>1, MemoryQuiet
<1>6. TypesAre'
  <2>1. shared' = [t \in Tids |-> shared'[t]]
    BY DEF Fold
  <2>2. /\ reg' = [t \in Tids |-> reg'[t]]
        /\ cells' = [i \in 0..(Elements + Threads - 1) |-> cells'[i]]
    BY <1>1 DEF TypesAre
  <2> QED BY <1>3, <2>1, <2>2, StayTyped
<1> QED BY <1>2, <1>4, <1>5, <1>6

LEMMA KeepKeeps ==
  ASSUME MaxSplits <= WarpSize, Good, NEW w \in Warps, Keep(w)
  PROVE  Good'
<1> DEFINE p == at[w]
<1> USE DEF Good
<1>1. /\ Steps(w, p) /\ Code[p].do = "mean" /\ shared' = shared /\ cells' = cells
      /\ p \in 1..Len(Code)
  <2>1. at \in [Warps -> 1..(Len(Code) + 1)] /\ Len(Code) \in Nat
    BY Numbered DEF TypesAre
  <2>2. p \in 1..Len(Code)
    BY <2>1 DEF Keep
  <2> QED BY <2>2 DEF Keep, Steps, Advance, Reached
<1>2. reg' = [t \in Tids |-> reg'[t]]
  BY DEF Keep
<1> HIDE DEF p
<1>3. Together'
  BY <1>1, StayTogether
<1>4. LevelsHold'
  BY <1>1, LevelsQuiet DEF LevelDos
<1>5. kernel = "split"
  BY <1>1, Kinds DEF TypesAre
<1>6. kernel' = "split"
  BY <1>1, <1>5 DEF Steps
<1>7. HeadHolds' /\ AnswerHolds'
  BY <1>6 DEF HeadHolds, AnswerHolds
<1>8. SplitHolds'
  BY <1>1, SplitKeep
<1>9. TypesAre'
  <2>1. /\ shared' = [t \in Tids |-> shared'[t]]
        /\ cells' = [i \in 0..(Elements + Threads - 1) |-> cells'[i]]
    BY <1>1 DEF TypesAre
  <2> QED BY <1>1, <1>2, <2>1, StayTyped
<1> QED BY <1>3, <1>4, <1>7, <1>8, <1>9

LEMMA ComputeKeeps ==
  ASSUME MaxSplits <= WarpSize, Good, NEW w \in Warps, Compute(w)
  PROVE  Good'
<1> DEFINE p == at[w]
           d == Reached(w).do
           sets == {"sum", "squares", "var", "scan", "scanparts", "greatest", "weights"}
<1> USE DEF Good
<1>1. Launched /\ kernel \in {"argmax", "partials", "normrope", "split"}
  BY DEF TypesAre, Launched
<1>2. /\ Steps(w, at[w]) /\ p \in 1..Len(Code) /\ Code[p].do = d /\ reg' = reg
      /\ d \in sets \cup Writers
  <2>1. at \in [Warps -> 1..(Len(Code) + 1)] /\ Len(Code) \in Nat
    BY Numbered DEF TypesAre
  <2>2. at[w] \in 1..Len(Code)
    BY <2>1 DEF Compute
  <2> QED BY <2>2 DEF Compute, Steps, Advance, Reached, Writers
<1>3. /\ d \notin sets => shared' = shared
      /\ d \in sets => shared' = [t \in Tids |-> shared'[t]]
      /\ d \notin Writers => cells' = cells
  BY DEF Compute, Writers
<1>4. Steps(w, p) /\ kernel' = kernel
  BY <1>2 DEF Steps
<1>5. d \in Dos
  <2> HIDE DEF p, d
  <2> QED BY <1>1, <1>2, Kinds
<1>6. Together'
  <2>1. d # "barrier"
    BY <1>2 DEF Writers
  <2> HIDE DEF p, d
  <2> QED BY <1>2, <1>4, <2>1, StayTogether
<1>7. LevelsHold'
  <2>1. CASE d \in sets
    <3>1. d \in LevelDos \ {"add", "max", "best"}
      BY <2>1, <1>5 DEF LevelDos, Dos
    <3> QED BY <3>1, <1>2, LevelsLeaf
  <2>2. CASE d \notin sets
    <3>1. d \notin LevelDos
      BY <2>2, <1>2 DEF LevelDos, Writers
    <3>2. shared' = shared
      BY <2>2, <1>3
    <3> HIDE DEF p, d
    <3> QED BY <3>1, <3>2, <1>2, <1>4, LevelsQuiet
  <2> QED BY <2>1, <2>2
<1>8. HeadHolds' /\ SplitHolds' /\ AnswerHolds'
  <2>1. CASE d \notin Memory
    <3>1. d \notin Writers
      BY <2>1, <1>5 DEF Memory, Writers, Dos
    <3>2. cells' = cells
      BY <3>1, <1>3
    <3> HIDE DEF p, d
    <3> QED BY <2>1, <3>2, <1>2, <1>4, MemoryQuiet
  <2>2. CASE d = "norm"
    <3>1. HeadHolds'
      BY <2>2, <1>4, HeadNorm
    <3>2. kernel = "normrope"
      <4> HIDE DEF p, d
      <4> QED BY <2>2, <1>1, <1>2, Kinds
    <3> QED BY <3>1, <3>2, <1>4 DEF SplitHolds, AnswerHolds
  <2>3. CASE d = "rope"
    <3>1. HeadHolds'
      BY <2>3, <1>4, HeadRope
    <3>2. kernel = "normrope"
      <4> HIDE DEF p, d
      <4> QED BY <2>3, <1>1, <1>2, Kinds
    <3> QED BY <3>1, <3>2, <1>4 DEF SplitHolds, AnswerHolds
  <2>4. CASE d = "weights"
    <3>1. SplitHolds'
      BY <2>4, <1>4, SplitWeights
    <3>2. kernel = "split"
      <4> HIDE DEF p, d
      <4> QED BY <2>4, <1>1, <1>2, Kinds
    <3> QED BY <3>1, <3>2, <1>4 DEF HeadHolds, AnswerHolds
  <2>5. CASE d = "combine"
    <3>1. SplitHolds'
      BY <2>5, <1>4, SplitCombine
    <3>2. kernel = "split"
      <4> HIDE DEF p, d
      <4> QED BY <2>5, <1>1, <1>2, Kinds
    <3> QED BY <3>1, <3>2, <1>4 DEF HeadHolds, AnswerHolds
  <2>6. CASE d = "answer"
    <3>1. AnswerHolds'
      BY <2>6, <1>4, Answers
    <3>2. kernel \in {"argmax", "partials"}
      <4> HIDE DEF p, d
      <4> QED BY <2>6, <1>1, <1>2, Kinds
    <3> QED BY <3>1, <3>2, <1>4 DEF HeadHolds, SplitHolds
  <2>7. d # "mean"
    BY <1>2 DEF Writers
  <2> QED BY <2>1, <2>2, <2>3, <2>4, <2>5, <2>6, <2>7 DEF Memory
<1>9. TypesAre'
  <2>1. shared' = [t \in Tids |-> shared'[t]]
    BY <1>3 DEF TypesAre
  <2>2. reg' = [t \in Tids |-> reg'[t]]
    BY <1>2 DEF TypesAre
  <2>3. cells' = [i \in 0..(Elements + Threads - 1) |-> cells'[i]]
    <3>1. CASE d \in Writers
      BY <3>1, Stored
    <3>2. CASE d \notin Writers
      BY <3>2, <1>3 DEF TypesAre
    <3> QED BY <3>1, <3>2
  <2> QED BY <2>1, <2>2, <2>3, <1>4, StayTyped
<1> QED BY <1>6, <1>7, <1>8, <1>9

\* The strengthening is an invariant: every entry and every cell has the value
\* that its place in the program gives it.  A split attention of more parts than
\* a warp has lanes is excluded, for there the kernel races.
THEOREM BlockInductive ==
  ASSUME MaxSplits <= WarpSize
  PROVE  BlockSpec => []Inductive
<1>1. ASSUME BlockInit PROVE Inductive
  BY <1>1, Started
<1>2. ASSUME Inductive, [BlockNext]_blockVars PROVE Inductive'
  <2>1. CASE UNCHANGED blockVars
    <3>1. UNCHANGED <<kernel, input, extra, shared, reg, cells, at>>
      BY <2>1 DEF blockVars
    <3>2. /\ Code' = Code /\ Launched' = Launched /\ Top' = Top
          /\ \A tree : Runs(tree)' = Runs(tree) /\ Spoilt(tree)' = Spoilt(tree)
          /\ \A tree, T : Whole(tree, T)' = Whole(tree, T)
      BY <3>1, Same
    <3>3. TypesAre' = TypesAre /\ Together' = Together
      BY <3>1, <3>2 DEF TypesAre, Together
    <3>4. LevelsHold' = LevelsHold
      BY <3>1, <3>2 DEF LevelsHold, Holds
    <3>5. HeadHolds' = HeadHolds
      BY <3>1, <3>2 DEF HeadHolds, Turned, RopeOf, NormOf, RopeOwner, NormOwner
    <3>6. SplitHolds' = SplitHolds /\ AnswerHolds' = AnswerHolds
      BY <3>1, <3>2 DEF SplitHolds, AnswerHolds
    <3> QED BY <1>2, <3>1, <3>3, <3>4, <3>5, <3>6 DEF Inductive, Good
  <2>2. CASE BlockNext
    <3>1. PICK w \in Warps : Barrier(w) \/ Fold(w) \/ Keep(w) \/ Compute(w)
      BY <2>2 DEF BlockNext
    <3>2. kernel' = kernel
      BY <3>1 DEF Barrier, Fold, Keep, Compute
    <3>3. SUFFICES ASSUME kernel \in {"argmax", "partials", "normrope", "split"}
                   PROVE  Good'
      BY <3>2 DEF Inductive, Good
    <3>4. Good
      BY <1>2, <3>3 DEF Inductive, Good
    <3> QED BY <3>1, <3>4, BarrierKeeps, FoldKeeps, KeepKeeps, ComputeKeeps
  <2> QED BY <1>2, <2>1, <2>2
<1> QED BY <1>1, <1>2, PTL DEF BlockSpec

-----------------------------------------------------------------------------
(* What the last state holds is what the CPU computes.                     *)

\* When the block is done every warp has passed every instruction.
LEMMA AllPassed ==
  ASSUME TypesAre, Done
  PROVE  /\ \A v \in Warps : at[v] \in Int /\ at[v] > Len(Code) /\ at[v] > AnswerAt
         /\ AnswerAt \in Int /\ Len(Code) \in Int
<1>1. /\ Len(Code) \in Nat /\ AnswerAt <= Len(Code) /\ AnswerAt \in Int
  BY Numbered DEF TypesAre
<1>2. \A v \in Warps : at[v] > Len(Code) /\ at[v] \in Int
  BY <1>1 DEF Done, TypesAre
<1> QED BY <1>1, <1>2

LEMMA HeadAsOnCpu ==
  ASSUME Good, Done, kernel = "normrope", NEW i \in Items
  PROVE  cells[i] = CpuNormRope[i]
<1> DEFINE n == SumOf({<<"squares", Original(j)>> : j \in Items})
           h == [j \in Items |-> <<"normed", Original(j), n>>]
<1>1. TypesAre /\ HeadHolds /\ Launched
  BY DEF Good, TypesAre
<1>2. /\ i \in Nat /\ extra \in Nat /\ 2 * extra <= Elements /\ Elements \in Nat
      /\ WarpOf(NormOwner(i)) \in Warps
      /\ i < 2 * extra => WarpOf(RopeOwner(i)) \in Warps
  BY <1>1, OwnersAre
<1>3. Items = 0..(Elements - 1)
  BY <1>1, InputsAre
<1>4. \A v \in Warps : at[v] \in Int /\ at[v] > AnswerAt /\ at[v] > AnswerAt + 2
                       /\ ~(at[v] <= AnswerAt)
  <2> TAKE v \in Warps
  <2>1. at[v] \in Int /\ at[v] > Len(Code) /\ at[v] > AnswerAt /\ AnswerAt \in Int
    BY <1>1, AllPassed
  <2>2. Len(Code) = AnswerAt + 2
    BY <1>1, Numbered
  <2> QED BY <2>1, <2>2
<1>5. Turned(i) <=> i < 2 * extra
  BY <1>2, <1>4 DEF Turned
<1>6. cells[i] = IF i < 2 * extra THEN RopeOf(i) ELSE NormOf(i)
  BY <1>1, <1>2, <1>4, <1>5 DEF HeadHolds
<1>7. Share(Tids, Elements) = Items
  BY <1>2, <1>3, Shares
<1>8. n = Whole("normrope", Tids)
  BY <1>7 DEF Whole
<1>9. CpuNormRope = [j \in Items |->
        IF j < extra THEN <<"low", j, h[j], h[j + extra]>>
        ELSE IF j < 2 * extra THEN <<"high", j, h[j - extra], h[j]>> ELSE h[j]]
  BY DEF CpuNormRope
<1> HIDE DEF n
<1>10. \A j \in Items : h[j] = NormOf(j)
  BY <1>8 DEF NormOf
<1> HIDE DEF h
<1>11. CpuNormRope[i] = IF i < extra THEN <<"low", i, h[i], h[i + extra]>>
         ELSE IF i < 2 * extra THEN <<"high", i, h[i - extra], h[i]>> ELSE h[i]
  BY <1>9
<1>12. CASE i < extra
  <2>1. i + extra \in Items /\ i < 2 * extra
    BY <1>2, <1>3, <1>12
  <2> QED BY <2>1, <1>6, <1>10, <1>11, <1>12 DEF RopeOf
<1>13. CASE ~(i < extra) /\ i < 2 * extra
  <2>1. i - extra \in Items
    BY <1>2, <1>3, <1>13
  <2> QED BY <2>1, <1>6, <1>10, <1>11, <1>13 DEF RopeOf
<1>14. CASE ~(i < 2 * extra)
  <2>1. ~(i < extra)
    BY <1>2, <1>14
  <2> QED BY <2>1, <1>6, <1>10, <1>11, <1>14
<1> QED BY <1>12, <1>13, <1>14

LEMMA SplitAsOnCpu ==
  ASSUME Good, Done, kernel = "split", NEW t \in Tids
  PROVE  cells[Elements + t] = CpuSplit
<1>1. TypesAre /\ SplitHolds /\ Launched
  BY DEF Good, TypesAre
<1>2. WarpOf(t) \in Warps
  BY WarpIs
<1>3. at[WarpOf(t)] > Len(Code)
  BY <1>1, <1>2, AllPassed
<1>4. cells[Elements + t] = Mixed
  BY <1>1, <1>3 DEF SplitHolds, Mixed
<1>5. extra \in Nat
  <2>1. extra \in 1..Elements
    BY <1>1, InputsAre
  <2> QED BY <2>1
<1>6. Share(Tids, extra) = 0..(extra - 1)
  BY <1>5, Shares
<1> DEFINE P == 0..(extra - 1)
           W == [s \in P |-> Exp(input[s], Largest({input[r] : r \in P}))]
<1>7. CpuSplit = <<"combined", W, SumOf({<<"part", s, W[s]>> : s \in P})>>
  BY DEF CpuSplit
<1>8. W = [s \in P |-> Exp(input[s], Top)]
  BY DEF Top
<1> HIDE DEF W
<1>9. {<<"part", s, W[s]>> : s \in P} = {<<"part", s, Exp(input[s], Top)>> : s \in P}
  BY <1>8
<1>10. Whole("splitsum", Tids) = SumOf({<<"part", s, Exp(input[s], Top)>> : s \in P})
  BY <1>6 DEF Whole
<1> QED BY <1>4, <1>7, <1>8, <1>9, <1>10 DEF Mixed

\* what a greedy kernel chooses from, and the winner
Rivals == Items \ {extra}
Pair(i) == <<input[i], i>>
Wins(i) == i \in Rivals /\ \A j \in Rivals : Pair(i) = Pair(j) \/ Better(Pair(i), Pair(j))

LEMMA RivalsAre ==
  ASSUME Launched, NEW i \in Rivals
  PROVE  /\ i \in Items /\ i # extra /\ i \in Nat /\ i < Elements /\ Pair(i) \in Pairs
         /\ Found(Pair(i)) = i /\ input[i] \in Int /\ input[i] >= NegInf
         /\ ~Better(<<NegInf, NoIdx>>, Pair(i)) /\ Pair(i) # <<NegInf, NoIdx>>
<1>1. /\ Items = 0..(Elements - 1) /\ Elements \in Nat /\ Elements < NoIdx /\ NoIdx = 1000
      /\ \A j \in Items : input[j] \in Int /\ input[j] >= NegInf
  BY InputsAre
<1>2. i \in Items /\ i # extra
  BY DEF Rivals
<1>3. i \in Nat /\ i < Elements /\ i < NoIdx /\ i \in 0..NoIdx /\ i # NoIdx
  BY <1>1, <1>2
<1>4. input[i] \in Int /\ input[i] >= NegInf
  BY <1>1, <1>2
<1>5. Pair(i) \in Pairs
  BY <1>3, <1>4 DEF Pair, Pairs
<1>6. Found(Pair(i)) = i
  BY <1>3 DEF Found, Pair
<1>7. Pair(i) # <<NegInf, NoIdx>>
  BY <1>3 DEF Pair
<1>8. ~Better(<<NegInf, NoIdx>>, Pair(i))
  BY <1>5, Order
<1> QED BY <1>2, <1>3, <1>4, <1>5, <1>6, <1>7, <1>8

LEMMA Winner ==
  ASSUME Launched, kernel \in {"argmax", "partials"}
  PROVE  Wins(CpuArgmax)
<1> DEFINE f == [i \in 0..(Elements - 1) |-> Pair(i)]
           Beats(i, j) == input[j] < input[i] \/ (input[j] = input[i] /\ i <= j)
<1>1. /\ Items = 0..(Elements - 1) /\ Elements \in Nat /\ 2 <= Elements
      /\ Elements < NoIdx /\ NoIdx = 1000
      /\ \A j \in Items : input[j] \in Int /\ input[j] >= NegInf
  BY InputsAre
<1>2. f \in [0..(Elements - 1) -> Pairs]
  <2>1. ASSUME NEW i \in 0..(Elements - 1) PROVE Pair(i) \in Pairs
    <3>1. input[i] \in Int /\ input[i] >= NegInf /\ i \in 0..NoIdx /\ i \in Int
      BY <1>1
    <3> QED BY <3>1 DEF Pair, Pairs
  <2> QED BY <2>1
<1>3. Rivals \in SUBSET (0..(Elements - 1)) /\ Rivals # {}
  <2>1. 0 \in Items /\ 1 \in Items
    BY <1>1
  <2>2. 0 # extra \/ 1 # extra
    OBVIOUS
  <2> QED BY <2>1, <2>2, <1>1 DEF Rivals
<1>4. \E m \in Rivals : \A j \in Rivals : f[m] = f[j] \/ Better(f[m], f[j])
  <2> HIDE DEF f
  <2> QED BY <1>1, <1>2, <1>3, HasBest
<1>5. ASSUME NEW i \in Rivals, NEW j \in Rivals
      PROVE  Beats(i, j) <=> (Pair(i) = Pair(j) \/ Better(Pair(i), Pair(j)))
  <2>1. /\ i \in Nat /\ j \in Nat /\ input[i] \in Int /\ input[j] \in Int
    BY RivalsAre
  <2>2. Pair(i) = Pair(j) <=> i = j
    BY DEF Pair
  <2>3. Better(Pair(i), Pair(j)) <=>
          (input[i] > input[j] \/ (input[i] = input[j] /\ i < j))
    BY DEF Better, Pair
  <2> QED BY <2>1, <2>2, <2>3
<1>6. \E i \in Rivals : \A j \in Rivals : Beats(i, j)
  <2>1. PICK m \in Rivals : \A j \in Rivals : f[m] = f[j] \/ Better(f[m], f[j])
    BY <1>4
  <2>2. \A j \in Rivals : f[j] = Pair(j)
    BY <1>3
  <2> HIDE DEF f
  <2>3. \A j \in Rivals : Pair(m) = Pair(j) \/ Better(Pair(m), Pair(j))
    BY <2>1, <2>2
  <2> HIDE DEF Beats
  <2> QED BY <2>3, <1>5
<1>7. CpuArgmax = CHOOSE i \in Rivals : \A j \in Rivals : Beats(i, j)
  BY DEF CpuArgmax, Rivals
<1> HIDE DEF Beats
<1>8. CpuArgmax \in Rivals /\ \A j \in Rivals : Beats(CpuArgmax, j)
  BY <1>6, <1>7
<1> QED BY <1>5, <1>8 DEF Wins

LEMMA ArgmaxFound ==
  ASSUME Launched, kernel = "argmax"
  PROVE  Found(Whole(kernel, Tids)) = CpuArgmax
<1> DEFINE i == CpuArgmax
           S == {Pair(j) : j \in Rivals}
<1>1. Wins(i)
  BY Winner
<1> HIDE DEF i
<1>2. Items = 0..(Elements - 1) /\ Elements \in Nat
  BY InputsAre
<1>3. Share(Tids, Elements) = Items
  BY <1>2, Shares
<1>4. Whole(kernel, Tids) = BestPair(S)
  BY <1>3 DEF Whole, Pair, Rivals
<1>5. S \subseteq Pairs
  BY RivalsAre
<1>6. IsBest(Pair(i), S)
  BY <1>1 DEF IsBest, Wins
<1>7. BestPair(S) = Pair(i)
  <2> HIDE DEF S
  <2> QED BY <1>5, <1>6, BestUnique
<1>8. Found(Pair(i)) = i
  BY <1>1, RivalsAre DEF Wins
<1> QED BY <1>4, <1>7, <1>8 DEF i

\* What the first stage has of a block: its best row, or nothing.
LEMMA PartOf ==
  ASSUME Launched, NEW b \in 0..(Parts - 1)
  PROVE  \/ \E j \in Rivals :
              /\ BlockPart(b) = Pair(j) /\ j \div RowsPerBlock = b
              /\ \A k \in Rivals : k \div RowsPerBlock = b =>
                   Pair(j) = Pair(k) \/ Better(Pair(j), Pair(k))
         \/ /\ BlockPart(b) = <<NegInf, 0>>
            /\ \A k \in Rivals : k \div RowsPerBlock # b
<1> DEFINE R == RowsPerBlock
           E == {EntryOf(b, wr) : wr \in 0..(R - 1)}
           best == BestPair(E)
<1>1. BlockPart(b) = <<best[1], Found(best)>> /\ best \in Pairs /\ IsBest(best, E)
  BY PartIs
<1>2. R \in Nat /\ R >= 2 /\ b \in Nat
      /\ \A i \in Items : /\ i \div R \in 0..(Parts - 1) /\ i % R \in 0..(R - 1)
                          /\ i = (i \div R) * R + (i % R)
  BY Rows
<1>3. Items = 0..(Elements - 1) /\ Elements \in Nat
  BY InputsAre
<1>4. ASSUME NEW k \in Rivals, k \div R = b PROVE Pair(k) \in E
  <2>1. k \in Items /\ k \in Nat /\ k < Elements /\ k # extra
    BY RivalsAre
  <2>2. k % R \in 0..(R - 1) /\ k = b * R + (k % R)
    BY <2>1, <1>2, <1>4
  <2> DEFINE wr == k % R
  <2>3. wr \in 0..(R - 1) /\ k = b * R + wr
    BY <2>2
  <2> HIDE DEF wr, R
  <2>4. EntryOf(b, wr) = Pair(k)
    BY <2>1, <2>3 DEF EntryOf, Pair, R
  <2> QED BY <2>3, <2>4
<1>5. ASSUME NEW wr \in 0..(R - 1), EntryOf(b, wr) # <<NegInf, NoIdx>>
      PROVE  \E j \in Rivals : EntryOf(b, wr) = Pair(j) /\ j \div R = b
  <2> DEFINE row == b * R + wr
  <2>1. row < Elements /\ row # extra /\ EntryOf(b, wr) = Pair(row)
    BY <1>5 DEF EntryOf, Pair
  <2>2. row \in Nat /\ row = R * b + wr
    <3> HIDE DEF R
    <3> QED BY <1>2
  <2>3. row \in Rivals
    <3> HIDE DEF row
    <3> QED BY <2>1, <2>2, <1>3 DEF Rivals
  <2>4. row \div R = b
    <3>1. R \in Nat \ {0}
      BY <1>2
    <3> HIDE DEF row, R
    <3> QED BY <3>1, <2>2, <1>2, Division
  <2> QED BY <2>1, <2>3, <2>4
<1>6. CASE best = <<NegInf, NoIdx>>
  <2>1. BlockPart(b) = <<NegInf, 0>>
    BY <1>1, <1>6 DEF Found
  <2>2. ASSUME NEW k \in Rivals, k \div R = b PROVE FALSE
    <3>1. Pair(k) \in E
      BY <1>4, <2>2
    <3>2. best = Pair(k) \/ Better(best, Pair(k))
      BY <3>1, <1>1 DEF IsBest
    <3> HIDE DEF best
    <3> QED BY <3>2, <1>6, RivalsAre
  <2> QED BY <2>1, <2>2
<1>7. CASE best # <<NegInf, NoIdx>>
  <2>1. best \in E
    BY <1>1 DEF IsBest
  <2>2. PICK wr \in 0..(R - 1) : best = EntryOf(b, wr)
    BY <2>1
  <2>3. PICK j \in Rivals : best = Pair(j) /\ j \div R = b
    BY <2>2, <1>5, <1>7
  <2> HIDE DEF best
  <2>4. BlockPart(b) = Pair(j)
    <3>1. Found(Pair(j)) = j /\ Pair(j)[1] = input[j]
      BY RivalsAre DEF Pair
    <3> QED BY <3>1, <2>3, <1>1 DEF Pair
  <2>5. \A k \in Rivals : k \div R = b => Pair(j) = Pair(k) \/ Better(Pair(j), Pair(k))
    BY <2>3, <1>1, <1>4 DEF IsBest
  <2> QED BY <2>3, <2>4, <2>5
<1> QED BY <1>6, <1>7

\* A block whose only row is the excluded one reports id 0: it cannot win, id 0
\* is then a row of its own that is no worse.
LEMMA PartialsFound ==
  ASSUME Launched, kernel = "partials"
  PROVE  Found(Whole(kernel, Tids)) = CpuArgmax
<1> DEFINE i == CpuArgmax
           S == {BlockPart(b) : b \in 0..(Parts - 1)}
           R == RowsPerBlock
<1>1. Wins(i)
  BY Winner
<1> HIDE DEF i
<1>2. i \in Rivals /\ \A j \in Rivals : Pair(i) = Pair(j) \/ Better(Pair(i), Pair(j))
  BY <1>1 DEF Wins
<1>3. Parts \in Nat /\ R \in Nat /\ R >= 2
      /\ \A k \in Items : k \div R \in 0..(Parts - 1)
      /\ \A b \in 0..(Parts - 1) : b * R \in Items
  BY Rows
<1>4. Whole(kernel, Tids) = BestPair(S)
  <2>1. Share(Tids, Parts) = 0..(Parts - 1)
    BY <1>3, Shares
  <2> QED BY <2>1 DEF Whole
<1>5. S \subseteq Pairs
  BY PartIs
<1>6. Pair(i) \in S
  <2> DEFINE b == i \div R
  <2>1. b \in 0..(Parts - 1)
    BY <1>2, <1>3, RivalsAre
  <2>2. i \div R = b
    OBVIOUS
  <2> HIDE DEF b, R
  <2>3. PICK j \in Rivals :
          /\ BlockPart(b) = Pair(j) /\ j \div RowsPerBlock = b
          /\ \A k \in Rivals : k \div RowsPerBlock = b =>
               Pair(j) = Pair(k) \/ Better(Pair(j), Pair(k))
    BY <2>1, <2>2, <1>2, PartOf DEF R
  <2>4. Pair(j) = Pair(i) \/ Better(Pair(j), Pair(i))
    BY <2>2, <2>3, <1>2 DEF R
  <2>5. Pair(i) = Pair(j) \/ Better(Pair(i), Pair(j))
    BY <1>2
  <2>6. Pair(i) \in Pairs /\ Pair(j) \in Pairs
    BY <1>2, RivalsAre
  <2>7. Pair(i) = Pair(j)
    BY <2>4, <2>5, <2>6, Order
  <2> QED BY <2>1, <2>3, <2>7
<1>7. /\ Items = 0..(Elements - 1) /\ Elements \in Nat /\ 2 <= Elements
      /\ NegInf \in Int
  BY InputsAre, BlocksAssumption
<1>8. ASSUME NEW b \in 0..(Parts - 1), BlockPart(b) = <<NegInf, 0>>,
             \A k \in Rivals : k \div RowsPerBlock # b
      PROVE  Pair(i) = BlockPart(b) \/ Better(Pair(i), BlockPart(b))
  <2>1. extra # 0
    <3>1. SUFFICES ASSUME extra = 0 PROVE FALSE
      OBVIOUS
    <3>2. 1 \in Rivals /\ 1 \in Nat
      BY <3>1, <1>7 DEF Rivals
    <3>3. R \in Nat \ {0}
      BY <1>3
    <3>4. b * R \in Items
      BY Rows, Zenon
    <3>5. b \in Nat
      BY <1>3
    <3>6. CASE b = 0
      <4> HIDE DEF R
      <4>1. 1 = R * 0 + 1 /\ 0 \in Nat /\ 1 \in 0..(R - 1)
        BY <1>3
      <4>2. 1 \div R = 0
        BY <4>1, <3>3, Division
      <4> QED BY <3>2, <3>6, <4>2, <1>8 DEF R
    <3>7. CASE b # 0
      <4> DEFINE k == b * R
      <4> HIDE DEF R
      <4>1. k # 0 /\ k \in Nat /\ k = R * b + 0 /\ 0 \in 0..(R - 1)
        BY <3>5, <3>7, <1>3
      <4>2. k \div R = b
        <5> HIDE DEF k
        <5> QED BY <4>1, <3>3, <3>5, Division
      <4>3. k \in Rivals
        BY <3>1, <3>4, <4>1 DEF Rivals
      <4> HIDE DEF k
      <4> QED BY <4>2, <4>3, <1>8 DEF R
    <3> QED BY <3>6, <3>7
  <2>2. 0 \in Rivals
    BY <2>1, <1>7 DEF Rivals
  <2>3. /\ input[i] \in Int /\ input[i] >= NegInf /\ i \in Nat
        /\ input[0] \in Int /\ input[0] >= NegInf
    BY <2>2, <1>2, RivalsAre
  <2>4. <<input[i], i>> = <<input[0], 0>>
        \/ input[i] > input[0] \/ (input[i] = input[0] /\ i < 0)
    BY <2>2, <1>2 DEF Pair, Better
  <2>5. i = 0 \/ input[i] > input[0]
    BY <2>3, <2>4
  <2>6. CASE input[i] > NegInf
    BY <2>6, <1>8 DEF Better, Pair
  <2>7. CASE ~(input[i] > NegInf)
    <3>1. input[i] = NegInf /\ i = 0
      BY <2>3, <2>5, <2>7, <1>7
    <3> QED BY <3>1, <1>8 DEF Pair
  <2> QED BY <2>6, <2>7
<1>9. ASSUME NEW b \in 0..(Parts - 1)
      PROVE  Pair(i) = BlockPart(b) \/ Better(Pair(i), BlockPart(b))
  <2>1. CASE \E j \in Rivals : BlockPart(b) = Pair(j)
    BY <2>1, <1>2
  <2>2. CASE ~\E j \in Rivals : BlockPart(b) = Pair(j)
    <3>1. BlockPart(b) = <<NegInf, 0>> /\ \A k \in Rivals : k \div RowsPerBlock # b
      BY <2>2, PartOf
    <3> QED BY <3>1, <1>8
  <2> QED BY <2>1, <2>2
<1>10. IsBest(Pair(i), S)
  BY <1>6, <1>9 DEF IsBest
<1>11. BestPair(S) = Pair(i)
  <2> HIDE DEF S
  <2> QED BY <1>5, <1>10, BestUnique
<1>12. Found(Pair(i)) = i
  BY <1>2, RivalsAre
<1> QED BY <1>4, <1>11, <1>12 DEF i

\* Whatever order the warps run in, a block that is done has computed what the
\* CPU computes (gpu_argmax_kernel, the fused argmax and head kernels, the
\* split attention).  For the split attention this is up to one warp of parts,
\* contexts of at most 8192 by default; beyond that it is false, not unproved:
\* attention_decode_heads128_split_reduce_kernel races (sf37_cuda.cu:2698, 2707).
THEOREM BlockCorrect ==
  ASSUME MaxSplits <= WarpSize
  PROVE  BlockSpec => []BlockAsOnCpu
<1>1. ASSUME Inductive PROVE BlockAsOnCpu
  <2>1. SUFFICES ASSUME Done,
                        kernel \in {"argmax", "partials", "normrope", "split"}
                 PROVE  BlockAsOnCpu
    BY DEF BlockAsOnCpu
  <2>2. Good /\ Launched
    BY <1>1, <2>1 DEF Inductive, Good, TypesAre
  <2>3. CASE kernel \in {"argmax", "partials"}
    <3>1. at[0] > AnswerAt
      <4>1. 0 \in Warps
        BY WarpIs
      <4> QED BY <4>1, <2>1, <2>2, AllPassed DEF Good
    <3>2. cells[Elements] = Found(Whole(kernel, Tids))
      BY <2>2, <2>3, <3>1 DEF Good, AnswerHolds
    <3>3. cells[Elements] = CpuArgmax
      BY <2>2, <2>3, <3>2, ArgmaxFound, PartialsFound
    <3> QED BY <2>3, <3>3 DEF BlockAsOnCpu
  <2>4. CASE kernel = "normrope"
    <3>1. \A i \in Items : cells[i] = CpuNormRope[i]
      BY <2>1, <2>2, <2>4, HeadAsOnCpu
    <3> QED BY <2>4, <3>1 DEF BlockAsOnCpu
  <2>5. CASE kernel = "split"
    <3>1. \A t \in Tids : cells[Elements + t] = CpuSplit
      BY <2>1, <2>2, <2>5, SplitAsOnCpu
    <3> QED BY <2>5, <3>1 DEF BlockAsOnCpu
  <2> QED BY <2>1, <2>3, <2>4, <2>5
<1> QED BY <1>1, BlockInductive, PTL
=============================================================================
