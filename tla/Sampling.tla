------------------------------ MODULE Sampling ------------------------------
(* The choice of the next token from the logits.  Probabilities are parts   *)
(* of Scale, a draw of the generator is one of Draws, and a weight is       *)
(* exact: Falloff is expf(-d / temperature) for the gaps d = 0, 1, ... to   *)
(* the largest logit, in some unit; past its end the weight underflows.     *)
EXTENDS Integers, Sequences, FiniteSets

CONSTANTS
  Vocab,             \* number of tokens
  Logits,            \* the finite logits
  TopKs, TopPs, MinPs,   \* what a request asks for, the last two in parts of Scale
  Falloff,           \* the weights by gap
  Scale, Draws

\* min_p is at most 1: request_normalize_generation, parse_float_range.
ASSUME SamplingAssumption ==
  /\ Vocab \in Nat \ {0} /\ Logits \subseteq Nat
  /\ TopKs \subseteq Int /\ TopPs \subseteq Int
  /\ MinPs \subseteq Int /\ \A m \in MinPs : m <= Scale
  /\ Falloff \in Seq(Nat) /\ Falloff # <<>> /\ Falloff[1] > 0
  /\ Scale \in Nat \ {0} /\ Draws \in Nat \ {0}

VARIABLES
  with,     \* the request: temperature above zero or not, top_k, top_p, min_p
  logits,   \* the row to sample from, <<>> before it is computed
  sorted    \* the order qsort gave the candidates; ties come in any order

samplingVars == <<with, logits, sorted>>

Ids == 0..(Vocab - 1)
Nan == -2
MinusInf == -1
PlusInf == -3
Finite(i) == logits[i] \notin {Nan, MinusInf, PlusInf}
NoneFinite == \A i \in Ids : ~Finite(i)
Above(a, b) == a # Nan /\ b \notin {Nan, PlusInf} /\ (a = PlusInf \/ a > b)

\* the first largest; a NaN in front hides everything behind it
Argmax ==
  LET best[n \in 1..Vocab] ==
        IF n = 1 THEN 0
        ELSE IF Above(logits[n - 1], logits[best[n - 1]]) THEN n - 1
        ELSE best[n - 1]
  IN best[Vocab]

MaxTopK == 1024
Least2(a, b) == IF a <= b THEN a ELSE b
Top == Least2(Least2(with.k, MaxTopK), Vocab)
TopP == IF with.p <= 0 \/ with.p > Scale THEN Scale ELSE with.p
MinP == IF with.m < 0 THEN 0 ELSE with.m

MaxLogit == CHOOSE v \in {logits[i] : i \in {j \in Ids : Finite(j)}} :
              \A j \in Ids : Finite(j) => logits[j] <= v
FirstBest == CHOOSE i \in Ids : /\ Finite(i) /\ logits[i] = MaxLogit
                                /\ \A j \in 0..(i - 1) : logits[j] # MaxLogit
Weight(i) ==
  LET d == MaxLogit - logits[i] IN IF d < Len(Falloff) THEN Falloff[d + 1] ELSE 0

\* the sum of the weights of a set, counted unit by unit
Mass(S) == Cardinality(UNION {{i} \X (1..Weight(i)) : i \in S})
Upto(list, n) == Mass({list[j] : j \in 1..n})
Total(list) == Upto(list, Len(list))

(***************************************************************************)
(* The candidates of each path.                                            *)
(***************************************************************************)

\* insertion into the list of the k best; on a tie the earlier id stays ahead
Inserted(list, i) ==
  LET room == Least2(Len(list) + 1, Top)
      place == CHOOSE p \in 1..room :
                 /\ p = 1 \/ logits[list[p - 1]] >= logits[i]
                 /\ \A j \in p..Len(list) : logits[list[j]] < logits[i]
  IN IF ~Finite(i) \/ (Len(list) = Top /\ logits[i] <= logits[list[Top]])
     THEN list
     ELSE [j \in 1..room |-> IF j < place THEN list[j]
                             ELSE IF j = place THEN i ELSE list[j - 1]]
Topmost ==
  LET top[n \in 0..Vocab] ==
        IF n = 0 THEN <<>> ELSE Inserted(top[n - 1], n - 1)
  IN top[Vocab]

\* in the order of the ids, with the weight relative to the largest
Stays(i) == Finite(i) /\ Weight(i) * Scale >= MinP * Falloff[1]
Wide ==
  LET wide[n \in 0..Vocab] ==
        IF n = 0 THEN <<>>
        ELSE IF Stays(n - 1) THEN Append(wide[n - 1], n - 1) ELSE wide[n - 1]
  IN wide[Vocab]

\* the prefix of a sorted list that min_p and top_p leave
CutLate(list) ==
  LET Ends(n) ==
        \/ n = Len(list)
        \/ Weight(list[n + 1]) * Scale < MinP * Weight(list[1])
        \/ Upto(list, n) * Scale > TopP * Total(list)
  IN SubSeq(list, 1, CHOOSE n \in 1..Len(list) :
                       Ends(n) /\ \A k \in 1..(n - 1) : ~Ends(k))
Ends(list, n) ==
  \/ n = Len(list)
  \/ Weight(list[n + 1]) * Scale < MinP * Weight(list[1])
  \/ Upto(list, n) * Scale >= TopP * Total(list)
Cut(list) ==
  SubSeq(list, 1, CHOOSE n \in 1..Len(list) :
                    Ends(list, n) /\ \A k \in 1..(n - 1) : ~Ends(list, k))

\* r = rng * sum; the first candidate whose weight takes r to zero
Spent(list, draw, n) == Upto(list, n) * Draws >= draw * Total(list)
Taken(list, draw, fallback) ==
  LET hit == {n \in 1..Len(list) : Spent(list, draw, n)} IN
  IF hit = {} THEN fallback
  ELSE list[CHOOSE n \in hit : \A k \in hit : n <= k]

\* sample_full_vocab without a cut, with the sorted list, the k best
Sorts == with.random /\ with.k <= 0 /\ TopP # Scale /\ ~NoneFinite
Kept == IF Sorts THEN Cut(sorted) ELSE IF with.k <= 0 THEN Wide ELSE Cut(Topmost)
Token(draw) ==
  IF ~with.random \/ NoneFinite THEN Argmax
  ELSE Taken(Kept, draw,
             IF with.k <= 0 /\ TopP = Scale THEN FirstBest ELSE Kept[Len(Kept)])

(***************************************************************************)
(* A request, then the logits of one of its tokens.                        *)
(***************************************************************************)

SamplingInit ==
  /\ with \in [random : BOOLEAN, k : TopKs, p : TopPs, m : MinPs]
  /\ logits = <<>> /\ sorted = <<>>

Orders ==
  LET ids == {i \in Ids : Finite(i)} IN
  {s \in [1..Cardinality(ids) -> ids] :
     /\ \A i \in ids : \E a \in DOMAIN s : s[a] = i
     /\ \A a, b \in DOMAIN s : a < b => s[a] # s[b] /\ logits[s[a]] >= logits[s[b]]}

LogitRow ==
  /\ logits = <<>>
  /\ logits' \in [Ids -> Logits \cup {Nan, MinusInf, PlusInf}]
  /\ UNCHANGED <<with, sorted>>

Sort ==
  /\ logits # <<>> /\ sorted = <<>> /\ Sorts
  /\ sorted' \in Orders
  /\ UNCHANGED <<with, logits>>

SamplingNext == LogitRow \/ Sort
SamplingSpec == SamplingInit /\ [][SamplingNext]_samplingVars

Ready == logits # <<>> /\ (Sorts => sorted # <<>>)

(***************************************************************************)
(* What the request promises.                                              *)
(***************************************************************************)

\* the k best ids, an equal logit counting for the smaller id; 1024 at most
Precedes(j, i) ==
  Finite(j) /\ (logits[j] > logits[i] \/ (logits[j] = logits[i] /\ j < i))
Considered ==
  {i \in Ids : /\ Finite(i)
               /\ with.k > 0 => Cardinality({j \in Ids : Precedes(j, i)})
                                  < Least2(with.k, MaxTopK)}

Nucleus ==
  {i \in Considered :
     /\ Weight(i) * Scale >= MinP * Falloff[1]
     /\ \/ TopP = Scale
        \/ Mass({j \in Considered : logits[j] > logits[i]}) * Scale
             < TopP * Mass(Considered)}

Greedy == {i \in Ids : logits[i] # Nan /\ \A j \in Ids : ~Above(logits[j], logits[i])}

\* Whatever number the generator draws, the token is one the settings of the
\* request leave: among the k best, with at least min_p of the best one's
\* weight, and with less than top_p of the mass before it; at temperature
\* zero it is a largest logit (unless a NaN is in front of all the logits).
SampledInNucleus ==
  Ready => \A draw \in 0..(Draws - 1) :
    Token(draw) \in
      IF NoneFinite THEN Ids
      ELSE IF with.random THEN Nucleus
      ELSE IF logits[0] = Nan THEN {0} ELSE Greedy

\* Over all the numbers the generator can draw, each token comes as often as
\* its share of the weight that is left, to within one draw.
SharesMatchWeights ==
  Ready /\ with.random /\ ~NoneFinite =>
    LET left == {Kept[j] : j \in 1..Len(Kept)}
        sum == Mass(left)
        given == [d \in 0..(Draws - 1) |-> Token(d)]
    IN \A i \in left :
         LET n == Cardinality({d \in 0..(Draws - 1) : given[d] = i})
             gap == n * sum - Weight(i) * Draws
         IN -sum <= gap /\ gap <= sum

\* Both together: what a request is given is sampled from the nucleus its
\* settings describe, and as often as the weights say (sample_ex, sample).
SampledAsWeighed == SampledInNucleus /\ SharesMatchWeights
=============================================================================
