-------------------------------- MODULE Blocks --------------------------------
(* One thread block of the kernels that reduce through shared memory: the    *)
(* threads of a warp step together, the warps do not, and __syncthreads is   *)
(* the only order between them.  A kernel is the list of what a warp does    *)
(* between two points at which another warp can get in between.  A number is *)
(* opaque: the name of an operation and of its operands, a sum the bag of    *)
(* its terms; only what is compared (a logit, the maximum of a part) is an   *)
(* integer.                                                                  *)
EXTENDS Integers, Sequences, Bags

CONSTANTS
  Threads, WarpSize,      \* threads of the block, of a warp
  Kernels,                \* the kernels to run
  Elements,               \* elements of the input of one block
  Values, NegInf,         \* what an element can be; NegInf is below them
  MaxSplits               \* bound: parts of a split attention.  The code has
                          \* none of its own below 65535; see BlockAsOnCpu

Power == <<1, 2, 4, 8, 16, 32, 64, 128, 256, 512, 1024>>
NoIdx == 1000                                     \* INT32_MAX

\* A block has 64 to 1024 threads, a power of two, in warps of 32.
ASSUME BlocksAssumption ==
  /\ \E k \in 2..11 : Threads = Power[k]
  /\ WarpSize \in 1..(Threads - 1) /\ Threads % WarpSize = 0
  /\ Elements \in 2..(NoIdx - 1) /\ MaxSplits \in 0..Elements
  /\ Values \subseteq Int /\ NegInf \in Int /\ \A v \in Values : NegInf < v

VARIABLES
  kernel, input, extra,   \* what was launched, on what, with which argument
  shared,                 \* the shared array, one entry a thread
  reg,                    \* each thread's copy of the mean or the maximum
  cells,                  \* the global memory the block reads and writes
  at                      \* for each warp, its next instruction

blockVars == <<kernel, input, extra, shared, reg, cells, at>>

Tids == 0..(Threads - 1)
WarpOf(t) == t \div WarpSize
Warps == {WarpOf(t) : t \in Tids}
Lanes(w) == {t \in Tids : WarpOf(t) = w}
Items == 0..(Elements - 1)

\* the elements thread t loops over, with stride blockDim.x
Mine(t, count) == {i \in 0..(count - 1) : i % Threads = t}

Original(i) == <<"element", i>>
SumOf(terms) == <<"sum", SetToBag(terms)>>
Plus(a, b) == <<"sum", a[2] (+) b[2]>>
Exp(v, max) == <<"exp", v, max>>

Largest(values) ==
  <<"max", IF values = {} THEN NegInf
           ELSE CHOOSE v \in values : \A u \in values : u <= v>>

\* (value, index) order of the argmax kernels: a tie goes to the smaller id
Better(a, b) == a[1] > b[1] \/ (a[1] = b[1] /\ a[2] < b[2])
BestPair(S) == IF S = {} THEN <<NegInf, NoIdx>>
               ELSE CHOOSE a \in S : \A b \in S : a = b \/ Better(a, b)
Found(pair) == IF pair[2] = NoIdx THEN 0 ELSE pair[2]

\* stage one of the fused argmax: a row to a warp, the block's best row
RowsPerBlock == Threads \div WarpSize
BlockPart(b) ==
  LET Entry(wr) ==
        LET row == b * RowsPerBlock + wr IN
        IF row < Elements /\ row # extra THEN <<input[row], row>>
        ELSE <<NegInf, NoIdx>>
      best == BestPair({Entry(wr) : wr \in 0..(RowsPerBlock - 1)})
  IN <<best[1], Found(best)>>
Parts == (Elements + RowsPerBlock - 1) \div RowsPerBlock

(***************************************************************************)
(* What one lane does in an instruction: its entry of the shared array,    *)
(* its register, the global cells it writes.                               *)
(***************************************************************************)

Shared(do, t) ==
  CASE do \in {"sum", "squares"} ->
         SumOf({<<do, cells[i]>> : i \in Mine(t, Elements)})
    [] do = "var" ->
         SumOf({<<"var", cells[i], reg[t]>> : i \in Mine(t, Elements)})
    [] do = "scan" ->
         BestPair({<<input[i], i>> : i \in Mine(t, Elements) \ {extra}})
    [] do = "scanparts" -> BestPair({BlockPart(b) : b \in Mine(t, Parts)})
    [] do = "greatest" -> Largest({cells[s] : s \in Mine(t, extra)})
    [] do = "weights" ->
         SumOf({<<"part", s, Exp(cells[s], reg[t])>> : s \in Mine(t, extra)})

\* one level of the reduction tree
Combined(op, a, b) ==
  CASE op = "add" -> Plus(a, b)
    [] op = "max" -> IF b[2] > a[2] THEN b ELSE a
    [] op = "best" -> IF Better(b, a) THEN b ELSE a
Folded(op, t, stride) == Combined(op, shared[t], shared[t + stride])

Normed(t) == [i \in Mine(t, Elements) |-> <<"normed", cells[i], shared[0]>>]
Rotated(t) ==
  [i \in {p + k * extra : p \in Mine(t, extra), k \in {0, 1}} |->
     IF i < extra THEN <<"low", i, cells[i], cells[i + extra]>>
     ELSE <<"high", i, cells[i - extra], cells[i]>>]

Written(do, t) ==
  CASE do = "scaled" ->
         [i \in Mine(t, Elements) |-> <<"scaled", cells[i], reg[t], shared[0]>>]
    [] do = "norm" -> Normed(t)
    [] do = "rope" -> Rotated(t)
    [] do = "weights" -> [s \in Mine(t, extra) |-> Exp(cells[s], reg[t])]
    [] do = "combine" ->
         [i \in {Elements + t} |->
            <<"combined", [s \in 0..(extra - 1) |-> cells[s]], shared[0]>>]
    [] do = "answer" ->
         [i \in (IF t = 0 THEN {Elements} ELSE {}) |-> Found(shared[0])]

(***************************************************************************)
(* The kernels.                                                            *)
(***************************************************************************)

I(do) == [do |-> do, stride |-> 0]
Bar == I("barrier")

Levels == CHOOSE k \in 1..10 : Power[k + 1] = Threads

\* for (stride = n / 2; stride > 0; stride >>= 1) { fold; __syncthreads(); }
Tree(op) ==
  [i \in 1..(2 * Levels) |->
     IF i % 2 = 0 THEN Bar
     ELSE [do |-> op, stride |-> Power[Levels + 1 - ((i + 1) \div 2)]]]

ArgmaxCode == <<I("scan"), Bar>> \o Tree("best") \o <<I("answer")>>
PartialsCode == <<I("scanparts"), Bar>> \o Tree("best") \o <<I("answer")>>
NormRopeCodeUnordered ==
  <<I("squares"), Bar>> \o Tree("add") \o <<I("norm"), I("rope")>>
NormRopeCode ==
  <<I("squares"), Bar>> \o Tree("add") \o <<I("norm"), Bar, I("rope")>>
LayerNormCode ==
  <<I("sum"), Bar>> \o Tree("add") \o <<I("mean"), I("var"), Bar>>
    \o Tree("add") \o <<I("scaled")>>
SplitCode ==
  <<I("greatest"), Bar>> \o Tree("max") \o <<I("mean"), I("weights"), Bar>>
    \o Tree("add") \o <<I("combine")>>

Code ==
  CASE kernel = "argmax" -> ArgmaxCode
    [] kernel = "partials" -> PartialsCode
    [] kernel = "normrope" -> NormRopeCode
    [] kernel = "layernorm" -> LayerNormCode
    [] kernel = "split" -> SplitCode

(***************************************************************************)
(* The block.                                                              *)
(***************************************************************************)

Arguments(k) ==
  CASE k \in {"argmax", "partials"} -> -1..(Elements - 1)
    [] k = "normrope" -> 1..(Elements \div 2)
    [] k = "layernorm" -> {0}
    [] k = "split" -> 1..MaxSplits

Inputs(k) ==
  IF k \in {"argmax", "partials"} THEN [Items -> Values \cup {NegInf}]
  ELSE [Items -> Values]

BlockInit ==
  /\ kernel \in Kernels
  /\ input \in Inputs(kernel)
  /\ extra \in Arguments(kernel)
  /\ shared = [t \in Tids |-> 0] /\ reg = [t \in Tids |-> 0]
  /\ cells = [i \in 0..(Elements + Threads - 1) |->
                IF i >= Elements THEN 0
                ELSE IF kernel = "split" THEN input[i] ELSE Original(i)]
  /\ at = [w \in Warps |-> 1]

Reached(w) == Code[at[w]]
Advance(w) == at' = [at EXCEPT ![w] = @ + 1]

\* __syncthreads: no warp leaves before every warp has come
Barrier(w) ==
  /\ at[w] <= Len(Code) /\ Reached(w).do = "barrier"
  /\ \A v \in Warps : at[v] >= at[w]
  /\ Advance(w)
  /\ UNCHANGED <<kernel, input, extra, shared, reg, cells>>

Fold(w) ==
  /\ at[w] <= Len(Code) /\ Reached(w).do \in {"add", "max", "best"}
  /\ shared' = [t \in Tids |->
                  IF t \in Lanes(w) /\ t < Reached(w).stride
                  THEN Folded(Reached(w).do, t, Reached(w).stride)
                  ELSE shared[t]]
  /\ Advance(w)
  /\ UNCHANGED <<kernel, input, extra, reg, cells>>

\* every thread takes entry 0 into a register
Keep(w) ==
  /\ at[w] <= Len(Code) /\ Reached(w).do = "mean"
  /\ reg' = [t \in Tids |-> IF t \in Lanes(w) THEN shared[0] ELSE reg[t]]
  /\ Advance(w)
  /\ UNCHANGED <<kernel, input, extra, shared, cells>>

Compute(w) ==
  LET do == Reached(w).do
      sets == {"sum", "squares", "var", "scan", "scanparts", "greatest",
               "weights"}
      writes == {"scaled", "norm", "rope", "weights", "combine", "answer"}
  IN /\ at[w] <= Len(Code) /\ do \in sets \cup writes
     /\ shared' = IF do \notin sets THEN shared
                  ELSE [t \in Tids |-> IF t \in Lanes(w) THEN Shared(do, t)
                                       ELSE shared[t]]
     /\ cells' = IF do \notin writes THEN cells
                 ELSE [i \in DOMAIN cells |->
                   LET by == {t \in Lanes(w) : i \in DOMAIN Written(do, t)} IN
                   IF by = {} THEN cells[i]
                   ELSE Written(do, CHOOSE t \in by : TRUE)[i]]
     /\ Advance(w)
     /\ UNCHANGED <<kernel, input, extra, reg>>

BlockNext ==
  \E w \in Warps : Barrier(w) \/ Fold(w) \/ Keep(w) \/ Compute(w)

BlockSpec == BlockInit /\ [][BlockNext]_blockVars

(***************************************************************************)
(* What the CPU computes.                                                  *)
(***************************************************************************)

Done == \A w \in Warps : at[w] > Len(Code)

\* the first index, other than the excluded one, of a largest logit
CpuArgmax ==
  CHOOSE i \in Items \ {extra} : \A j \in Items \ {extra} :
    input[j] < input[i] \/ (input[j] = input[i] /\ i <= j)

CpuNormRope ==
  LET n == SumOf({<<"squares", Original(i)>> : i \in Items})
      h == [i \in Items |-> <<"normed", Original(i), n>>]
  IN [i \in Items |-> IF i < extra THEN <<"low", i, h[i], h[i + extra]>>
                      ELSE IF i < 2 * extra THEN <<"high", i, h[i - extra], h[i]>>
                      ELSE h[i]]

CpuLayerNorm ==
  LET s == SumOf({<<"sum", Original(i)>> : i \in Items})
      var == SumOf({<<"var", Original(i), s>> : i \in Items})
  IN [i \in Items |-> <<"scaled", Original(i), s, var>>]

CpuSplit ==
  LET parts == 0..(extra - 1)
      W == [s \in parts |-> Exp(input[s], Largest({input[r] : r \in parts}))]
  IN <<"combined", W, SumOf({<<"part", s, W[s]>> : s \in parts})>>

\* Whatever order the warps run in, the block ends with what the CPU computes:
\* the greedy kernels with the smallest id of a largest logit, the excluded
\* id left out, the fused kernel with each head normalised and then rotated,
\* the split attention with every part scaled by one common maximum.  The last
\* holds for MaxSplits <= WarpSize alone: up to 32 parts of 256 rows, a context
\* of 8192.  With more parts a second warp needs the maximum that the first sum
\* may already have replaced (sf37_cuda.cu:2698, 2707), see BlocksSplit.cfg.
BlockAsOnCpu ==
  Done =>
    CASE kernel \in {"argmax", "partials"} ->
           cells[Elements] = CpuArgmax
      [] kernel = "normrope" -> \A i \in Items : cells[i] = CpuNormRope[i]
      [] kernel = "split" ->
           \A t \in Tids : cells[Elements + t] = CpuSplit
      [] OTHER -> TRUE

\* src/tests/test_sf37_cuda_ops.cu:1550 compares every element the layer norm
\* wrote with the host's: assert_close(got[i], ref[i], 3e-5f, "cuda vision
\* layernorm").
LayerNormAsOnCpu ==
  Done /\ kernel = "layernorm" =>
    \A i \in Items : cells[i] = CpuLayerNorm[i]
=============================================================================
