------------------------------ MODULE RoutedMoe ------------------------------
(***************************************************************************)
(* The routed mixture of experts of one layer on the CUDA backend: the     *)
(* router, the kernels that sort (token, slot) pairs by expert with atomic *)
(* counters, the tiles of pairs that share an expert's weights, the atomic *)
(* or slot-wise sum, the row-by-row fallbacks, and the importance matrix   *)
(* collected from the buffers they leave behind.                           *)
(*                                                                         *)
(* Kernels of one stream run one after the other, the blocks of a kernel   *)
(* in any order.  A vector is known by what it was computed from: the      *)
(* middle activation of a pair by the expert, the token and the weight, an *)
(* output row by the bag of the contributions added to it.  Buffers start  *)
(* with what an earlier layer left in them.                                *)
(***************************************************************************)
EXTENDS Integers, Sequences, FiniteSets, Bags, SequencesExt, FiniteSetsExt

CONSTANTS
  NumExperts,   \* SF37_EXPERTS, 288
  TopK,         \* SF37_EXPERT_USED, 8
  TileM,        \* tile_m, 8
  Offsets,      \* the distances of a warp's shuffles: 16, 8, 4, 2, 1
  TokenCounts,  \* the n_tok of a chunk
  ScoreVectors  \* router scores a token may have, each Experts -> Int

ASSUME RoutedMoeAssumption ==
  /\ NumExperts \in Nat \ {0}
  /\ TopK \in 1..NumExperts
  /\ TileM \in Nat \ {0}
  /\ Offsets \in Seq(Nat \ {0}) /\ Offsets # <<>> /\ Offsets[Len(Offsets)] = 1
  /\ \A i \in 1..(Len(Offsets) - 1) : Offsets[i] = 2 * Offsets[i + 1]
  /\ TokenCounts \subseteq Nat \ {0} /\ IsFiniteSet(TokenCounts)
  /\ ScoreVectors \subseteq [0..(NumExperts - 1) -> Int]

VARIABLES
  moeStage,   \* where the layer is
  collecting, \* whether an imatrix collector is attached
  path,       \* how the batch is computed
  ntok,
  score,      \* router scores by token
  selected,   \* router_selected, by pair
  counts, offsets, cursors, sortedPairs, tiles,  \* the scratch of the sort
  moeTodo,       \* the blocks or threads of the running kernel that did not run
  mid,        \* mid_pair
  routedMid,  \* p->routed_mid
  down,       \* down_pair
  out,        \* p->routed_out, by token
  stats       \* gate_up_sum2 and down_sum2 of the layer, by expert

moeVars == <<moeStage, collecting, path, ntok, score, selected, counts, offsets,
             cursors, sortedPairs, tiles, moeTodo, mid, routedMid, down, out, stats>>
sortVars == <<counts, offsets, cursors, sortedPairs, tiles>>

MoeExperts == 0..(NumExperts - 1)
MaxTokens == Max(TokenCounts)
PairsOf(n) == 0..(n * TopK - 1)
Pairs == PairsOf(ntok)
TokenOf(p) == p \div TopK
SlotOf(p) == p % TopK
NoPath == [kind |-> "none", direct |-> FALSE]

StaleMid == [expert |-> -1, tok |-> -1, weight |-> -1]
StalePart == [down |-> -1, of |-> StaleMid]

-----------------------------------------------------------------------------
(* The routers.                                                            *)

(* One step of sf37_topk_desc and of router_select_sf37_kernel: the expert *)
(* goes before the first one with a lower score.                           *)
Place(sc, best, e) ==
  LET at == {j \in 1..Min({TopK, Len(best) + 1}) :
               j = Len(best) + 1 \/ sc[e] > sc[best[j]]}
      inserted == InsertAt(best, Min(at), e)
  IN IF at = {} THEN best
     ELSE SubSeq(inserted, 1, Min({TopK, Len(inserted)}))

ScanSelect(sc) ==
  LET best[n \in 0..NumExperts] ==
        IF n = 0 THEN <<>> ELSE Place(sc, best[n - 1], n - 1)
  IN best[NumExperts]

(* router_score_better_sf37; -1 is a lane without a candidate *)
Outscores(sc, a, b) ==
  a # -1 /\ (b = -1 \/ sc[a] > sc[b] \/ (sc[a] = sc[b] /\ a < b))

WarpWidth == 2 * Offsets[1]
LaneBest(sc, used, lane) ==
  LET own == {e \in MoeExperts \ used : e % WarpWidth = lane}
  IN IF own = {} THEN -1
     ELSE CHOOSE e \in own : \A f \in own \ {e} : Outscores(sc, e, f)

(* The __shfl_down_sync tree: after it lane 0 has the best of all lanes. *)
WarpBest(sc, used) ==
  LET lanes == 0..(WarpWidth - 1)
      reduced[k \in 0..Len(Offsets)] ==
        IF k = 0 THEN [lane \in lanes |-> LaneBest(sc, used, lane)]
        ELSE [lane \in lanes |->
                LET from == lane + Offsets[k]
                    mine == reduced[k - 1][lane]
                    other == IF from \in lanes THEN reduced[k - 1][from] ELSE mine
                IN IF Outscores(sc, other, mine) THEN other ELSE mine]
  IN reduced[Len(Offsets)][0]

(* router_select_sf37_warp_topk_kernel and its batch form *)
WarpSelect(sc) ==
  LET best[n \in 0..TopK] ==
        IF n = 0 THEN <<>> ELSE Append(best[n - 1], WarpBest(sc, ToSet(best[n - 1])))
  IN best[TopK]

Routers == {"scan", "warp"}
Select(router, sc) == IF router = "warp" THEN WarpSelect(sc) ELSE ScanSelect(sc)

-----------------------------------------------------------------------------
(* What the CPU computes: layer_moe_ffn adds, for each selected expert, its *)
(* down projection of the activation of its gate and up projections scaled  *)
(* by its own weight.                                                       *)
CpuMid(e, t) == [expert |-> e, tok |-> t, weight |-> e]

CpuRouted(t) ==
  SetToBag({[down |-> e, of |-> CpuMid(e, t)] : e \in ToSet(ScanSelect(score[t]))})

-----------------------------------------------------------------------------
(* What the device buffers hold when a layer starts: something older. *)
OldScratch ==
  [counts |-> [e \in MoeExperts |-> -1], offsets |-> [e \in 0..NumExperts |-> -1],
   sortedPairs |-> [p \in PairsOf(MaxTokens) |-> -1]]
OldMids == [p \in PairsOf(MaxTokens) |-> StaleMid]
OldParts == [p \in PairsOf(MaxTokens) |-> StalePart]
OldRows == [t \in 0..(MaxTokens - 1) |-> SetToBag({StalePart})]
NoStats == [e \in MoeExperts |-> [up |-> EmptyBag, down |-> EmptyBag]]

MoeInit ==
  /\ moeStage = "idle" /\ collecting \in BOOLEAN /\ path = NoPath
  /\ ntok = 0 /\ score = <<>> /\ selected = <<>>
  /\ counts = OldScratch.counts /\ cursors = OldScratch.counts
  /\ offsets = OldScratch.offsets /\ sortedPairs = OldScratch.sortedPairs
  /\ tiles = <<>> /\ moeTodo = {}
  /\ mid = OldMids /\ routedMid = OldMids /\ down = OldParts /\ out = OldRows
  /\ stats = NoStats

(* sf37_cuda_router_select_batch_mapped: one warp per token or, without the *)
(* warp kernel, one thread; the caller's environment decides.               *)
Route ==
  /\ moeStage = "idle"
  /\ \E n \in TokenCounts, router \in Routers :
       \E sc \in [0..(n - 1) -> ScoreVectors] :
         /\ ntok' = n
         /\ score' = sc
         /\ selected' = [p \in PairsOf(n) |->
                           Select(router, sc[TokenOf(p)])[SlotOf(p) + 1]]
  /\ moeStage' = "routed"
  /\ UNCHANGED <<collecting, path, sortVars, moeTodo, mid, routedMid, down, out, stats>>

(* routed_mid holds the pairs of one token, or of a whole chunk when the    *)
(* imatrix made it grow (cuda_prefill_ensure_routed_mid_pairs).             *)
RoutedMidRows == IF collecting THEN MaxTokens ELSE 1

(* The batch path needs two tokens, sorted pairs enabled and its scratch;   *)
(* without any of them rows are computed one at a time, and so are they     *)
(* under SF37_CUDA_NO_BATCH_MOE, through the decode buffers.                *)
ChooseSorted ==
  /\ moeStage = "routed"
  /\ ntok > 1
  /\ \E kind \in {"tiles", "sorted"}, direct \in BOOLEAN :
       path' = [kind |-> kind, direct |-> direct]
  /\ counts' = [e \in MoeExperts |-> 0]
  /\ moeTodo' = Pairs
  /\ moeStage' = "count"
  /\ UNCHANGED <<collecting, ntok, score, selected, offsets, cursors, sortedPairs, tiles,
                 mid, routedMid, down, out, stats>>

ChooseRows ==
  /\ moeStage = "routed"
  /\ \E kind \in {"rows", "single"} : path' = [kind |-> kind, direct |-> TRUE]
  /\ moeTodo' = 0..(ntok - 1)
  /\ moeStage' = "rows"
  /\ UNCHANGED <<collecting, ntok, score, selected, sortVars, mid, routedMid, down,
                 out, stats>>

-----------------------------------------------------------------------------
(* The counting sort.                                                      *)

(* moe_count_sorted_pairs_sf37_kernel, one thread *)
CountPair ==
  /\ moeStage = "count"
  /\ \E p \in moeTodo :
       /\ counts' = [counts EXCEPT ![selected[p]] = @ + 1]
       /\ moeTodo' = moeTodo \ {p}
  /\ UNCHANGED <<moeStage, collecting, path, ntok, score, selected, offsets, cursors,
                 sortedPairs, tiles, mid, routedMid, down, out, stats>>

(* moe_prefix_sorted_pairs_sf37_kernel *)
CountBefore(e) ==
  LET sum[n \in 0..NumExperts] == IF n = 0 THEN 0 ELSE sum[n - 1] + counts[n - 1]
  IN sum[e]

PrefixPairs ==
  /\ moeStage = "count" /\ moeTodo = {}
  /\ offsets' = [e \in 0..NumExperts |-> CountBefore(e)]
  /\ cursors' = [e \in MoeExperts |-> CountBefore(e)]
  /\ moeTodo' = Pairs
  /\ moeStage' = "scatter"
  /\ UNCHANGED <<collecting, path, ntok, score, selected, counts, sortedPairs, tiles,
                 mid, routedMid, down, out, stats>>

(* moe_scatter_sorted_pairs_sf37_kernel, one thread: the order of the      *)
(* threads decides the order of the pairs of an expert.                    *)
ScatterPair ==
  /\ moeStage = "scatter"
  /\ \E p \in moeTodo :
       LET e == selected[p]
       IN /\ cursors' = [cursors EXCEPT ![e] = @ + 1]
          /\ sortedPairs' = [sortedPairs EXCEPT ![cursors[e]] = p]
          /\ moeTodo' = moeTodo \ {p}
  /\ UNCHANGED <<moeStage, collecting, path, ntok, score, selected, counts, offsets,
                 tiles, mid, routedMid, down, out, stats>>

(* Tiles of at most TileM pairs of one expert: the two moe_build_expert_tile *)
(* kernels.                                                                  *)
TilesOfWhole(e) == counts[e] \div TileM   \* mutant: a partial tile is lost
TilesOf(e) == (counts[e] + TileM - 1) \div TileM
TileList ==
  LET list[n \in 0..NumExperts] ==
        IF n = 0 THEN <<>>
        ELSE list[n - 1] \o [k \in 1..TilesOf(n - 1) |->
                               [expert |-> n - 1, start |-> (k - 1) * TileM]]
  IN list[NumExperts]

(* The grid is launched for tile_capacity blocks; those past tile_total     *)
(* return at once.                                                          *)
TileCapacity == ((Cardinality(Pairs) + TileM - 1) \div TileM) + NumExperts

Blocks(list) ==
  IF path.kind = "tiles" THEN {b \in 0..(TileCapacity - 1) : b < Len(list)} ELSE Pairs

BuildTiles ==
  /\ moeStage = "scatter" /\ moeTodo = {}
  /\ tiles' = IF path.kind = "tiles" THEN TileList ELSE tiles
  /\ moeTodo' = Blocks(tiles')
  /\ moeStage' = "gate_up"
  /\ UNCHANGED <<collecting, path, ntok, score, selected, counts, offsets, cursors,
                 sortedPairs, mid, routedMid, down, out, stats>>

-----------------------------------------------------------------------------
(* The experts.                                                            *)

(* The pairs of a block, and the expert whose weights it reads. *)
BlockPairs(b) ==
  IF path.kind = "tiles"
  THEN LET tile == tiles[b + 1]
           rest == counts[tile.expert] - tile.start
       IN {sortedPairs[offsets[tile.expert] + tile.start + i] : i \in 0..(Min({TileM, rest}) - 1)}
  ELSE {sortedPairs[b]}

BlockExpert(b, p) ==
  IF path.kind = "tiles" THEN tiles[b + 1].expert ELSE selected[p]

(* moe_gate_up_mid_q3_asym_q8k_expert_tile8_kernel / _sorted_kernel *)
GateUp ==
  /\ moeStage = "gate_up"
  /\ \E b \in moeTodo :
       /\ mid' = [p \in DOMAIN mid |->
                    IF p \in BlockPairs(b)
                    THEN [expert |-> BlockExpert(b, p), tok |-> TokenOf(p),
                          weight |-> selected[p]]
                    ELSE mid[p]]
       /\ moeTodo' = moeTodo \ {b}
  /\ UNCHANGED <<moeStage, collecting, path, ntok, score, selected, sortVars,
                 routedMid, down, out, stats>>

(* The batch copies its activations to routed_mid when that is large        *)
(* enough, and clears the output when the blocks will add to it.            *)
ExportAndClear ==
  /\ moeStage = "gate_up" /\ moeTodo = {}
  /\ routedMid' = IF RoutedMidRows >= ntok
                  THEN [p \in DOMAIN routedMid |-> IF p \in Pairs THEN mid[p] ELSE routedMid[p]]
                  ELSE routedMid
  /\ out' = IF path.direct
            THEN [t \in DOMAIN out |-> IF t < ntok THEN EmptyBag ELSE out[t]]
            ELSE out
  /\ moeTodo' = Blocks(tiles)
  /\ moeStage' = "down"
  /\ UNCHANGED <<collecting, path, ntok, score, selected, sortVars, mid, down, stats>>

(* moe_down_q2_asym_q8k_expert_tile8_kernel / _sorted_kernel: atomicAdd into *)
(* the token's row, or one row per pair.                                     *)
Down ==
  /\ moeStage = "down"
  /\ \E b \in moeTodo :
       LET part(p) == [down |-> BlockExpert(b, p), of |-> mid[p]]
       IN /\ IF path.direct
             THEN /\ out' = [t \in DOMAIN out |->
                               LET own == {p \in BlockPairs(b) : TokenOf(p) = t}
                               IN IF own = {} THEN out[t]
                                  ELSE out[t] (+) SetToBag({part(p) : p \in own})]
                  /\ UNCHANGED down
             ELSE /\ down' = [p \in DOMAIN down |->
                                IF p \in BlockPairs(b) THEN part(p) ELSE down[p]]
                  /\ UNCHANGED out
          /\ moeTodo' = moeTodo \ {b}
  /\ UNCHANGED <<moeStage, collecting, path, ntok, score, selected, sortVars, mid,
                 routedMid, stats>>

SlotSum(t, rows) ==
  LET sum[n \in 0..TopK] ==
        IF n = 0 THEN EmptyBag ELSE sum[n - 1] (+) SetToBag({rows[t * TopK + n - 1]})
  IN sum[TopK]

(* moe_sum_pairs_kernel, unless the blocks have added already *)
SumPairs ==
  /\ moeStage = "down" /\ moeTodo = {}
  /\ out' = IF path.direct THEN out
            ELSE [t \in DOMAIN out |->
                    IF t < ntok THEN SlotSum(t, down) ELSE out[t]]
  /\ moeStage' = "summed"
  /\ UNCHANGED <<collecting, path, ntok, score, selected, sortVars, moeTodo, mid,
                 routedMid, down, stats>>

(* sf37_cuda_routed_moe_one_mapped: the kernels index the whole tensors or, *)
(* with the selected-expert cache, the slices of the chosen experts copied  *)
(* side by side, slot by slot.                                              *)
ExpertOfRow(cached, p) ==
  LET slices == [slot \in 0..(TopK - 1) |-> selected[TokenOf(p) * TopK + slot]]
  IN IF cached THEN slices[SlotOf(p)] ELSE selected[p]

RowMid(cached, p) ==
  [expert |-> ExpertOfRow(cached, p), tok |-> TokenOf(p), weight |-> selected[p]]
RowSum(cached, t) ==
  SlotSum(t, [p \in Pairs |-> [down |-> ExpertOfRow(cached, p), of |-> RowMid(cached, p)]])

(* One row of the fallbacks, in token order.  The batch fallback gives each *)
(* row its own part of routed_mid when that is large enough and the first   *)
(* part otherwise; the single fallback copies d->mid there only for the     *)
(* imatrix.                                                                 *)
MidRowShared(t) == 0   \* mutant: every row uses the first part
MidRow(t) == IF RoutedMidRows >= ntok THEN t ELSE 0

ComputeRow ==
  /\ moeStage = "rows" /\ moeTodo # {}
  /\ \E cached \in BOOLEAN :
       LET t == Min(moeTodo)
           keep == path.kind = "rows" \/ (collecting /\ RoutedMidRows >= ntok)
           first == MidRow(t) * TopK
       IN /\ out' = [out EXCEPT ![t] = RowSum(cached, t)]
          /\ routedMid' =
               [p \in DOMAIN routedMid |->
                  IF keep /\ p \in first..(first + TopK - 1)
                  THEN RowMid(cached, t * TopK + (p - first)) ELSE routedMid[p]]
          /\ moeTodo' = moeTodo \ {t}
  /\ UNCHANGED <<moeStage, collecting, path, ntok, score, selected, sortVars, mid,
                 down, stats>>

RowsDone ==
  /\ moeStage = "rows" /\ moeTodo = {}
  /\ moeStage' = "summed"
  /\ UNCHANGED <<collecting, path, ntok, score, selected, sortVars, moeTodo, mid,
                 routedMid, down, out, stats>>

-----------------------------------------------------------------------------
(* imatrix_collect_layer_batch: each row is added to the sums of the       *)
(* experts it was routed to.                                               *)
Added(bag, e, rows) ==
  LET sum[n \in 0..(ntok * TopK)] ==
        IF n = 0 THEN bag
        ELSE IF selected[n - 1] = e THEN sum[n - 1] (+) SetToBag({rows[n - 1]})
        ELSE sum[n - 1]
  IN sum[ntok * TopK]

Collect ==
  /\ moeStage = "summed"
  /\ stats' = IF ~collecting THEN stats
              ELSE [e \in MoeExperts |->
                [up |-> Added(stats[e].up, e, [p \in Pairs |-> TokenOf(p)]),
                 down |-> Added(stats[e].down, e, routedMid)]]
  /\ moeStage' = "added"
  /\ UNCHANGED <<collecting, path, ntok, score, selected, sortVars, moeTodo, mid,
                 routedMid, down, out>>

(* The residual is added and the next layer finds the buffers as they are, *)
(* here as old contents; its sums are its own.                             *)
NextLayer ==
  /\ moeStage \in {"added", "failed"}
  /\ moeStage' = "idle" /\ path' = NoPath
  /\ ntok' = 0 /\ score' = <<>> /\ selected' = <<>>
  /\ counts' = OldScratch.counts /\ cursors' = OldScratch.counts
  /\ offsets' = OldScratch.offsets /\ sortedPairs' = OldScratch.sortedPairs
  /\ tiles' = <<>> /\ moeTodo' = {}
  /\ mid' = OldMids /\ routedMid' = OldMids /\ down' = OldParts /\ out' = OldRows
  /\ stats' = NoStats
  /\ UNCHANGED collecting

(* An allocation, a copy or a launch fails: the layer fails. *)
LayerFails ==
  /\ moeStage \notin {"idle", "added", "failed"}
  /\ moeStage' = "failed"
  /\ UNCHANGED <<collecting, path, ntok, score, selected, sortVars, moeTodo, mid,
                 routedMid, down, out, stats>>

MoeNext ==
  \/ Route \/ ChooseSorted \/ ChooseRows
  \/ CountPair \/ PrefixPairs \/ ScatterPair \/ BuildTiles
  \/ GateUp \/ ExportAndClear \/ Down \/ SumPairs
  \/ ComputeRow \/ RowsDone \/ Collect \/ NextLayer \/ LayerFails

MoeSpec == MoeInit /\ [][MoeNext]_moeVars

-----------------------------------------------------------------------------
(* On every path the routed output of every token is the CPU's: the same    *)
(* experts, each once, with its own weight, whatever order the threads ran  *)
(* in and whatever the buffers held before.                                 *)
RoutedAsOnCpu ==
  moeStage \in {"summed", "added"} => \A t \in 0..(ntok - 1) : out[t] = CpuRouted(t)

(* The importance matrix gets, for every expert, exactly the rows that were *)
(* routed to it and the activations of these rows in that expert.           *)
ImatrixExact ==
  moeStage = "added" /\ collecting =>
    \A e \in MoeExperts :
      LET rows == {t \in 0..(ntok - 1) : e \in ToSet(ScanSelect(score[t]))}
      IN /\ stats[e].up = SetToBag(rows)
         /\ stats[e].down = SetToBag({CpuMid(e, t) : t \in rows})
=============================================================================
