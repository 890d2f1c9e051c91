------------------------------ MODULE MCForward ------------------------------
(* The forward pass, the pictures of a prompt, the routed experts, the       *)
(* thread blocks its reductions run in and the choice of a token.  They      *)
(* share no state in the model; `part` says which of them moves.             *)
EXTENDS Layer, Blocks, Sampling, RoutedMoe, MCVision

VARIABLE part

\* One dense full-attention layer and one sliding layer with experts.
McShape == <<[full |-> TRUE, dense |-> TRUE, heads |-> 2],
             [full |-> FALSE, dense |-> FALSE, heads |-> 4]>>
McNegInf == -1

\* A half for each unit of logit.
McFalloff == <<8, 4, 2, 1>>

\* Two lanes.
McOffsets == <<1>>

\* Ascending scores, ties within and across lanes, and a late best expert.
McScores == {[e \in 0..2 |-> e], [e \in 0..2 |-> IF e = 0 THEN 2 ELSE 1], [e \in 0..2 |-> 1]}

BlockIdle ==
  /\ BlockInit
  /\ kernel = "split" /\ extra = 1 /\ input = [i \in Items |-> 0]
SamplingIdle ==
  SamplingInit /\ with = [random |-> FALSE, k |-> 0, p |-> 0, m |-> 0]
MoeIdle == MoeInit /\ collecting = FALSE
VisionIdle == VisionInit /\ fromCli = FALSE

McInit ==
  /\ LayerInit
  /\ \/ part = "layer" /\ BlockIdle /\ SamplingIdle /\ MoeIdle /\ VisionIdle
     \/ part = "block" /\ BlockInit /\ SamplingIdle /\ MoeIdle /\ VisionIdle
     \/ part = "sampling" /\ BlockIdle /\ SamplingInit /\ MoeIdle /\ VisionIdle
     \/ part = "moe" /\ BlockIdle /\ SamplingIdle /\ MoeInit /\ VisionIdle
     \/ part = "vision" /\ BlockIdle /\ SamplingIdle /\ MoeIdle /\ VisionInit

McNext ==
  /\ UNCHANGED part
  /\ \/ /\ part = "layer" /\ LayerNext
        /\ UNCHANGED <<blockVars, samplingVars, moeVars, visionVars>>
     \/ /\ part = "block" /\ BlockNext
        /\ UNCHANGED <<layerVars, samplingVars, moeVars, visionVars>>
     \/ /\ part = "sampling" /\ SamplingNext
        /\ UNCHANGED <<layerVars, blockVars, moeVars, visionVars>>
     \/ /\ part = "moe" /\ MoeNext
        /\ UNCHANGED <<layerVars, blockVars, samplingVars, visionVars>>
     \/ /\ part = "vision" /\ VisionNext
        /\ UNCHANGED <<layerVars, blockVars, samplingVars, moeVars>>

McSpec == McInit /\ [][McNext]_<<part, layerVars, blockVars, samplingVars, moeVars,
                               visionVars>>

\* The variables of the other parts keep their initial values.
McView ==
  <<part, CASE part = "layer" -> layerVars
            [] part = "block" -> blockVars
            [] part = "sampling" -> samplingVars
            [] part = "moe" -> moeVars
            [] part = "vision" -> visionVars>>
=============================================================================
