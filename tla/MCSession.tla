------------------------------ MODULE MCSession ------------------------------
(* What the device keeps from one call to the next: the rows of a session    *)
(* and the weight cache.  They share no state in the model; `part` says      *)
(* which of the two moves.                                                   *)
EXTENDS Session, MCModelCache, TLC

CONSTANTS Dawn, Dusk \* two versions of the pixels of one image

VARIABLE part

(* A conversation longer than the window and, with the smaller chunks, than  *)
(* the ring, which a reply takes past the larger one too; and an image of two *)
(* patches with text after it, in two versions of the pixels.  The smaller of *)
(* the contexts refuses the conversation and what was saved in the larger.   *)
McPrompts ==
  {[toks |-> <<"a", "b", "a", "b">>, img |-> NoImage],
   [toks |-> <<Patch, Patch, "b">>, img |-> Dawn],
   [toks |-> <<Patch, Patch, "b">>, img |-> Dusk]}
McTokens == {"a", "b", Patch}
McImages == {Dawn, Dusk}
McReplies == {"a"}
McSymmetry == Permutations(McImages)

McInit ==
  \/ part = "session" /\ SessionInit /\ Init
  \/ part = "weights" /\ SessionInit /\ conf.backend = "cuda" /\ Init

McNext ==
  /\ UNCHANGED part
  /\ \/ part = "session" /\ SessionNext /\ UNCHANGED modelCacheVars
     \/ part = "weights" /\ Next /\ UNCHANGED sessionVars

McSpec == McInit /\ [][McNext]_<<part, sessionVars, modelCacheVars>>

\* The variables of the other part keep their initial values.
McView == <<part, IF part = "session" THEN sessionVars ELSE modelCacheVars>>
=============================================================================
