---------------------------- MODULE MCModelCache ----------------------------
EXTENDS ModelCache

(* Three tensors, one of them longer than the staging buffers, and a       *)
(* preloaded span of two: together they exceed the budget.                 *)
McQ == [off |-> 0, len |-> 2]
McK == [off |-> 2, len |-> 3]
McNorm == [off |-> 5, len |-> 1]
McSpans == {[off |-> 0, len |-> 3], McK}
McOps == {<<McQ, McK>>, <<McK>>, <<McNorm>>}
McFusedOps == {<<McQ, McK>>, <<McNorm>>}
=============================================================================
