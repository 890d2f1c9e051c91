------------------------------ MODULE MCServer ------------------------------
(***************************************************************************)
(* Small instances of Server: three connections whose threads compete for  *)
(* gen_mu while signals arrive.  No symmetry: the run checks liveness.     *)
(***************************************************************************)
EXTENDS Server

CONSTANTS c1, c2, c3

MCConns == {c1, c2, c3}
=============================================================================
