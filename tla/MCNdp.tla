------------------------------- MODULE MCNdp -------------------------------
(* NDP: a flow longer than its window and a short one that asks for a grant meet in front of a host. *)
EXTENDS Ndp, TLC

MCSize == (1 :> 3) @@ (2 :> 1)
=============================================================================
