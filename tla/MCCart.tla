-------------------------------- MODULE MCCart --------------------------------
(* Two tabs that share a cart. *)
EXTENDS Cart, TLC

CONSTANTS t1, t2

TabSymmetry == Permutations({t1, t2})
=============================================================================
