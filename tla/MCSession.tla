------------------------------ MODULE MCSession ------------------------------
(* Two tabs of one browser that a buyer and an administrator use in turn. *)
EXTENDS Session, TLC

CONSTANTS t1, t2, ana, adm

TheFirstRole == ana :> "BUYER" @@ adm :> "ADMIN"

TabSymmetry == Permutations({t1, t2})
=============================================================================
