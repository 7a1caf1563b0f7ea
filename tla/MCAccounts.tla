----------------------------- MODULE MCAccounts -----------------------------
(***************************************************************************)
(* Two ids that register with one address, and two users who apply with    *)
(* one document, of whom one applies with another one too.                 *)
(***************************************************************************)
EXTENDS Accounts, TLC

CONSTANTS w1, w2, u1, u2, u3, m1, m2, d1, d2

TheUsers == {u1, u2, u3}
TheEmailOf == u1 :> m1 @@ u2 :> m2 @@ u3 :> m1

On(op, user, about) == [op |-> op, user |-> user, about |-> about]

TheAsks ==
    {On("register", u1, NoDocument), On("register", u2, d1), On("register", u3, NoDocument),
     On("login", u1, NoDocument), On("submit", u1, d1), On("submit", u1, d2),
     On("approve", u1, NoDocument), On("approve", u2, NoDocument), On("reject", u1, NoDocument),
     On("order", u1, u2), On("deleteAccount", u1, NoDocument), On("deleteAccount", u2, NoDocument)}

WorkerSymmetry == Permutations({w1, w2})

=============================================================================
