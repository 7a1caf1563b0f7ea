------------------------------ MODULE BoxOffice ------------------------------
(***************************************************************************)
(* What POST /order promises, with no statement, lock or rollback in sight *)
(* (docs/ARCHITECTURE.md, "Purchase flow" and "Idempotent checkout"):  an  *)
(* order is taken whole, in one step, from stock that covers every item of *)
(* it, at most once for an idempotency key of a user, consuming one use of *)
(* its coupon; or nothing at all changes.                                  *)
(***************************************************************************)
EXTENDS Integers

CONSTANTS
    Requests,      \* calls of POST /order; an order is named by the call that made it
    Categories,    \* ticket categories: numbers, in the order of their ids
    Coupons,       \* coupon rows
    Demand,        \* Demand[r][c]: tickets of category c that request r asks for
    CouponOf,      \* CouponOf[r]: the coupon whose code r carries, or NoCoupon
    UserOf,        \* UserOf[r]: the authenticated user who sends r
    KeyOf,         \* KeyOf[r]: the Idempotency-Key header of r, or NoKey
    Capacity,      \* Capacity[c]: the stock of category c before any sale
    NoCoupon, NoKey

VARIABLES
    stock,         \* Category.quantity
    uses,          \* Coupon.currentUses
    orders         \* the committed orders

vars == <<stock, uses, orders>>

\* The orders that already own the [userId, idempotencyKey] pair of r.
SameKey(r) ==
    {s \in orders : /\ KeyOf[r] # NoKey
                    /\ KeyOf[s] = KeyOf[r]
                    /\ UserOf[s] = UserOf[r]}

Init ==
    /\ stock = Capacity
    /\ uses = [k \in Coupons |-> 0]
    /\ orders = {}

Accept(r) ==
    /\ r \notin orders
    /\ SameKey(r) = {}
    /\ \A c \in Categories : stock[c] >= Demand[r][c]
    /\ stock' = [c \in Categories |-> stock[c] - Demand[r][c]]
    /\ uses' = [k \in Coupons |-> IF CouponOf[r] = k THEN uses[k] + 1 ELSE uses[k]]
    /\ orders' = orders \cup {r}

Next == \E r \in Requests : Accept(r)

Spec == Init /\ [][Next]_vars

=============================================================================
