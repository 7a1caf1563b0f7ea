------------------------------ MODULE MCCheckout ------------------------------
(* Small instances of Checkout for TLC. *)
EXTENDS Checkout, TLC

CONSTANTS r1, r2, r3, r4, ana, bia, header, promo, show, gala

OneEach == [c \in {1, 2} |-> 1]

\* r1 and r2 are two sends of one checkout of ana; r3 is a checkout of bia who
\* happens to use the same header.  All want both categories and the coupon.
DemandShared == [r \in {r1, r2, r3} |-> OneEach]
CouponShared == [r \in {r1, r2, r3} |-> promo]
UserShared == [r \in {r1, r2, r3} |-> IF r = r3 THEN bia ELSE ana]
KeyShared == [r \in {r1, r2, r3} |-> header]
EventShared == [c \in {1, 2} |-> show]
CouponEventShared == [k \in {promo} |-> show]

\* Category 2 sells out first, with category 1 already reserved.
CapacityTight == [c \in {1, 2} |-> IF c = 1 THEN 3 ELSE 1]

\* ana sends r1, gets no answer, changes the cart and sends r2 with a coupon under the
\* same key; bia wants what r1 wants, with the coupon.  Category 2 sells out first,
\* with category 1 already reserved, and the coupon has one use left.
DemandChanged ==
    [r \in {r1, r2, r3} |-> [c \in {1, 2, 3} |-> IF (r = r2) = (c = 3) THEN 1 ELSE 0]]
CouponChanged == [r \in {r1, r2, r3} |-> IF r = r1 THEN NoCoupon ELSE promo]
EventChanged == [c \in {1, 2, 3} |-> show]
CapacityChanged == [c \in {1, 2, 3} |-> IF c = 1 THEN 2 ELSE 1]

\* r1 and r2 use the coupon, r1 without a key, and there is stock for both; the coupon
\* of r3 is bound to another event, and r4 mixes two events.
DemandMixed ==
    (r1 :> [c \in {1, 2, 3} |-> IF c = 3 THEN 0 ELSE 1]) @@
    (r2 :> [c \in {1, 2, 3} |-> IF c = 2 THEN 2 ELSE 0]) @@
    (r3 :> [c \in {1, 2, 3} |-> IF c = 3 THEN 1 ELSE 0]) @@
    (r4 :> [c \in {1, 2, 3} |-> IF c = 1 THEN 0 ELSE 1])
CouponMixed == [r \in {r1, r2, r3, r4} |-> IF r = r4 THEN NoCoupon ELSE promo]
UserMixed == [r \in {r1, r2, r3, r4} |-> IF r = r3 THEN bia ELSE ana]
KeyMixed == [r \in {r1, r2, r3, r4} |-> IF r = r2 THEN header ELSE NoKey]
EventMixed == [c \in {1, 2, 3} |-> IF c = 3 THEN gala ELSE show]
CapacityMixed == [c \in {1, 2, 3} |-> IF c = 2 THEN 3 ELSE 1]

LimitOne == [k \in {promo} |-> 1]
LimitTwo == [k \in {promo} |-> 2]
=============================================================================
