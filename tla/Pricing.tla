------------------------------- MODULE Pricing -------------------------------
(***************************************************************************)
(* What an order costs, in cents.  The value that a coupon has in its row  *)
(* is Decimal(10, 2): cents for a FIXED coupon, hundredths of a percent    *)
(* for a PERCENTAGE coupon.  A request gives it with any decimals, here in *)
(* thousandths.                                                            *)
(***************************************************************************)
EXTENDS Integers

DiscountTypes == {"PERCENTAGE", "FIXED"}

\* Decimal.toDecimalPlaces, and a NUMERIC column: n / d to the nearest whole, halves away from zero.
Rounded(n, d) ==
    IF n >= 0 THEN (2 * n + d) \div (2 * d) ELSE -((d - 2 * n) \div (2 * d))

FEE_RATE == 5 \* per cent

calculateSubtotal(price, quantity) == price * quantity

Fee(subtotal) == Rounded(subtotal * FEE_RATE, 100)

\* Mutant: the discount is not held to the subtotal.
DiscountUncapped(coupon, subtotal) ==
    IF coupon.type = "PERCENTAGE" THEN Rounded(subtotal * coupon.value, 10000) ELSE coupon.value

\* The cap is applied before the rounding.
Discount(coupon, subtotal) ==
    IF coupon.type = "PERCENTAGE"
    THEN IF subtotal * coupon.value > 10000 * subtotal
         THEN subtotal ELSE Rounded(subtotal * coupon.value, 10000)
    ELSE IF coupon.value > subtotal THEN subtotal ELSE coupon.value

Total(subtotal, discount) == subtotal + Fee(subtotal) - discount

\* Mutant: only zero is refused, not what is below it.
ValueAcceptedNegative(type, value) == value # 0 /\ (type = "PERCENTAGE" => value <= 100000)

\* CouponService.assertCouponValue, of the value as the request gives it.
ValueAccepted(type, value) == value > 0 /\ (type = "PERCENTAGE" => value <= 100000)

\* The database rounds what it is given to the column: 0.004 becomes 0.00.
Stored(value) == Rounded(value, 10)

=============================================================================
