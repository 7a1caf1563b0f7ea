---------------------------- MODULE ConsoleProofs ----------------------------
(***************************************************************************)
(* The theorems of Console: dates, statuses and totals, for any number of  *)
(* instants and any prices and coupon values.                              *)
(***************************************************************************)
EXTENDS Console, TLAPS

-----------------------------------------------------------------------------
(***************************************************************************)
(* Pricing.  The products are named, so that what is left is linear.       *)
(***************************************************************************)
\* A part of the subtotal, rounded, is no more than the subtotal.
LEMMA RoundedPart ==
    ASSUME NEW n \in Int, NEW s \in Nat, n <= 10000 * s
    PROVE  Rounded(n, 10000) \in Int /\ Rounded(n, 10000) <= s
BY DEF Rounded

LEMMA RoundedNatural ==
    ASSUME NEW n \in Nat
    PROVE  Rounded(n, 10000) \in Nat
BY DEF Rounded

\* What is added to a part is at most what is added to the whole; halves go away
\* from zero, so the part may not change its sign.
LEMMA RoundedGrowth ==
    ASSUME NEW n \in Int, NEW m \in Int, NEW p \in Nat,
           m <= 0 \/ (n >= 0 /\ m <= 10000 * p)
    PROVE  Rounded(n + m, 10000) - Rounded(n, 10000) <= p
<1>1. CASE m <= 0
    BY <1>1 DEF Rounded
<1>2. CASE n >= 0 /\ m > 0 /\ m <= 10000 * p
    <2>1. (2 * (n + m) + 10000) \div 20000 <= (2 * n + 20000 * p + 10000) \div 20000
        BY <1>2
    <2>2. (2 * n + 20000 * p + 10000) \div 20000 = (2 * n + 10000) \div 20000 + p
        BY <1>2
    <2>3. /\ Rounded(n + m, 10000) = (2 * (n + m) + 10000) \div 20000
          /\ Rounded(n, 10000) = (2 * n + 10000) \div 20000
        BY <1>2 DEF Rounded
    <2> QED BY <1>2, <2>1, <2>2, <2>3
<1> QED BY <1>1, <1>2

\* The column keeps a checked value between 0 and 100 %, though not above 0.
LEMMA StoredWithin ==
    ASSUME NEW v \in Int
    PROVE  /\ Stored(v) \in Int
           /\ v > 0 => Stored(v) >= 0
           /\ v <= 100000 => Stored(v) <= 10000
BY DEF Stored, Rounded

LEMMA FeeGrows ==
    ASSUME NEW s \in Nat, NEW t \in Nat, s <= t
    PROVE  Fee(s) \in Nat /\ Fee(t) \in Nat /\ Fee(s) <= Fee(t)
BY DEF Fee, FEE_RATE, Rounded

\* The discount is held to the subtotal, whatever the coupon says.
LEMMA DiscountWithin ==
    ASSUME NEW c, c.value \in Int, NEW s \in Nat
    PROVE  Discount(c, s) \in Int /\ Discount(c, s) <= s
<1>1. PICK n \in Int : n = s * c.value
    OBVIOUS
<1>2. ~(n > 10000 * s) => Rounded(n, 10000) \in Int /\ Rounded(n, 10000) <= s
    BY RoundedPart
<1> QED BY <1>1, <1>2 DEF Discount

LEMMA DiscountNatural ==
    ASSUME NEW c, c.value \in Nat, NEW s \in Nat
    PROVE  Discount(c, s) \in Nat
<1>1. PICK n \in Nat : n = s * c.value
    OBVIOUS
<1>2. Rounded(n, 10000) \in Nat
    BY RoundedNatural
<1> QED BY <1>1, <1>2 DEF Discount

\* What is added to the subtotal is not all taken by the discount.
LEMMA DiscountGrowth ==
    ASSUME NEW c, c.value \in Int, NEW s \in Nat, NEW p \in Nat
    PROVE  Discount(c, s + p) - Discount(c, s) <= p
<1>1. Discount(c, s + p) \in Int /\ Discount(c, s + p) <= s + p
    BY DiscountWithin
<1>2. CASE c.type # "PERCENTAGE"
    BY <1>2 DEF Discount
<1>3. CASE c.type = "PERCENTAGE" /\ c.value > 10000
    <2>1. CASE s = 0
        <3>1. s * c.value = 0 /\ 10000 * s = 0
            BY <2>1
        <3>2. Rounded(0, 10000) = 0
            BY DEF Rounded
        <3>3. Discount(c, s) = 0
            BY <1>3, <3>1, <3>2 DEF Discount
        <3> QED BY <1>1, <2>1, <3>3
    <2>2. CASE s > 0
        <3>1. s * c.value > 10000 * s
            BY <1>3, <2>2
        <3>2. Discount(c, s) = s
            BY <1>3, <3>1 DEF Discount
        <3> QED BY <1>1, <3>2
    <2> QED BY <2>1, <2>2
<1>4. CASE c.type = "PERCENTAGE" /\ c.value <= 10000
    <2>1. PICK n \in Int, m \in Int : n = s * c.value /\ m = p * c.value
        OBVIOUS
    <2>2. (s + p) * c.value = n + m
        BY <2>1
    <2>3. n <= 10000 * s /\ m <= 10000 * p
        BY <1>4, <2>1
    <2>4. m <= 0 \/ n >= 0
        BY <2>1
    <2>5. Discount(c, s) = Rounded(n, 10000) /\ Discount(c, s + p) = Rounded(n + m, 10000)
        BY <1>4, <2>1, <2>2, <2>3 DEF Discount
    <2>6. Rounded(n + m, 10000) - Rounded(n, 10000) <= p
        BY <2>3, <2>4, RoundedGrowth
    <2> QED BY <2>5, <2>6
<1> QED BY <1>2, <1>3, <1>4

-----------------------------------------------------------------------------
(***************************************************************************)
(* The console.                                                            *)
(***************************************************************************)
\* What holds of each variable alone.
EventFits ==
    /\ event \in [status : EventStatus, start : Times, end : Given, apart : BOOLEAN]
    /\ event.apart \/ EndsAfterStart(event.start, event.end)

FormTyped ==
    form \in [at : {"closed", "open", "saved", "refused", "failed"}, view : Views,
             chosen : EventStatus]

FormFits == FormTyped /\ cached \subseteq Views /\ \A u, v \in cached : u = v

CouponFits ==
    /\ coupon \in [type : DiscountTypes, value : Int, exists : BOOLEAN, apart : BOOLEAN]
    /\ coupon.apart \/ (coupon.value >= 0 /\ (coupon.type = "PERCENTAGE" => coupon.value <= 10000))

WindowFits(c, start) ==
    /\ c.end # NoTime => c.end <= start
    /\ c.start # NoTime => c.start < start
    /\ c.start # NoTime /\ c.end # NoTime => c.start < c.end

CategoryFits ==
    /\ category \in [start : Given, end : Given, exists : BOOLEAN, apart : BOOLEAN]
    /\ ~category.exists => category = NoCategory
    /\ category.apart \/ WindowFits(category, event.start)

\* A form that is saved with another status was offered it by its view.
Offered ==
    /\ form.chosen # form.view.status
    /\ form.chosen \in STATUS_TRANSITIONS[form.view.status]

\* A view that is not old is the event's.
ViewsFit ==
    /\ \A view \in cached : view.old \/ view.status = event.status
    /\ form.at # "closed" => form.view.old \/ form.view.status = event.status
    /\ form.at = "saved" => Offered

ConsoleInv == EventFits /\ FormFits /\ CouponFits /\ CategoryFits /\ ViewsFit

LEMMA InvImplies == ConsoleInv => TypeOK /\ DatesFit
BY DEF ConsoleInv, EventFits, FormFits, FormTyped, CouponFits, CategoryFits, WindowFits, TypeOK, DatesFit

LEMMA InitFits == Init => ConsoleInv
BY DEF Init, ConsoleInv, EventFits, FormFits, FormTyped, CouponFits, CategoryFits, WindowFits, ViewsFit,
       Offered, Closed, NoView, Views, EventStatus, NoCategory, NoCoupon, NoTime, Given,
       EndsAfterStart, DiscountTypes

\* A change of status leaves the dates alone and makes every view old.
LEMMA StatusKept ==
    ASSUME ConsoleInv, NEW status \in EventStatus, SetStatus(status),
           UNCHANGED <<category, coupon>>, FormTyped',
           form'.at # "closed" => form'.view.old,
           form'.at = "saved" => Offered'
    PROVE  ConsoleInv'
<1>1. /\ event' = [event EXCEPT !.status = status]
      /\ cached' = {Aged(view, TRUE) : view \in cached}
      /\ category' = category /\ coupon' = coupon
    BY DEF SetStatus
<1>2. event'.start = event.start /\ event'.end = event.end /\ event'.apart = event.apart
    BY <1>1 DEF ConsoleInv, EventFits
<1>3. EventFits'
    BY <1>1, <1>2 DEF ConsoleInv, EventFits
<1>4. FormFits'
    <2>1. \A v \in cached' : \E u \in cached : v = Aged(u, TRUE)
        BY <1>1
    <2>2. \A u \in cached : Aged(u, TRUE) \in Views
        BY DEF ConsoleInv, FormFits, Views, Aged
    <2>3. \A u, v \in cached' : u = v
        BY <2>1 DEF ConsoleInv, FormFits
    <2> QED BY <2>1, <2>2, <2>3 DEF FormFits
<1>5. CouponFits' /\ CategoryFits'
    BY <1>1, <1>2 DEF ConsoleInv, CouponFits, CategoryFits, WindowFits
<1>6. ViewsFit'
    <2>1. \A view \in cached' : view.old
        BY <1>1 DEF Aged
    <2> QED BY <2>1 DEF ViewsFit
<1> QED BY <1>3, <1>4, <1>5, <1>6 DEF ConsoleInv

\* The statuses a form offers, those of its own view apart, are those allowed.
LEMMA Offers ==
    ASSUME NEW s \in EventStatus, NEW t \in STATUS_TRANSITIONS[s], t # s
    PROVE  t \in EventStatus /\ t \in ALLOWED_TRANSITIONS[s]
BY DEF EventStatus, STATUS_TRANSITIONS, ALLOWED_TRANSITIONS

LEMMA SavePreserves ==
    ASSUME ConsoleInv, NEW start \in Times, NEW end \in Given, NEW status \in EventStatus,
           Save(start, end, status)
    PROVE  ConsoleInv'
<1>1. /\ form.at \in {"open", "refused", "failed"}
      /\ status \in STATUS_TRANSITIONS[form.view.status]
      /\ cached' = cached /\ coupon' = coupon
    BY DEF Save
<1>2. CASE EndsAfterStart(start, end)
    <2>1. /\ event' = [status |-> event.status, start |-> start,
                       end |-> Merged(end, event.end), apart |-> Kept(end, event.end)]
          /\ category' = Apart(start # event.start)
          /\ form' = IF status = form.view.status THEN Closed
                     ELSE [form EXCEPT !.at = "saved", !.chosen = status]
        BY <1>2 DEF Save
    <2>2. EventFits'
        BY <1>2, <2>1 DEF ConsoleInv, EventFits, EndsAfterStart, Merged, Kept, Given
    <2>3. FormFits'
        BY <1>1, <2>1 DEF ConsoleInv, FormFits, FormTyped, Closed, NoView, Views, EventStatus
    <2>4. CouponFits'
        BY <1>1 DEF ConsoleInv, CouponFits
    <2>5. CategoryFits'
        <3>1. /\ category'.start = category.start /\ category'.end = category.end
              /\ category'.exists = category.exists
              /\ category'.apart = (category.apart \/ (category.exists /\ start # event.start))
              /\ category' \in [start : Given, end : Given, exists : BOOLEAN, apart : BOOLEAN]
            BY <2>1 DEF Apart, ConsoleInv, CategoryFits
        <3>2. ~category.exists => category' = category
            BY <2>1 DEF Apart, ConsoleInv, CategoryFits
        <3>3. category'.apart \/ WindowFits(category', event'.start)
            BY <2>1, <3>1 DEF ConsoleInv, CategoryFits, WindowFits, NoCategory
        <3> QED BY <3>1, <3>2, <3>3 DEF ConsoleInv, CategoryFits, WindowFits
    <2>6. ViewsFit'
        BY <1>1, <2>1 DEF ConsoleInv, FormFits, FormTyped, ViewsFit, Offered, Closed
    <2> QED BY <2>2, <2>3, <2>4, <2>5, <2>6 DEF ConsoleInv
<1>3. CASE ~EndsAfterStart(start, end)
    <2>1. form' = [form EXCEPT !.at = "failed"] /\ event' = event /\ category' = category
        BY <1>3 DEF Save
    <2>2. EventFits' /\ CouponFits' /\ CategoryFits'
        BY <1>1, <2>1 DEF ConsoleInv, EventFits, CouponFits, CategoryFits, WindowFits
    <2>3. FormFits' /\ ViewsFit'
        BY <1>1, <2>1 DEF ConsoleInv, FormFits, FormTyped, ViewsFit, Offered
    <2> QED BY <2>2, <2>3 DEF ConsoleInv
<1> QED BY <1>2, <1>3

LEMMA FormPreserves ==
    ASSUME ConsoleInv, Open \/ Expire \/ Close
    PROVE  ConsoleInv'
<1>1. event' = event /\ category' = category /\ coupon' = coupon
    BY DEF Open, Expire, Close
<1>2. EventFits' /\ CouponFits' /\ CategoryFits'
    BY <1>1 DEF ConsoleInv, EventFits, CouponFits, CategoryFits, WindowFits
<1>3. FormFits' /\ ViewsFit'
    <2>1. CASE Open
        <3>1. PICK view \in (IF cached = {} THEN {Fresh} ELSE cached) :
                  cached' = {view} /\ form' = [at |-> "open", view |-> view, chosen |-> view.status]
            BY <2>1 DEF Open
        <3>2. CASE view = Fresh
            <4>1. view \in Views /\ view.status = event.status
                BY <3>2 DEF ConsoleInv, EventFits, Views, Fresh
            <4> QED BY <1>1, <3>1, <4>1 DEF FormFits, FormTyped, ViewsFit, Views
        <3>3. CASE view \in cached
            <4>1. view \in Views /\ (view.old \/ view.status = event.status)
                BY <3>3 DEF ConsoleInv, FormFits, ViewsFit
            <4> QED BY <1>1, <3>1, <4>1 DEF FormFits, FormTyped, ViewsFit, Views
        <3> QED BY <3>2, <3>3
    <2>2. CASE Expire
        BY <1>1, <2>2 DEF Expire, ConsoleInv, FormFits, FormTyped, ViewsFit, Offered
    <2>3. CASE Close
        BY <1>1, <2>3
        DEF Close, ConsoleInv, FormFits, FormTyped, ViewsFit, Closed, NoView, Views, EventStatus
    <2> QED BY <2>1, <2>2, <2>3
<1> QED BY <1>2, <1>3 DEF ConsoleInv

LEMMA StatusPreserves ==
    ASSUME ConsoleInv, Patch \/ LoseAnswer \/ \E status \in EventStatus : updateStatus(status)
    PROVE  ConsoleInv'
<1>1. UNCHANGED <<category, coupon>> /\ form \in [at : {"closed", "open", "saved", "refused", "failed"},
                                                view : Views, chosen : EventStatus]
    BY DEF Patch, LoseAnswer, updateStatus, ConsoleInv, FormFits, FormTyped
<1>2. ASSUME UNCHANGED <<event, cached>>, NEW at \in {"refused", "failed"}, form.at = "saved",
             form' = [form EXCEPT !.at = at]
      PROVE  ConsoleInv'
    <2>1. EventFits' /\ CouponFits' /\ CategoryFits'
        BY <1>1, <1>2 DEF ConsoleInv, EventFits, CouponFits, CategoryFits, WindowFits
    <2>2. FormFits' /\ ViewsFit'
        BY <1>1, <1>2 DEF ConsoleInv, FormFits, FormTyped, ViewsFit
    <2> QED BY <2>1, <2>2 DEF ConsoleInv
<1>3. CASE Patch
    <2>1. CASE TransitionAllowed(form.chosen)
        <3>1. SetStatus(form.chosen) /\ form' = Closed
            BY <1>3, <2>1 DEF Patch
        <3>2. FormTyped' /\ form'.at = "closed"
            BY <3>1 DEF FormTyped, Closed, NoView, Views, EventStatus
        <3> QED BY <1>1, <3>1, <3>2, StatusKept
    <2>2. CASE ~TransitionAllowed(form.chosen)
        BY <1>2, <1>3, <2>2 DEF Patch
    <2> QED BY <2>1, <2>2
<1>4. CASE LoseAnswer
    <2>1. CASE form' = [form EXCEPT !.at = "failed"] /\ UNCHANGED <<event, cached>>
        BY <1>2, <1>4, <2>1 DEF LoseAnswer
    <2>2. CASE SetStatus(form.chosen)
               /\ form' = [form EXCEPT !.at = "failed", !.view = Aged(@, TRUE)]
        <3>1. FormTyped' /\ form'.at = "failed" /\ form'.view.old
            BY <1>1, <2>2 DEF FormTyped, Aged, Views
        <3> QED BY <1>1, <2>2, <3>1, StatusKept
    <2> QED BY <1>4, <2>1, <2>2 DEF LoseAnswer
<1>5. ASSUME NEW status \in EventStatus, updateStatus(status) PROVE ConsoleInv'
    <2>1. SetStatus(status) /\ form' = [form EXCEPT !.view = Aged(@, form.at # "closed")]
        BY <1>5 DEF updateStatus
    <2>2. FormTyped' /\ form'.at = form.at /\ form'.chosen = form.chosen
          /\ form'.view.status = form.view.status /\ form'.view.old = (form.at # "closed")
        BY <1>1, <2>1 DEF FormTyped, Aged, Views
    <2>3. form'.at = "saved" => Offered'
        BY <2>2 DEF ConsoleInv, ViewsFit, Offered
    <2> QED BY <1>1, <2>1, <2>2, <2>3, StatusKept
<1> QED BY <1>3, <1>4, <1>5

LEMMA CategoryPreserves ==
    ASSUME ConsoleInv, NEW start \in Given, NEW end \in Given,
           CreateCategory(start, end) \/ UpdateCategory(start, end) \/ RemoveCategory
    PROVE  ConsoleInv'
<1>1. event' = event /\ cached' = cached /\ form' = form /\ coupon' = coupon
    BY DEF CreateCategory, UpdateCategory, RemoveCategory
<1>2. EventFits' /\ FormFits' /\ CouponFits' /\ ViewsFit'
    BY <1>1 DEF ConsoleInv, EventFits, FormFits, FormTyped, CouponFits, ViewsFit, Offered
<1>3. CategoryFits'
    <2>1. CASE CreateCategory(start, end)
        BY <1>1, <2>1 DEF CreateCategory, assertSalesWindow, CategoryFits, WindowFits
    <2>2. CASE UpdateCategory(start, end)
        <3>1. /\ category.exists /\ assertSalesWindow(start, end)
              /\ category'.start = Merged(start, category.start)
              /\ category'.end = Merged(end, category.end) /\ category'.exists
              /\ category'.apart = IF start = NoTime /\ end = NoTime THEN category.apart
                                   ELSE Kept(start, category.start) \/ Kept(end, category.end)
              /\ category' \in [start : Given, end : Given, exists : BOOLEAN, apart : BOOLEAN]
            BY <2>2 DEF UpdateCategory, ConsoleInv, CategoryFits, Merged, Kept
        <3>2. CASE start = NoTime /\ end = NoTime
            BY <1>1, <3>1, <3>2 DEF ConsoleInv, CategoryFits, WindowFits, Merged, Kept
        <3>3. CASE start # NoTime \/ end # NoTime
            BY <1>1, <3>1, <3>3 DEF CategoryFits, WindowFits, Merged, Kept, assertSalesWindow
        <3> QED BY <3>2, <3>3
    <2>3. CASE RemoveCategory
        BY <1>1, <2>3 DEF RemoveCategory, CategoryFits, WindowFits, NoCategory, Given
    <2> QED BY <2>1, <2>2, <2>3
<1> QED BY <1>2, <1>3 DEF ConsoleInv

LEMMA CouponPreserves ==
    ASSUME ConsoleInv, NEW type \in DiscountTypes, NEW value \in Values,
           CreateCoupon(type, value) \/ UpdateCoupon(type, value) \/ DeleteCoupon
    PROVE  ConsoleInv'
<1>1. event' = event /\ cached' = cached /\ form' = form /\ category' = category
    BY DEF CreateCoupon, UpdateCoupon, DeleteCoupon
<1>2. EventFits' /\ FormFits' /\ CategoryFits' /\ ViewsFit'
    BY <1>1 DEF ConsoleInv, EventFits, FormFits, FormTyped, CategoryFits, WindowFits, ViewsFit, Offered
<1>3. CouponFits'
    <2>1. Stored(value) \in Int /\ coupon \in [type : DiscountTypes, value : Int, exists : BOOLEAN, apart : BOOLEAN]
        BY ConsoleAssumption, StoredWithin DEF ConsoleInv, CouponFits
    <2>2. CASE /\ ValueAccepted(type, value)
               /\ coupon' = [type |-> type, value |-> Stored(value), exists |-> TRUE, apart |-> FALSE]
        <3>1. value \in Int
            BY ConsoleAssumption
        <3>2. Stored(value) >= 0 /\ (type = "PERCENTAGE" => Stored(value) <= 10000)
            BY <2>2, <3>1, StoredWithin DEF ValueAccepted
        <3> QED BY <2>1, <2>2, <3>2 DEF CouponFits
    <2>3. CASE coupon' = [type |-> type, value |-> coupon.value, exists |-> TRUE, apart |-> TRUE]
        BY <2>1, <2>3 DEF CouponFits
    <2>4. CASE coupon' = [type |-> coupon.type, value |-> Stored(value), exists |-> TRUE, apart |-> TRUE]
        BY <2>1, <2>4 DEF CouponFits
    <2>5. CASE DeleteCoupon
        BY <2>5 DEF DeleteCoupon, CouponFits, NoCoupon, DiscountTypes
    <2> QED BY <2>2, <2>3, <2>4, <2>5 DEF CreateCoupon, UpdateCoupon
<1> QED BY <1>2, <1>3 DEF ConsoleInv

LEMMA StutterPreserves ==
    ASSUME ConsoleInv, UNCHANGED vars
    PROVE  ConsoleInv'
BY DEF vars, ConsoleInv, EventFits, FormFits, FormTyped, CouponFits, CategoryFits, WindowFits,
       ViewsFit, Offered

\* The invariant holds in every reachable state.
THEOREM ConsoleInductive == Spec => []ConsoleInv
<1>1. ConsoleInv /\ [Next]_vars => ConsoleInv'
    <2> SUFFICES ASSUME ConsoleInv, [Next]_vars PROVE ConsoleInv'
        OBVIOUS
    <2>1. NoTime \in Given
        BY DEF Given
    <2>2. ASSUME RemoveCategory PROVE ConsoleInv'
        BY <2>1, <2>2, CategoryPreserves
    <2>3. ASSUME DeleteCoupon PROVE ConsoleInv'
        <3>1. /\ event' = event /\ cached' = cached /\ form' = form /\ category' = category
              /\ coupon' = NoCoupon
            BY <2>3 DEF DeleteCoupon
        <3>2. EventFits' /\ FormFits' /\ CategoryFits' /\ ViewsFit'
            BY <3>1 DEF ConsoleInv, EventFits, FormFits, FormTyped, CategoryFits, WindowFits, ViewsFit, Offered
        <3>3. CouponFits'
            BY <3>1 DEF CouponFits, NoCoupon, DiscountTypes
        <3> QED BY <3>2, <3>3 DEF ConsoleInv
    <2> QED BY <2>2, <2>3, FormPreserves, StatusPreserves, SavePreserves, CategoryPreserves,
               CouponPreserves, StutterPreserves DEF Next
<1> QED BY <1>1, InitFits, PTL DEF Spec

\* Every variable of Console keeps its type, and a coupon its range.
THEOREM ConsoleTypeCorrect == Spec => []TypeOK
BY ConsoleInductive, InvImplies, PTL

\* Dates that were not saved in parts fit together (event.validator.ts), for any
\* number of instants.
THEOREM DatesAlwaysFit == Spec => []DatesFit
BY ConsoleInductive, InvImplies, PTL

\* The amounts add up for all prices, quantities and coupon values: a discount is
\* within the subtotal, and one more ticket never makes an order cheaper.
THEOREM TotalsAlwaysAddUp == Spec => []TotalsAddUp
<1>1. ConsoleInv => TotalsAddUp
    <2> SUFFICES ASSUME ConsoleInv, NEW price \in Prices, NEW quantity \in 1..MaxQuantity
                 PROVE  LET subtotal == calculateSubtotal(price, quantity)
                            more == calculateSubtotal(price, quantity + 1)
                        IN /\ Discount(coupon, subtotal) <= subtotal
                           /\ coupon.apart \/ Discount(coupon, subtotal) >= 0
                           /\ Total(subtotal, Discount(coupon, subtotal))
                                <= Total(more, Discount(coupon, more))
        BY DEF TotalsAddUp
    <2>1. price \in Nat /\ quantity \in Nat /\ coupon.value \in Int
        BY ConsoleAssumption DEF ConsoleInv, CouponFits
    <2>2. PICK s \in Nat : s = price * quantity
        BY <2>1
    <2>3. calculateSubtotal(price, quantity) = s /\ calculateSubtotal(price, quantity + 1) = s + price
        BY <2>1, <2>2 DEF calculateSubtotal
    <2>4. Discount(coupon, s) \in Int /\ Discount(coupon, s) <= s
        BY <2>1, DiscountWithin
    <2>5. coupon.apart \/ Discount(coupon, s) >= 0
        BY <2>1, DiscountNatural DEF ConsoleInv, CouponFits
    <2>6. /\ Discount(coupon, s + price) - Discount(coupon, s) <= price
          /\ Discount(coupon, s + price) \in Int
        <3>1. Discount(coupon, s + price) - Discount(coupon, s) <= price
            BY <2>1, DiscountGrowth
        <3>2. s + price \in Nat
            BY <2>1
        <3>3. Discount(coupon, s + price) \in Int
            BY <2>1, <3>2, DiscountWithin
        <3> QED BY <3>1, <3>3
    <2>7. Fee(s) \in Nat /\ Fee(s + price) \in Nat /\ Fee(s) <= Fee(s + price)
        BY <2>1, FeeGrows
    <2>8. Total(s, Discount(coupon, s)) <= Total(s + price, Discount(coupon, s + price))
        BY <2>1, <2>4, <2>6, <2>7 DEF Total
    <2> QED BY <2>3, <2>4, <2>5, <2>8
<1> QED BY <1>1, ConsoleInductive, PTL

\* What the form offers is refused only on a stale view or for want of a category.
THEOREM OffersStand == Spec => RefusedOnlyWhenStale
<1>1. ConsoleInv /\ [Next]_vars => [form.at = "saved" /\ form'.at = "refused" =>
                                     \/ form.view.old
                                     \/ form.chosen = "PUBLISHED" /\ ~category.exists]_vars
    <2> SUFFICES ASSUME ConsoleInv, Next, form.at = "saved", form'.at = "refused", ~form.view.old
                 PROVE  form.chosen = "PUBLISHED" /\ ~category.exists
        OBVIOUS
    <2>1. Patch
        <3>1. form' # form
            OBVIOUS
        <3>2. ~(Open \/ Expire \/ Close)
            BY <3>1 DEF Open, Expire, Close, Closed
        <3>3. ~LoseAnswer
            BY DEF LoseAnswer, ConsoleInv, FormFits, FormTyped
        <3>4. \A status \in EventStatus : ~updateStatus(status)
            BY DEF updateStatus, ConsoleInv, FormFits, FormTyped
        <3>5. \A start \in Times, end \in Given, status \in EventStatus : ~Save(start, end, status)
            BY DEF Save
        <3>6. \A start, end \in Given : ~CreateCategory(start, end) /\ ~UpdateCategory(start, end)
            BY <3>1 DEF CreateCategory, UpdateCategory
        <3>7. ~RemoveCategory /\ ~DeleteCoupon
            BY <3>1 DEF RemoveCategory, DeleteCoupon
        <3>8. \A type \in DiscountTypes, value \in Values :
                  ~CreateCoupon(type, value) /\ ~UpdateCoupon(type, value)
            BY <3>1 DEF CreateCoupon, UpdateCoupon
        <3> QED BY <3>2, <3>3, <3>4, <3>5, <3>6, <3>7, <3>8 DEF Next
    <2>2. ~TransitionAllowed(form.chosen)
        BY <2>1 DEF Patch, Closed
    <2>3. form.chosen \in ALLOWED_TRANSITIONS[event.status]
        BY Offers DEF ConsoleInv, FormFits, FormTyped, Views, ViewsFit, Offered
    <2> QED BY <2>2, <2>3 DEF TransitionAllowed
<1> QED BY <1>1, ConsoleInductive, PTL DEF Spec, RefusedOnlyWhenStale

=============================================================================
