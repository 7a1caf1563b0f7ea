\* Two instants, one event with one category and one coupon.
SPECIFICATION Spec
CONSTANTS
    MaxTime = 2
    MaxQuantity = 3
    Values <- TheValues
    Prices <- ThePrices
INVARIANTS TypeOK DatesFit TotalsAddUp
PROPERTY RefusedOnlyWhenStale
