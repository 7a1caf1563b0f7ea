\* Two requests of owners at a time, up to three in all, against the sales of
\* an event that has one ticket left to sell and room for one more.
SPECIFICATION Spec
CONSTANTS
    w1 = w1
    w2 = w2
    e1 = e1
    e2 = e2
    e3 = e3
    c1 = c1
    c2 = c2
    c3 = c3
    v1 = v1
    v2 = v2
    v3 = v3
    k1 = k1
    k2 = k2
    Absent = Absent
    Deleted = Deleted
    NoVenue = NoVenue
    NoEvent = NoEvent
    NoCoupon = NoCoupon
    Idle = Idle
    Workers = {w1, w2}
    Events <- TheEvents
    Categories <- TheCategories
    Venues <- TheVenues
    Coupons <- TheCoupons
    EventOf <- TheEventOf
    MadeFor <- TheMadeFor
    Asks <- TheAsks
    Setup <- TheSetup
    MaxAsks = 3
    MaxTickets = 1
SYMMETRY WorkerSymmetry
INVARIANTS TypeOK RowsHaveTheirParents SoldEventsWerePublished UsedCouponKeepsItsEvent CapacityUnlessDisturbed
PROPERTY CanceledIsFinal
CHECK_DEADLOCK FALSE
