\* Two sends under one key and a checkout of another user, over shared rows.
SPECIFICATION FairSpec
CONSTANTS
  r1 = r1  r2 = r2  r3 = r3  r4 = r4  ana = ana  bia = bia  header = header  promo = promo  show = show  gala = gala
  Requests = {r1, r2, r3}
  Categories = {1, 2, 3}
  Coupons = {promo}
  Events = {show}
  Demand <- DemandChanged
  CouponOf <- CouponChanged
  UserOf <- UserShared
  KeyOf <- KeyShared
  EventOf <- EventChanged
  CouponEvent <- CouponEventShared
  Capacity <- CapacityChanged
  LimitOf <- LimitOne
  NewLimits = {}
  NoCoupon = NoCoupon  NoKey = NoKey  NoEvent = NoEvent  NoLimit = NoLimit
INVARIANTS TypeOK OneOrderPerKey ResponsesAgree CouponWithinLimit NoWaitCycle
PROPERTIES EveryRequestEnds ImplementsBoxOffice
CHECK_DEADLOCK FALSE
