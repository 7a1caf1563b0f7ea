\* Stock for one only: the second send of one checkout meets the first order.
SPECIFICATION FairSpec
CONSTANTS
  r1 = r1  r2 = r2  r3 = r3  r4 = r4  ana = ana  bia = bia  header = header  promo = promo  show = show  gala = gala
  Requests = {r1, r2, r3}
  Categories = {1, 2}
  Coupons = {promo}
  Events = {show}
  Demand <- DemandShared
  CouponOf <- CouponShared
  UserOf <- UserShared
  KeyOf <- KeyShared
  EventOf <- EventShared
  CouponEvent <- CouponEventShared
  Capacity <- CapacityTight
  LimitOf <- LimitTwo
  NewLimits = {}
  NoCoupon = NoCoupon  NoKey = NoKey  NoEvent = NoEvent  NoLimit = NoLimit
PROPERTIES DuplicateResolvedToFirst
CHECK_DEADLOCK FALSE
