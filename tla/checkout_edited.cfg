\* Sales of two events close and the owner edits the coupon while checkouts use it.
SPECIFICATION Spec
CONSTANTS
  r1 = r1  r2 = r2  r3 = r3  r4 = r4  ana = ana  bia = bia  header = header  promo = promo  show = show  gala = gala
  Requests = {r1, r2, r3, r4}
  Categories = {1, 2, 3}
  Coupons = {promo}
  Events = {show, gala}
  Demand <- DemandMixed
  CouponOf <- CouponMixed
  UserOf <- UserMixed
  KeyOf <- KeyMixed
  EventOf <- EventMixed
  CouponEvent <- CouponEventShared
  Capacity <- CapacityMixed
  LimitOf <- LimitTwo
  NewLimits = {0, NoLimit}
  NoCoupon = NoCoupon  NoKey = NoKey  NoEvent = NoEvent  NoLimit = NoLimit
INVARIANTS CouponAccounting StockAccounting
CHECK_DEADLOCK FALSE
