CONSTANTS
  i1 = i1
  i2 = i2
  i3 = i3
  r1 = r1
  r2 = r2
  c1 = c1
  c2 = c2
  NoCoupon = NoCoupon
  NoCart = NoCart
  NoRestaurant = NoRestaurant
  Items = {i1, i2}
  Restaurants = {r1}
  MenuRestaurant <- OneMenu
  Coupons = {c1}
  CouponData <- FiveOff
  CartIds = {k1, k2, k3}
  Requests = {q1, q2}
  Prices <- OnePrice
  Distances <- OneAddress
  MaxQuantity = 1
  MaxApplied = 1
SPECIFICATION Spec
SYMMETRY Symmetry
INVARIANTS LinesAddUp
