CONSTANTS
  i1 = i1
  i2 = i2
  i3 = i3
  r1 = r1
  r2 = r2
  c1 = c1
  c2 = c2
  NoCoupon = NoCoupon
  NoCart = NoCart
  NoRestaurant = NoRestaurant
  Items = {i1, i2, i3}
  Restaurants = {r1, r2}
  MenuRestaurant <- TwoMenus
  Coupons = {c1, c2}
  CouponData <- TwoCoupons
  CartIds = {k1, k2}
  Requests = {q1}
  Prices <- TwoPrices
  Distances <- OneAddress
  MaxQuantity = 2
  MaxApplied = 1
SPECIFICATION Spec
SYMMETRY Symmetry
INVARIANTS TypeOK TotalAddsUp
PROPERTY DiscountFollowsCoupon
