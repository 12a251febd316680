CONSTANTS
  Orders = {o1}
  Sessions = {s1}
  NoSession = NoSession
  NoOrder = NoOrder
  Deliveries = {d1}
  Refunders = {}
  Subscribed <- CheckoutEvents
  Requests = {q1, q2}
  CancelWindow = 0
  MaxTime = 1
  MaxFaults = 0
SPECIFICATION CheckoutSpec
SYMMETRY Symmetry
INVARIANT CompletedOrderWasPaid
PROPERTIES PaidRecordKept CancelWindowCloses
