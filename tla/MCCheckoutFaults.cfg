CONSTANTS
  Orders = {o1}
  Sessions = {s1}
  NoSession = NoSession
  NoOrder = NoOrder
  Deliveries = {d1}
  Refunders = {r1}
  Subscribed <- CompletedEvents
  Requests = {q1}
  CancelWindow = 0
  MaxTime = 0
  MaxFaults = 1
SPECIFICATION CheckoutSpec
SYMMETRY Symmetry
PROPERTIES PaymentSpec OrdersSpec PromiseKept
