CONSTANTS
  Orders = {o1}
  NoOrder = NoOrder
  PaymentIds = {p1}
  NILL = NILL
  Requests = {q1, q2}
  CancelWindow = 1
  MaxTime = 2
  MaxFaults = 1
SPECIFICATION Spec
SYMMETRY Symmetry
INVARIANTS TypeOK Coherent DispatchedFirst
