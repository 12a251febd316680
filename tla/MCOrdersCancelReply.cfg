CONSTANTS
  Orders = {o1}
  NoOrder = NoOrder
  PaymentIds = {p1}
  NILL = NILL
  Requests = {q1, q2}
  CancelWindow = 1
  MaxTime = 1
  MaxFaults = 0
SPECIFICATION Spec
SYMMETRY Symmetry
PROPERTY CancelReplyTruthful
