CONSTANTS
  Orders = {o1}
  Sessions = {s1}
  Deliveries = {d1}
  Refunders = {}
  NoSession = NoSession
  NoOrder = NoOrder
  Subscribed <- WritingEvents
  MaxFaults = 0
SPECIFICATION Spec
SYMMETRY Symmetry
INVARIANTS FailureRecorded

CHECK_DEADLOCK FALSE
