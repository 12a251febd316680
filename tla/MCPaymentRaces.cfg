CONSTANTS
  Orders = {o1}
  Sessions = {s1, s2}
  Deliveries = {d1, d2}
  Refunders = {r1, r2}
  NoSession = NoSession
  NoOrder = NoOrder
  Subscribed <- WritingEvents
  MaxFaults = 1
SPECIFICATION Spec
CONSTRAINT Bounded
SYMMETRY Symmetry
INVARIANTS StatusJustified AckedIsDurable RefundsBacked
PROPERTY LateFailureHarmless
CHECK_DEADLOCK FALSE
