CONSTANTS
  Orders = {o1}
  Sessions = {s1}
  Deliveries = {d1}
  Refunders = {}
  NoSession = NoSession
  NoOrder = NoOrder
  Subscribed <- EventTypes
  MaxFaults = 1
SPECIFICATION FairSpec
INVARIANTS TypeOK
PROPERTY PaidIsRecorded
CHECK_DEADLOCK FALSE
