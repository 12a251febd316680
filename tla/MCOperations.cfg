CONSTANTS
  Sockets = {s1, s2}
  NoSocket = NoSocket
  Questions = {k1, k2}
  Orders = {o1, o2}
  Partners = {p1}
  NoPartner = NoPartner
  MaxEvents = 2
  Managers = {m1}
  NoManager = NoManager
  Restaurants = {x1}
  Users = {u1}
  Complaints = {c1}
  Status = {"resolved", "rejected"}
  Addresses = {a1, a2}
  Coupons = {n1, n2}
  MenuItems = {i1}
  Ratings = {g1, g2}
  Rated = {o1}
  Places = {l1}
  Codes = {d1, d2}
  Requests = {q1, q2}
  MaxFaults = 2
SPECIFICATION Spec
INVARIANTS TypeOK CreatedOnce UpdatedWasStored KeysAreUnique
PROPERTIES
  AnsweredOnce QuestionSettles EventsTaken PickedUpMovesOn
  OnlyOnlineLocated DecidedBeforeReply OwnersWereValid
CHECK_DEADLOCK FALSE
