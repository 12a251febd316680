CONSTANTS
  Emails = {e1}
  NoEmail = NoEmail
  Codes = {c1, c2}
  NoCode = NoCode
  Users = {u1, u2}
  Requests = {q1, q2}
  MaxAttempts = 4
  MaxFaults = 2
SPECIFICATION Spec
SYMMETRY Symmetry
INVARIANTS TypeOK SuccessIsDurable FailureIsUndone CounterExpires
CHECK_DEADLOCK FALSE
