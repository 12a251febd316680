CONSTANTS
  Emails = {e1}
  Managers = {m1}
  Sessions = {s1, s2, s3}
  Tokens = {t1, t2}
  Passwords = {p1, p2}
  Codes = {c1, c2}
  NoPassword = NoPassword
  NoCode = NoCode
  NoSession = NoSession
  Requests = {q1, q2}
  ResetRequests = {q3}
  Life = 2
  MaxTime = 5
  MaxFaults = 1
SPECIFICATION Spec
SYMMETRY Symmetry
INVARIANTS TypeOK PasswordsAsTold ListsRefuseLoggedOut ExchangedIsMarked UsedIsNotCached
PROPERTY SecretsServeOnce
CHECK_DEADLOCK FALSE
