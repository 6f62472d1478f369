SPECIFICATION ChosenSpec
CONSTANTS
  r1 = r1
  r2 = r2
  u1 = u1
  u2 = u2
  e1 = e1
  Users = {u1}
  Emails = {e1}
  Requests = {r1, r2}
  maxTokenRefresh = 2
  MaxIssued = 3
  MaxMails = 0
  MaxPass = 1
INVARIANTS
  PasswordEndsSessions
CHECK_DEADLOCK FALSE
