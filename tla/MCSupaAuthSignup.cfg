SPECIFICATION SignUpSpec
CONSTANTS
  r1 = r1
  r2 = r2
  u1 = u1
  u2 = u2
  e1 = e1
  e2 = e2
  Users = {u1}
  Emails = {e1}
  NoEmail = "null"
  Requests = {r1, r2}
  Ops = {"signup", "resend", "verify"}
  AutoConfirm = FALSE
  MaxSessions = 4
  MaxOtps = 4
  MaxDeaths = 2
INVARIANTS
  UsedUpTookEffect
PROPERTIES
  EventuallyConfirmed
CHECK_DEADLOCK FALSE
