SPECIFICATION SignedInSpec
CONSTANTS
  r1 = r1
  r2 = r2
  u1 = u1
  u2 = u2
  e1 = e1
  e2 = e2
  Users = {u1}
  Emails = {e1, e2}
  NoEmail = "null"
  Requests = {r1}
  Ops = {"link_change", "email_change"}
  AutoConfirm = FALSE
  MaxSessions = 4
  MaxOtps = 2
  MaxDeaths = 0
INVARIANTS
  EmailChangeApplied
CHECK_DEADLOCK FALSE
