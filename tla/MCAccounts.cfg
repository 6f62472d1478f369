SPECIFICATION AccountsSpec
CONSTANTS
  r1 = r1
  r2 = r2
  u1 = u1
  u2 = u2
  e1 = e1
  e2 = e2
  b1 = b1
  b2 = b2
  l1 = l1
  l2 = l2
  Users = {u1, u2}
  Emails = {e1, e2}
  NoEmail = "null"
  Requests = {r1, r2}
  Ops = {"refresh", "password", "anonymous", "verify", "email_change", "signup", "otp", "recover", "resend", "link_change", "update", "logout_global", "logout_local", "logout_others", "admin_create", "admin_update", "admin_soft_delete", "admin_hard_delete"}
  AutoConfirm = TRUE
  MaxSessions = 3
  MaxOtps = 1
  MaxDeaths = 1
  Browsers = {b1, b2}
  Logins = {l1, l2}
  Callbacks = {r1, r2}
  Addresses = {"a@home", "A@home", "z@spam"}
  Mailboxes = {"a@home", "b@home", "z@spam"}
  Accounts = {u1, u2}
  Usernames = {"a", "b"}
  None = none
  Normalized <- MCNormalized
  BaseName <- MCBaseName
  Claims <- MCClaims
  Blocked = {"z@spam"}
  maxRetries = 2
SYMMETRY Swaps
INVARIANTS
  GrantUsedUp
  EmailIdentifiesAccount
  CookieOfOwnLogin
  LatestLoginKept
CHECK_DEADLOCK FALSE
