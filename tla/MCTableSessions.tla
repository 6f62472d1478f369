--------------------------- MODULE MCTableSessions ---------------------------
(* Small instances of TableSessions for TLC.                                *)
EXTENDS TableSessions, TLC

CONSTANTS r1, r2, u1, u2, e1

Swaps == Permutations({r1, r2}) \cup Permutations({u1, u2})

(* Two instances in one run; the initial state chooses.  Either mails are  *)
(* sent, or passwords are edited with the record.                          *)
VARIABLE choice

ChosenInit == Init /\ choice \in {"mails", "edits"}

Chosen(step) ==
  /\ step
  /\ choice = "edits" => \A r \in Requests : req'[r].pc # "cooldown"
  /\ UNCHANGED choice

ChosenNext ==
  \/ \E r \in Requests :
       \/ Chosen(SignUp(r)) \/ Chosen(Login(r)) \/ Chosen(ExternalLogin(r))
       \/ Chosen(CreateUserToken(r)) \/ Chosen(Refresh(r)) \/ Chosen(PutSession(r))
       \/ Chosen(ChangePassword(r)) \/ Chosen(SetPassword(r)) \/ Chosen(Invalidate(r))
       \/ Chosen(RequestMail(r)) \/ Chosen(CheckCooldown(r)) \/ Chosen(SendMail(r))
       \/ Chosen(StoreToken(r)) \/ Chosen(UseToken(r)) \/ Chosen(FindUser(r))
       \/ Chosen(SetVerified(r)) \/ Chosen(Die(r))
  \/ Chosen(Logout) \/ Chosen(CoolDown) \/ Chosen(DeleteUser)
  \/ choice = "edits" /\ Chosen(EditPassword)

ChosenSpec == ChosenInit /\ [][ChosenNext]_<<vars, choice>>
=============================================================================
