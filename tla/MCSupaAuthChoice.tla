-------------------------- MODULE MCSupaAuthChoice --------------------------
EXTENDS MCSupaAuth

(* Two instances in one run; the initial state chooses.  One signed-in     *)
(* account and everything that uses up, revokes and deletes; or free ids   *)
(* and addresses, and everything that creates accounts and changes their   *)
(* addresses, with one session at most and no death: a request that stops  *)
(* for good is there one that is never continued.                          *)
VARIABLE choice

OpsOf == [sessions |-> {"refresh", "password", "verify", "recover", "logout_global", "logout_local",
                        "logout_others", "admin_soft_delete", "admin_hard_delete"},
          accounts |-> {"signup", "anonymous", "otp", "resend", "link_change", "email_change",
                        "update", "admin_create", "admin_update"}]

ChosenInit ==
  \/ choice = "sessions" /\ SignedInInit
  \/ choice = "accounts" /\ Init

Chosen(step) ==
  /\ step
  /\ \A r \in Requests : req'[r].op \in OpsOf[choice] \cup {Idle.op}
  /\ choice = "accounts" => (issued["session"] + Pending(MakesSession) <= 1)'
  /\ UNCHANGED choice

ChosenNext ==
  \E r \in Requests :
    \/ Chosen(Refresh(r)) \/ Chosen(Password(r)) \/ Chosen(Anonymous(r)) \/ Chosen(Verify(r))
    \/ Chosen(NewAccount(r)) \/ Chosen(SendOtp(r)) \/ Chosen(UpdateUser(r))
    \/ Chosen(LogoutGlobal(r)) \/ Chosen(LogoutLocal(r)) \/ Chosen(LogoutOthers(r))
    \/ Chosen(DeleteUser(r)) \/ Chosen(InsertUser(r)) \/ Chosen(Confirm(r))
    \/ Chosen(Consume(r)) \/ Chosen(CheckUser(r)) \/ Chosen(CreateSession(r))
    \/ Chosen(Answer(r)) \/ Chosen(RevokeOne(r)) \/ Chosen(RevokeOthers(r))
    \/ Chosen(Mail(r)) \/ Chosen(Update(r)) \/ Chosen(SoftDelete(r))
    \/ Chosen(HardDeleteUser(r)) \/ Chosen(HardDeleteSessions(r))
    \/ Chosen(HardDeleteOtps(r))
    \/ choice = "sessions" /\ Chosen(Die(r))

ChosenSpec == ChosenInit /\ [][ChosenNext]_<<vars, choice>>
=============================================================================
