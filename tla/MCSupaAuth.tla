----------------------------- MODULE MCSupaAuth -----------------------------
(* Small instances of SupaAuth for TLC.                                    *)
EXTENDS SupaAuth, TLC

CONSTANTS r1, r2, u1, u2, e1, e2

TwoRequests == Permutations({r1, r2})

(* One account has signed up, with its session handed out; other ids are   *)
(* free.                                                                   *)
SignedInInit ==
  /\ account = [u \in Users |->
       IF u = u1 THEN [state |-> "live", email |-> e1, confirmed |-> TRUE]
       ELSE [state |-> "none", email |-> NoEmail, confirmed |-> FALSE]]
  /\ sessions = {[id |-> 1, user |-> u1, op |-> "signup", ref |-> NoRef, revoked |-> FALSE]}
  /\ otps = {} /\ issued = [k \in {"session", "otp"} |-> IF k = "session" THEN 1 ELSE 0]
  /\ wallet = {1}
  /\ req = [r \in Requests |-> Idle]
  /\ deaths = 0 /\ proven = {<<u1, e1>>} /\ changes = {}

SignedInSpec == SignedInInit /\ [][Next]_vars

(* An instance in which clients only sign up, ask for another password and *)
(* try it: the steps of the other operations are left out.                 *)
SignUpNext ==
  \E r \in Requests :
    \/ NewAccount(r) \/ SendOtp(r) \/ Verify(r) \/ InsertUser(r) \/ Confirm(r) \/ Consume(r)
    \/ CheckUser(r) \/ CreateSession(r) \/ Answer(r) \/ Mail(r) \/ Die(r)

(* A request that is being served goes on, and clients whose account is    *)
(* not confirmed ask for another password and try it.                      *)
SignUpSpec ==
  /\ Init /\ [][SignUpNext]_vars
  /\ \A r \in Requests : WF_vars(Continue(r)) /\ SF_vars(SendOtp(r)) /\ SF_vars(Verify(r))
=============================================================================
