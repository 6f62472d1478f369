------------------------------ MODULE SupaAuth ------------------------------
(***************************************************************************)
(* The GoTrue-compatible service under /auth/v1: accounts (auth_users),    *)
(* refresh tokens (auth_sessions) and one-time passwords (auth_otps).      *)
(*                                                                         *)
(* A request is a sequence of statements with an await between any two, so *)
(* the statements of concurrent requests interleave, and a request that    *)
(* dies leaves what it has already written.  There is one action for the   *)
(* statement a request begins with, and one for each kind of statement     *)
(* that may follow; pc names the statement a request will execute next.    *)
(* Statements that only write what no handler reads again (timestamps,     *)
(* recovery_token, metadata) are part of the action next to them.          *)
(***************************************************************************)
EXTENDS Integers, FiniteSets

CONSTANTS
  Users,        \* ids that new accounts may get
  Emails,
  NoEmail,      \* the NULL of anonymous accounts
  Requests,     \* requests that may be served at the same time
  Ops,          \* the operations that clients ask for
  AutoConfirm,  \* emailAutoConfirm
  MaxSessions,  \* bound: sessions ever created
  MaxOtps,      \* bound: one-time passwords ever created
  MaxDeaths     \* bound: requests that die half way

Operations ==
  {"refresh", "password", "anonymous", "verify", "email_change", "signup", "otp",
   "recover", "resend", "link_change", "update", "logout_global", "logout_local",
   "logout_others", "admin_create", "admin_update", "admin_soft_delete",
   "admin_hard_delete"}

ASSUME SupaAuthAssumption ==
  /\ NoEmail \notin Emails
  /\ Ops \subseteq Operations
  /\ AutoConfirm \in BOOLEAN
  /\ MaxSessions \in Nat /\ MaxOtps \in Nat /\ MaxDeaths \in Nat

VARIABLES
  account,   \* auth_users
  sessions,  \* auth_sessions; ids are given in the order of creation
  otps,      \* auth_otps
  issued,    \* how many sessions and passwords were created
  wallet,    \* the sessions that were handed to clients
  req,       \* the state of each request
  deaths,
  proven,    \* history: the addresses shown to belong to an account
  changes    \* history: the email changes asked for by a link

vars == <<account, sessions, otps, issued, wallet, req, deaths, proven, changes>>
rows == <<account, sessions, otps, issued>>

NoRef == 0
Idle == [op |-> "none", pc |-> "idle", user |-> "none", ref |-> NoRef, email |-> NoEmail]

Account == [state : {"none", "live", "soft", "gone"},
            email : Emails \cup {NoEmail}, confirmed : BOOLEAN]
Session == [id : Nat, user : Users, op : Operations, ref : Nat, revoked : BOOLEAN]
Otp == [id : Nat, user : Users, email : Emails, consumed : BOOLEAN]
Steps == {"idle", "revoke", "revoke_others", "insert", "confirm", "consume", "check",
          "create", "answer", "mail", "update", "soft_delete", "delete_user",
          "delete_sessions", "delete_otps"}
Request == [op : Operations \cup {"none"}, pc : Steps, user : Users \cup {"none"},
            ref : Nat, email : Emails \cup {NoEmail}]

TypeOK ==
  /\ account \in [Users -> Account]
  /\ sessions \subseteq Session
  /\ otps \subseteq Otp
  /\ issued \in [{"session", "otp"} -> Nat]
  /\ wallet \subseteq Nat
  /\ req \in [Requests -> Request]
  /\ deaths \in 0 .. MaxDeaths
  /\ proven \subseteq Users \X (Emails \cup {NoEmail})
  /\ changes \subseteq [otp : Nat, user : Users, to : Emails]

Init ==
  /\ account = [u \in Users |-> [state |-> "none", email |-> NoEmail, confirmed |-> FALSE]]
  /\ sessions = {} /\ otps = {} /\ issued = [k \in {"session", "otp"} |-> 0]
  /\ wallet = {}
  /\ req = [r \in Requests |-> Idle]
  /\ deaths = 0 /\ proven = {} /\ changes = {}

-----------------------------------------------------------------------------
(* Queries.                                                                *)
HasRow(u) == account[u].state \in {"live", "soft"}
Live(u) == account[u].state = "live"

(* findUserById sees live accounts only, findUserByEmail also the ones     *)
(* that were deleted softly.                                               *)
UsersByEmail(e) == {u \in Users : HasRow(u) /\ account[u].email = e}

(* A random id: no account and no other request has it.                    *)
NewId(u) == account[u].state = "none" /\ \A r \in Requests : req[r].user # u

ActiveSessions(u) == {s \in sessions : s.user = u /\ ~s.revoked}

MostRecent(u) ==
  {s \in ActiveSessions(u) : \A t \in ActiveSessions(u) : t.id <= s.id}

Revoke(S) == {[s EXCEPT !.revoked = TRUE] : s \in S} \cup (sessions \ S)

-----------------------------------------------------------------------------
(* Control.                                                                *)
Begin(r, op, pc, u, ref, e) ==
  req' = [req EXCEPT ![r] = [op |-> op, pc |-> pc, user |-> u, ref |-> ref, email |-> e]]

(* The bounds hold back new requests, never one that is under way.         *)
MakesSession == {"refresh", "password", "anonymous", "verify", "email_change", "signup"}
MakesOtp == {"signup", "otp", "recover", "resend", "link_change"}
Pending(ops) == Cardinality({r \in Requests : req[r].op \in ops /\ req[r].pc # "answer"})

Room(op) ==
  /\ op \in MakesSession => issued["session"] + Pending(MakesSession) < MaxSessions
  /\ op \in MakesOtp => issued["otp"] + Pending(MakesOtp) < MaxOtps

Asked(r, op) == req[r] = Idle /\ op \in Ops /\ Room(op)

At(r, pc) == req[r].pc = pc
Goto(r, pc) == req' = [req EXCEPT ![r].pc = pc]
Done(r) == req' = [req EXCEPT ![r] = Idle]

Untouched == UNCHANGED <<wallet, deaths, proven, changes>>

(***************************************************************************)
(* First statements: they read, and the request goes on with what it read. *)
(***************************************************************************)

(* Mutant: the token is not revoked.                                       *)
RefreshKeepsToken(r) ==
  /\ Asked(r, "refresh")
  /\ \E s \in sessions : /\ s.id \in wallet /\ ~s.revoked
                         /\ Begin(r, "refresh", "create", s.user, s.id, NoEmail)
  /\ UNCHANGED rows /\ Untouched

(* handleRefreshTokenGrant: a client presents a token it was handed.       *)
Refresh(r) ==
  /\ Asked(r, "refresh")
  /\ \E s \in sessions : /\ s.id \in wallet /\ ~s.revoked
                         /\ Begin(r, "refresh", "revoke", s.user, s.id, NoEmail)
  /\ UNCHANGED rows /\ Untouched

(* handlePasswordGrant, with the right password.                           *)
Password(r) ==
  /\ Asked(r, "password")
  /\ \E e \in Emails : \E u \in UsersByEmail(e) :
       Begin(r, "password", "create", u, NoRef, NoEmail)
  /\ UNCHANGED rows /\ Untouched

(* createAnonymousSession.                                                 *)
Anonymous(r) ==
  /\ Asked(r, "anonymous")
  /\ \E u \in Users : /\ NewId(u)
                      /\ Begin(r, "anonymous", "insert", u, NoRef, NoEmail)
  /\ UNCHANGED rows /\ Untouched

(* Mutant: the password is consumed before it is applied.                  *)
VerifyConsumesFirst(r) ==
  /\ \E op \in {"verify", "email_change"}, o \in otps :
       /\ Asked(r, op)
       /\ ~o.consumed
       /\ Begin(r, op, "consume", o.user, o.id, o.email)
  /\ UNCHANGED rows /\ Untouched

(* handleVerify: the type is the one the request names, whatever the row   *)
(* was made for; all types but email_change do the same.                   *)
Verify(r) ==
  /\ \E op \in {"verify", "email_change"}, o \in otps :
       /\ Asked(r, op)
       /\ ~o.consumed
       /\ Begin(r, op, "confirm", o.user, o.id, o.email)
  /\ UNCHANGED rows /\ Untouched

(* handleSignup, handleOTP, handleAdminCreateUser: no row found, so a new  *)
(* id is made.  Creation by an administrator ignores deleted accounts.     *)
NewAccount(r) ==
  /\ \E op \in {"signup", "otp", "admin_create"}, e \in Emails, u \in Users :
       /\ Asked(r, op)
       /\ IF op = "admin_create" THEN \A w \in UsersByEmail(e) : ~Live(w)
                                 ELSE UsersByEmail(e) = {}
       /\ NewId(u)
       /\ Begin(r, op, "insert", u, NoRef, e)
  /\ UNCHANGED rows /\ Untouched

(* Mutant: only a password that was sent before is sent again.             *)
SendOtpAgain(r) ==
  /\ \E op \in {"otp", "recover", "resend", "link_change"}, e \in Emails :
       /\ Asked(r, op)
       /\ \E u \in UsersByEmail(e) : /\ \E o \in otps : o.user = u
                                    /\ Begin(r, op, "mail", u, NoRef, e)
  /\ UNCHANGED rows /\ Untouched

(* handleOTP, handleRecover, handleResend, handleGenerateLink for an       *)
(* account that exists.                                                    *)
SendOtp(r) ==
  /\ \E op \in {"otp", "recover", "resend", "link_change"}, e \in Emails :
       /\ Asked(r, op)
       /\ \E u \in UsersByEmail(e) : Begin(r, op, "mail", u, NoRef, e)
  /\ UNCHANGED rows /\ Untouched

(* handleUpdateUser with a new email; handleAdminUpdateUser, with or       *)
(* without an email.                                                       *)
UpdateUser(r) ==
  /\ \E op \in {"update", "admin_update"}, u \in Users, e \in Emails \cup {NoEmail} :
       /\ Asked(r, op)
       /\ Live(u) /\ (op = "update" => e \notin {account[u].email, NoEmail})
       /\ Begin(r, op, "update", u, NoRef, e)
  /\ UNCHANGED rows /\ Untouched

(* handleLogout.  The access token names the account, not the session, so  *)
(* local and others act on the most recent session.  Global is a single    *)
(* statement.                                                              *)
LogoutGlobal(r) ==
  /\ Asked(r, "logout_global")
  /\ \E s \in sessions : s.id \in wallet /\ sessions' = Revoke(ActiveSessions(s.user))
  /\ UNCHANGED <<account, otps, issued, req>> /\ Untouched

LogoutLocal(r) ==
  /\ Asked(r, "logout_local")
  /\ \E s \in sessions :
       /\ s.id \in wallet
       /\ \E t \in MostRecent(s.user) :
            Begin(r, "logout_local", "revoke", s.user, t.id, NoEmail)
  /\ UNCHANGED rows /\ Untouched

LogoutOthers(r) ==
  /\ Asked(r, "logout_others")
  /\ \E s \in sessions :
       /\ s.id \in wallet
       /\ \/ \E t \in MostRecent(s.user) :
               Begin(r, "logout_others", "revoke_others", s.user, t.id, NoEmail)
          \/ /\ MostRecent(s.user) = {}
             /\ Begin(r, "logout_others", "revoke_others", s.user, NoRef, NoEmail)
  /\ UNCHANGED rows /\ Untouched

(* handleAdminDeleteUser.                                                  *)
DeleteUser(r) ==
  /\ \E u \in Users :
       /\ Live(u)
       /\ \/ /\ Asked(r, "admin_soft_delete")
             /\ Begin(r, "admin_soft_delete", "soft_delete", u, NoRef, NoEmail)
          \/ /\ Asked(r, "admin_hard_delete")
             /\ Begin(r, "admin_hard_delete", "delete_user", u, NoRef, NoEmail)
  /\ UNCHANGED rows /\ Untouched

(***************************************************************************)
(* The statements that follow.                                             *)
(***************************************************************************)

(* Mutant: only the emails of confirmed accounts are unique.               *)
TakenIfConfirmed(e, u) ==
  e # NoEmail /\ \E w \in UsersByEmail(e) : w # u /\ account[w].confirmed

(* Another row has the email: the UNIQUE constraint fails the statement.   *)
Taken(e, u) == e # NoEmail /\ \E w \in UsersByEmail(e) : w # u

InsertUser(r) ==
  LET u == req[r].user
      e == req[r].email
      op == req[r].op
      New(confirmed) ==
        account' = [account EXCEPT ![u] =
                      [state |-> "live", email |-> e, confirmed |-> confirmed]]
  IN  /\ At(r, "insert")
      /\ \/ /\ Taken(e, u)
            /\ Done(r) /\ UNCHANGED <<account, proven>>
         \/ /\ ~Taken(e, u) /\ op = "admin_create"
            /\ \E c \in BOOLEAN :
                 New(c) /\ proven' = IF c THEN proven \cup {<<u, e>>} ELSE proven
            /\ Done(r)
         \/ /\ ~Taken(e, u) /\ op # "admin_create"
            /\ New(FALSE) /\ UNCHANGED proven
            /\ Goto(r, IF op = "anonymous" THEN "create"
                       ELSE IF op = "signup" /\ AutoConfirm THEN "confirm" ELSE "mail")
      /\ UNCHANGED <<sessions, otps, issued, wallet, deaths, changes>>

(* The account is confirmed; with email_change it also gets the address    *)
(* that the row of the password carries.                                   *)
Confirm(r) ==
  LET u == req[r].user
      e == req[r].email
      change == req[r].op = "email_change"
  IN  /\ At(r, "confirm")
      /\ IF change /\ HasRow(u) /\ Taken(e, u)
           THEN Done(r) /\ UNCHANGED <<account, proven>>
           ELSE /\ account' = IF ~HasRow(u) THEN account
                              ELSE [account EXCEPT ![u].confirmed = TRUE,
                                      ![u].email = IF change THEN e ELSE @]
                /\ proven' = proven \cup {<<u, e>>}
                /\ Goto(r, IF req[r].op = "signup" THEN "check" ELSE "consume")
      /\ UNCHANGED <<sessions, otps, issued, wallet, deaths, changes>>

Consume(r) ==
  /\ At(r, "consume")
  /\ otps' = {IF o.id = req[r].ref THEN [o EXCEPT !.consumed = TRUE] ELSE o : o \in otps}
  /\ Goto(r, "check")
  /\ UNCHANGED <<account, sessions, issued>> /\ Untouched

(* createFullSession reads the account before it makes a session.          *)
CheckUser(r) ==
  /\ At(r, "check")
  /\ IF Live(req[r].user) THEN Goto(r, "create") ELSE Done(r)
  /\ UNCHANGED rows /\ Untouched

(* createSession.                                                          *)
CreateSession(r) ==
  LET id == issued["session"] + 1
  IN  /\ At(r, "create")
      /\ sessions' = sessions \cup
           {[id |-> id, user |-> req[r].user, op |-> req[r].op, ref |-> req[r].ref,
             revoked |-> FALSE]}
      /\ issued' = [issued EXCEPT !["session"] = id]
      /\ req' = [req EXCEPT ![r].pc = "answer", ![r].ref = id]
      /\ UNCHANGED <<account, otps>> /\ Untouched

(* buildSessionResponse: an account that is not live gets an error.        *)
Answer(r) ==
  /\ At(r, "answer")
  /\ wallet' = IF Live(req[r].user) THEN wallet \cup {req[r].ref} ELSE wallet
  /\ Done(r)
  /\ UNCHANGED <<rows, deaths, proven, changes>>

(* revokeSession, revokeAllSessions.                                       *)
RevokeOne(r) ==
  /\ At(r, "revoke")
  /\ sessions' = Revoke({s \in sessions : s.id = req[r].ref})
  /\ IF req[r].op = "refresh" THEN Goto(r, "create") ELSE Done(r)
  /\ UNCHANGED <<account, otps, issued>> /\ Untouched

RevokeOthers(r) ==
  /\ At(r, "revoke_others")
  /\ sessions' = Revoke({s \in ActiveSessions(req[r].user) : s.id # req[r].ref})
  /\ Done(r)
  /\ UNCHANGED <<account, otps, issued>> /\ Untouched

OtpRow(id, u, e) == [id |-> id, user |-> u, email |-> e, consumed |-> FALSE]

(* The password is stored with the email of the request, for an email      *)
(* change too.                                                             *)
Mail(r) ==
  LET id == issued["otp"] + 1
      u == req[r].user
  IN  /\ At(r, "mail")
      /\ otps' = otps \cup {OtpRow(id, u, req[r].email)}
      /\ issued' = [issued EXCEPT !["otp"] = id]
      /\ IF req[r].op = "link_change"
           THEN \E e \in Emails : changes' = changes \cup {[otp |-> id, user |-> u, to |-> e]}
           ELSE UNCHANGED changes
      /\ Done(r)
      /\ UNCHANGED <<account, sessions, wallet, deaths, proven>>

(* A new email is unconfirmed unless an administrator says otherwise, who  *)
(* may also confirm the email that is there.                               *)
Update(r) ==
  LET u == req[r].user
      e == IF req[r].email = NoEmail THEN account[u].email ELSE req[r].email
  IN  /\ At(r, "update")
      /\ Done(r)
      /\ \/ (~HasRow(u) \/ Taken(e, u)) /\ UNCHANGED <<account, proven>>
         \/ /\ HasRow(u) /\ ~Taken(e, u)
            /\ \E c \in BOOLEAN :
                 /\ c => req[r].op = "admin_update"
                 /\ ~c => req[r].email # NoEmail
                 /\ account' = [account EXCEPT ![u].email = e, ![u].confirmed = c]
                 /\ proven' = IF c THEN proven \cup {<<u, e>>} ELSE proven
      /\ UNCHANGED <<sessions, otps, issued, wallet, deaths, changes>>

SetState(u, state) ==
  account' = IF HasRow(u) THEN [account EXCEPT ![u].state = state] ELSE account

SoftDelete(r) ==
  /\ At(r, "soft_delete")
  /\ SetState(req[r].user, "soft") /\ Done(r)
  /\ UNCHANGED <<sessions, otps, issued>> /\ Untouched

HardDeleteUser(r) ==
  /\ At(r, "delete_user")
  /\ SetState(req[r].user, "gone") /\ Goto(r, "delete_sessions")
  /\ UNCHANGED <<sessions, otps, issued>> /\ Untouched

HardDeleteSessions(r) ==
  /\ At(r, "delete_sessions")
  /\ sessions' = {s \in sessions : s.user # req[r].user}
  /\ Goto(r, "delete_otps")
  /\ UNCHANGED <<account, otps, issued>> /\ Untouched

HardDeleteOtps(r) ==
  /\ At(r, "delete_otps")
  /\ otps' = {o \in otps : o.user # req[r].user}
  /\ Done(r)
  /\ UNCHANGED <<account, sessions, issued>> /\ Untouched

(* A statement fails, or the worker dies.                                  *)
Die(r) ==
  /\ req[r] # Idle /\ deaths < MaxDeaths
  /\ deaths' = deaths + 1
  /\ Done(r)
  /\ UNCHANGED <<rows, wallet, proven, changes>>

-----------------------------------------------------------------------------
Start(r) ==
  \/ Refresh(r) \/ Password(r) \/ Anonymous(r) \/ Verify(r) \/ NewAccount(r)
  \/ SendOtp(r) \/ UpdateUser(r) \/ LogoutGlobal(r) \/ LogoutLocal(r)
  \/ LogoutOthers(r) \/ DeleteUser(r)

Continue(r) ==
  \/ InsertUser(r) \/ Confirm(r) \/ Consume(r) \/ CheckUser(r) \/ CreateSession(r)
  \/ Answer(r) \/ RevokeOne(r) \/ RevokeOthers(r) \/ Mail(r) \/ Update(r)
  \/ SoftDelete(r) \/ HardDeleteUser(r) \/ HardDeleteSessions(r) \/ HardDeleteOtps(r)

Next == \E r \in Requests : Start(r) \/ Continue(r) \/ Die(r)

Spec == Init /\ [][Next]_vars

-----------------------------------------------------------------------------
(* A grant is used up before what it buys exists: the refresh token a      *)
(* session was exchanged for is revoked, the one-time password consumed,   *)
(* wherever a request stopped and whoever raced with it.                   *)
GrantUsedUp ==
  \A s \in sessions :
    /\ s.op = "refresh" => \A t \in sessions : t.id = s.ref => t.revoked
    /\ s.op \in {"verify", "email_change"} =>
         \A o \in otps : o.id = s.ref => o.consumed

(* A one-time password is used up only once it has taken effect: a request *)
(* that dies leaves the password usable or the account confirmed.          *)
UsedUpTookEffect ==
  \A o \in otps : o.consumed => <<o.user, o.email>> \in proven

(* An email is the address of one account, deleted softly or not, although *)
(* every handler looks first and writes later: findUserByEmail relies on   *)
(* it when it takes the first row.                                         *)
EmailIdentifiesAccount ==
  \A e \in Emails : \A u, w \in UsersByEmail(e) : u = w

(* Signing up that fails half way is not the end: the account can still be *)
(* confirmed, although signing up again is refused.                        *)
EventuallyConfirmed ==
  \A u \in Users : Live(u) ~> account[u].confirmed

-----------------------------------------------------------------------------
AllIdle == \A r \in Requests : req[r] = Idle

(* "Apply email change": once the password of an email-change link has     *)
(* been used to change the email, the account has the address asked for.   *)
EmailChangeApplied ==
  AllIdle => \A c \in changes : \A s \in sessions :
    s.op = "email_change" /\ s.ref = c.otp => account[c.user].email = c.to
=============================================================================
