---------------------------- MODULE TableSessions ----------------------------
(***************************************************************************)
(* The table auth extension: accounts in a user table, sessions and        *)
(* one-time tokens as values in the internal key/value table.              *)
(*                                                                         *)
(* A session is read, changed in memory and put back with INSERT OR        *)
(* REPLACE; a token is popped (DELETE ... RETURNING) and applied later; the *)
(* sessions of an account are removed after its password is updated.       *)
(* pc names the statement a request will execute next.  The fields gen and *)
(* late of a session are history: the password it goes back to, and        *)
(* whether the request that wrote it overlapped the end of the session.    *)
(***************************************************************************)
EXTENDS Integers, FiniteSets

CONSTANTS
  Users,            \* ids that new accounts may get
  Emails,
  Requests,         \* requests that may be served at the same time
  maxTokenRefresh,  \* 0 stands for no limit
  MaxIssued,        \* bound: refresh tokens ever issued
  MaxMails,         \* bound: mails ever sent
  MaxPass           \* bound: an account with that many changes starts no other

ASSUME TableSessionsAssumption ==
  /\ maxTokenRefresh \in Nat /\ MaxIssued \in Nat /\ MaxMails \in Nat
  /\ MaxPass \in Nat

VARIABLES
  account,    \* the rows of the user table; pass numbers the passwords
  sessions,   \* the values under '@session_<table><user>_<id>'
  tokens,     \* the values under '@token_<token>'
  cooling,    \* the keys '@email_verification_sent_at_', '@password_reset_sent_at_'
  issued,     \* how many refresh tokens were issued
  mailed,     \* how many mails were sent
  wallet,     \* what clients were handed: [user, id, tok]
  req,        \* the state of each request
  ended,      \* history: the sessions that were removed
  unfinished, \* history: accounts whose password changed and no session ended:
              \* the request died before, or the record was edited
  spent,      \* history: the tokens that took effect
  proven      \* history: the accounts whose address was shown to be theirs

store == <<account, sessions, tokens, cooling, issued, mailed, wallet>>
vars == <<store, req, ended, unfinished, spent, proven>>

NoUser == "none"
NoSession == [id |-> 0, user |-> NoUser, tok |-> 0, rc |-> 0, gen |-> 0,
              late |-> FALSE]
NoToken == [id |-> 0, user |-> NoUser, typ |-> "none"]
Idle == [op |-> "none", pc |-> "idle", user |-> NoUser, session |-> NoSession,
         token |-> NoToken, late |-> FALSE]

Typs == {"verify_email", "reset_password"}
Account == [state : {"none", "live", "gone"}, email : Emails, verified : BOOLEAN, pass : Nat]
Session == [id : Nat, user : Users \cup {NoUser}, tok : Nat, rc : Nat, gen : Nat,
            late : BOOLEAN]
Token == [id : Nat, user : Users, typ : Typs]
Request ==
  [op : {"none", "sign_up", "login", "external", "refresh", "change", "verify",
         "reset", "mail"},
   pc : {"idle", "insert", "put", "password", "invalidate", "cooldown", "mail",
         "store", "find", "verified"},
   user : Users \cup {NoUser}, session : Session, token : Token \cup {NoToken},
   late : BOOLEAN]

TypeOK ==
  /\ account \in [Users -> Account]
  /\ sessions \subseteq Session
  /\ tokens \subseteq Token
  /\ cooling \subseteq Users \X Typs
  /\ issued \in Nat /\ mailed \in Nat
  /\ wallet \subseteq [user : Users, id : Nat, tok : Nat]
  /\ req \in [Requests -> Request]
  /\ ended \subseteq Nat /\ unfinished \subseteq Users
  /\ spent \subseteq Token /\ proven \subseteq Users

(* Ids are random, so the address a new one is for may be chosen first.    *)
Init ==
  /\ \E e \in [Users -> Emails] : account =
       [u \in Users |-> [state |-> "none", email |-> e[u], verified |-> FALSE, pass |-> 0]]
  /\ sessions = {} /\ tokens = {} /\ cooling = {} /\ issued = 0 /\ mailed = 0
  /\ wallet = {} /\ req = [r \in Requests |-> Idle]
  /\ ended = {} /\ unfinished = {} /\ spent = {} /\ proven = {}

-----------------------------------------------------------------------------
Live(u) == u \in Users /\ account[u].state = "live"

(* findUser: the row that has the email.                                   *)
UsersByEmail(e) == {u \in Users : Live(u) /\ account[u].email = e}

(* A random id.                                                            *)
NewId(u) == account[u].state = "none" /\ \A r \in Requests : req[r].user # u

NewSession(u) == [NoSession EXCEPT !.user = u, !.gen = account[u].pass]

(* The bounds hold back new requests, never one that is under way.         *)
MakesToken == {"sign_up", "login", "external", "refresh", "verify", "reset"}
Pending(ops) == Cardinality({r \in Requests : req[r].op \in ops})

Asked(r, op) ==
  /\ req[r] = Idle
  /\ op \in MakesToken => issued + Pending(MakesToken) < MaxIssued

MailLeft ==
  mailed + Cardinality({r \in Requests : req[r].pc \in {"cooldown", "mail"}}) < MaxMails

At(r, pc) == req[r].pc = pc
Goto(r, pc) == req' = [req EXCEPT ![r].pc = pc]
Done(r) == req' = [req EXCEPT ![r] = Idle]
Begin(r, op, pc, u, s) ==
  req' = [req EXCEPT ![r] = [Idle EXCEPT !.op = op, !.pc = pc, !.user = u, !.session = s]]

History == UNCHANGED <<ended, unfinished, spent, proven>>

TokenFor(u, typ) == [id |-> 0, user |-> u, typ |-> typ]

(***************************************************************************)
(* Sessions.                                                               *)
(***************************************************************************)
Insert(u, verified) ==
  account' = [account EXCEPT ![u].state = "live", ![u].verified = verified]

Taken(u) == UsersByEmail(account[u].email) # {}

(* signUp: the UNIQUE email refuses a second account.                      *)
SignUp(r) ==
  /\ Asked(r, "sign_up")
  /\ \E u \in Users :
       /\ NewId(u) /\ ~Taken(u)
       /\ Insert(u, FALSE)
       /\ Begin(r, "sign_up", "put", u, [NoSession EXCEPT !.user = u])
  /\ UNCHANGED <<sessions, tokens, cooling, issued, mailed, wallet>> /\ History

(* loginWithPassword, with the right password.                             *)
Login(r) ==
  /\ Asked(r, "login")
  /\ \E u \in Users : Live(u) /\ Begin(r, "login", "put", u, NewSession(u))
  /\ UNCHANGED store /\ History

(* _loginWithExternalUser: the account is found, or made in a later step.  *)
ExternalLogin(r) ==
  /\ Asked(r, "external")
  /\ \E u \in Users :
       \/ Live(u) /\ Begin(r, "external", "put", u, NewSession(u))
       \/ NewId(u) /\ ~Taken(u) /\ Begin(r, "external", "insert", u, NoSession)
  /\ UNCHANGED store /\ History

CreateUserToken(r) ==
  LET u == req[r].user
  IN  /\ At(r, "insert")
      /\ \/ Taken(u) /\ Done(r) /\ UNCHANGED <<account, proven>>
         \/ /\ ~Taken(u)
            /\ Insert(u, TRUE)
            /\ proven' = proven \cup {u}
            /\ req' = [req EXCEPT ![r].pc = "put",
                                  ![r].session = [NoSession EXCEPT !.user = u]]
      /\ UNCHANGED <<sessions, tokens, cooling, issued, mailed, wallet,
                     ended, unfinished, spent>>

(* Mutant: the session is taken from the client.                           *)
RefreshUnread(r) ==
  /\ Asked(r, "refresh")
  /\ \E w \in wallet :
       /\ Live(w.user)
       /\ Begin(r, "refresh", "put", w.user,
                [NewSession(w.user) EXCEPT !.id = w.id, !.tok = w.tok])
  /\ UNCHANGED store /\ History

(* refreshSession: the session the client names must exist, be of its      *)
(* account, have its token and be refreshed fewer times than allowed.      *)
MayRefresh(s, w) ==
  /\ s.id = w.id /\ s.user = w.user
  /\ s.tok = w.tok
  /\ maxTokenRefresh = 0 \/ s.rc < maxTokenRefresh

(* refreshToken: the account the access token names must exist.            *)
Refresh(r) ==
  /\ Asked(r, "refresh")
  /\ \E w \in wallet : \E s \in sessions :
       /\ MayRefresh(s, w) /\ Live(s.user)
       /\ Begin(r, "refresh", "put", s.user, s)
  /\ UNCHANGED store /\ History

(* _refreshSession: the one write of createSession and of refreshSession.  *)
(* A sign-up answers then, and may mail a verification token afterwards    *)
(* (autoSendVerificationEmail).                                            *)
PutSession(r) ==
  LET s == req[r].session
      tok == issued + 1
      new == [s EXCEPT !.id = IF @ = 0 THEN tok ELSE @, !.tok = tok, !.rc = @ + 1,
                       !.late = @ \/ req[r].late]
  IN  /\ At(r, "put")
      /\ issued' = tok
      /\ sessions' = {x \in sessions : x.id # new.id} \cup {new}
      /\ wallet' = wallet \cup {[user |-> s.user, id |-> new.id, tok |-> tok]}
      /\ \/ Done(r)
         \/ /\ req[r].op = "sign_up" /\ MailLeft
            /\ req' = [req EXCEPT ![r].pc = "cooldown", ![r].session = NoSession,
                                  ![r].token = TokenFor(s.user, "verify_email")]
      /\ UNCHANGED <<account, tokens, cooling, mailed>> /\ History

(* History: these requests will write a session that was ended meanwhile.  *)
MarkLate(late) == [r \in Requests |-> [req[r] EXCEPT !.late = @ \/ r \in late]]

(* logout: the access token need not belong to a session that exists.      *)
Logout ==
  /\ \E w \in wallet :
       /\ sessions' = {s \in sessions : s.id # w.id}
       /\ ended' = ended \cup {w.id}
       /\ req' = MarkLate({r \in Requests : At(r, "put") /\ req[r].session.id = w.id})
  /\ UNCHANGED <<account, tokens, cooling, issued, mailed, wallet,
                 unfinished, spent, proven>>

(***************************************************************************)
(* Passwords.                                                              *)
(***************************************************************************)

(* changePassword finds the account by the email of the access token; the  *)
(* session of the caller is kept in the request as the one to except.      *)
ChangePassword(r) ==
  /\ Asked(r, "change")
  /\ \E w \in wallet : \E u \in UsersByEmail(account[w.user].email) :
       /\ account[u].pass < MaxPass
       /\ Begin(r, "change", "password", u, [NoSession EXCEPT !.id = w.id, !.user = u])
  /\ UNCHANGED store /\ History

(* updateUser; a reset also verifies the address.                          *)
SetPassword(r) ==
  LET u == req[r].user
      reset == req[r].op = "reset"
  IN  /\ At(r, "password")
      /\ IF Live(u)
           THEN /\ account' = [account EXCEPT ![u].pass = @ + 1,
                                 ![u].verified = @ \/ reset]
                /\ req' = [req EXCEPT ![r].pc = "invalidate",
                                      ![r].session.gen = account[u].pass + 1]
                /\ spent' = IF reset THEN spent \cup {req[r].token} ELSE spent
                /\ proven' = IF reset THEN proven \cup {u} ELSE proven
           ELSE Done(r) /\ UNCHANGED <<account, spent, proven>>
      /\ UNCHANGED <<sessions, tokens, cooling, issued, mailed, wallet,
                     ended, unfinished>>

(* removeByPrefix.                                                         *)
Removed(u, except) == {s \in sessions : s.user = u /\ s.id # except}

(* _invalidateAllUserSessions.  The session that is excepted goes back to  *)
(* the new password from now on.                                           *)
Invalidate(r) ==
  LET u == req[r].user
      gone == Removed(u, req[r].session.id)
      gen == req[r].session.gen
      late == {p \in Requests \ {r} : req[p].user = u /\
                 (At(p, "put") \/ (At(p, "invalidate") /\ req[p].op = "reset"))}
  IN  /\ At(r, "invalidate")
      /\ sessions' = {IF s.id = req[r].session.id /\ s.user = u /\ s.gen < gen
                        THEN [s EXCEPT !.gen = gen] ELSE s : s \in sessions \ gone}
      /\ ended' = ended \cup {s.id : s \in gone}
      /\ req' = [MarkLate(late) EXCEPT ![r] =
                   IF req[r].op = "change" THEN Idle ELSE [req[r] EXCEPT !.pc = "put"]]
      /\ UNCHANGED <<account, tokens, cooling, issued, mailed, wallet,
                     unfinished, spent, proven>>

(* onUpdateParse: a password written with the record, by an administrator  *)
(* or along with the current one, is hashed and stored; no session ends.   *)
EditPassword ==
  /\ \E u \in Users :
       /\ Live(u) /\ account[u].pass < MaxPass
       /\ account' = [account EXCEPT ![u].pass = @ + 1]
       /\ unfinished' = unfinished \cup {u}
  /\ UNCHANGED <<sessions, tokens, cooling, issued, mailed, wallet, req, ended,
                 spent, proven>>

(***************************************************************************)
(* Mails and their tokens.                                                 *)
(***************************************************************************)

(* requestVerification, requestPasswordReset.                              *)
RequestMail(r) ==
  /\ Asked(r, "mail") /\ MailLeft
  /\ \E u \in Users, typ \in Typs :
       /\ Live(u) /\ (typ = "verify_email" => ~account[u].verified)
       /\ req' = [req EXCEPT ![r] = [Idle EXCEPT !.op = "mail", !.pc = "cooldown",
                                       !.user = u, !.token = TokenFor(u, typ)]]
  /\ UNCHANGED store /\ History

(* Nothing is sent while the last mail is too recent.                      *)
CheckCooldown(r) ==
  LET t == req[r].token
  IN  /\ At(r, "cooldown")
      /\ IF <<t.user, t.typ>> \in cooling THEN Done(r) ELSE Goto(r, "mail")
      /\ UNCHANGED store /\ History

(* The mail is sent before its token is stored.                            *)
SendMail(r) ==
  /\ At(r, "mail")
  /\ mailed' = mailed + 1
  /\ req' = [req EXCEPT ![r].pc = "store", ![r].token.id = mailed + 1]
  /\ UNCHANGED <<account, sessions, tokens, cooling, issued, wallet>> /\ History

StoreToken(r) ==
  LET t == req[r].token
  IN  /\ At(r, "store")
      /\ tokens' = tokens \cup {t}
      /\ cooling' = cooling \cup {<<t.user, t.typ>>}
      /\ Done(r)
      /\ UNCHANGED <<account, sessions, issued, mailed, wallet>> /\ History

(* Two minutes pass.                                                       *)
CoolDown ==
  /\ \E c \in cooling : cooling' = cooling \ {c}
  /\ UNCHANGED <<account, sessions, tokens, issued, mailed, wallet, req>> /\ History

(* Mutant: the token is read and not removed.                              *)
KeepToken(t) == tokens

(* pop.                                                                    *)
Pop(t) == tokens \ {t}

(* _useToken: confirmVerification and confirmPasswordReset remove the      *)
(* token before they look at its type.                                     *)
UseToken(r) ==
  /\ \E op \in {"verify", "reset"}, t \in tokens :
       /\ Asked(r, op)
       /\ op = "reset" => account[t.user].pass < MaxPass
       /\ tokens' = Pop(t)
       /\ IF t.typ = IF op = "verify" THEN "verify_email" ELSE "reset_password"
            THEN req' = [req EXCEPT ![r] = [Idle EXCEPT !.op = op, !.pc = "find",
                                              !.token = t]]
            ELSE UNCHANGED req
  /\ UNCHANGED <<account, sessions, cooling, issued, mailed, wallet>> /\ History

(* Mutant: the account that has the address now is taken.                  *)
OwnerByEmail(t) == UsersByEmail(account[t.user].email)

(* The account that has the address of the token must be the one the token *)
(* was made for.                                                           *)
Owner(t) == {u \in UsersByEmail(account[t.user].email) : u = t.user}

FindUser(r) ==
  /\ At(r, "find")
  /\ \/ Owner(req[r].token) = {} /\ Done(r)
     \/ \E u \in Owner(req[r].token) :
          \/ /\ req[r].op = "reset"
             /\ req' = [req EXCEPT ![r].pc = "password", ![r].user = u,
                                   ![r].session = [NoSession EXCEPT !.user = u]]
          \/ /\ req[r].op = "verify" /\ account[u].verified
             /\ req' = [req EXCEPT ![r].pc = "put", ![r].user = u,
                                   ![r].session = NewSession(u)]
          \/ /\ req[r].op = "verify" /\ account[u].verified /\ Done(r)
          \/ /\ req[r].op = "verify" /\ ~account[u].verified
             /\ req' = [req EXCEPT ![r].pc = "verified", ![r].user = u]
  /\ UNCHANGED store /\ History

(* updateUser in _confirmVerification; a caller without a session gets one. *)
SetVerified(r) ==
  LET u == req[r].user
  IN  /\ At(r, "verified")
      /\ IF Live(u)
           THEN /\ account' = [account EXCEPT ![u].verified = TRUE]
                /\ spent' = spent \cup {req[r].token}
                /\ proven' = IF u = req[r].token.user THEN proven \cup {u} ELSE proven
                /\ \/ Done(r)
                   \/ req' = [req EXCEPT ![r].pc = "put", ![r].session = NewSession(u)]
           ELSE Done(r) /\ UNCHANGED <<account, spent, proven>>
      /\ UNCHANGED <<sessions, tokens, cooling, issued, mailed, wallet,
                     ended, unfinished>>

(***************************************************************************)
(* An administrator deletes an account: its sessions and tokens stay, the  *)
(* row is gone and what was said of it is of no interest any more.         *)
(***************************************************************************)
DeleteUser ==
  /\ \E u \in Users :
       /\ Live(u)
       /\ account' = [account EXCEPT ![u].state = "gone", ![u].verified = FALSE, ![u].pass = 0]
       /\ unfinished' = unfinished \ {u} /\ proven' = proven \ {u}
  /\ UNCHANGED <<sessions, tokens, cooling, issued, mailed, wallet, req, ended, spent>>

(* A statement or the mail fails, or the worker dies.                      *)
Die(r) ==
  /\ req[r] # Idle
  /\ unfinished' = IF At(r, "invalidate") THEN unfinished \cup {req[r].user} ELSE unfinished
  /\ Done(r)
  /\ UNCHANGED <<store, ended, spent, proven>>

-----------------------------------------------------------------------------
Start(r) ==
  \/ SignUp(r) \/ Login(r) \/ ExternalLogin(r) \/ Refresh(r) \/ ChangePassword(r)
  \/ RequestMail(r) \/ UseToken(r)

Continue(r) ==
  \/ CreateUserToken(r) \/ PutSession(r) \/ SetPassword(r) \/ Invalidate(r)
  \/ CheckCooldown(r) \/ SendMail(r) \/ StoreToken(r) \/ FindUser(r) \/ SetVerified(r)

Next == \/ \E r \in Requests : Start(r) \/ Continue(r) \/ Die(r)
        \/ Logout \/ EditPassword \/ CoolDown \/ DeleteUser

Spec == Init /\ [][Next]_vars

-----------------------------------------------------------------------------
(* A session that was ended, by a logout or by a new password, stays       *)
(* ended, unless the request that wrote it had read it before.             *)
EndedStaysEnded ==
  \A s \in sessions : s.id \in ended => s.late

(* "This invalidates all other sessions for the user": once a request that *)
(* changed or reset a password is answered, every session goes back to     *)
(* that password.  Where no such request was answered, because it died     *)
(* before the removal or because the record was edited, nothing is said.   *)
PasswordEndsSessions ==
  \A s \in sessions : Live(s.user) /\ s.gen < account[s.user].pass =>
    \/ s.user \in unfinished
    \/ \E r \in Requests : At(r, "invalidate") /\ req[r].user = s.user

(* A token is in the table, in the hands of one request, or used up, and   *)
(* never in two of these places: it takes effect once, whoever presents it *)
(* and however often.                                                      *)
Held(r) == IF req[r].op \in {"verify", "reset"} /\ req[r].pc \in {"find", "password", "verified"}
             THEN {req[r].token} ELSE {}

TokenTakesEffectOnce ==
  \A r \in Requests : \A t \in Held(r) :
    /\ t \notin tokens \cup spent
    /\ \A p \in Requests \ {r} : t \notin Held(p)

(* A verified account showed its address by a token made for it or by an   *)
(* external login: the tokens of a deleted account do not verify the one   *)
(* that has its address now.                                               *)
VerifiedIsProven ==
  \A u \in Users : Live(u) /\ account[u].verified => u \in proven

(* "Maximum number of times a token can be refreshed before requiring      *)
(* re-login": a session refreshed fewer times can be refreshed.  Clients   *)
(* hold one token for its creation and one for every refresh.              *)
RefreshableUntilMax ==
  maxTokenRefresh > 0 =>
    \A s \in sessions :
      Cardinality({w \in wallet : w.id = s.id}) - 1 < maxTokenRefresh
        => s.rc < maxTokenRefresh
=============================================================================
