--------------------------- MODULE ExternalLogin ---------------------------
(***************************************************************************)
(* Logging in at a provider (tableAuthExtension.ts).  The browser is sent  *)
(* to the provider with a random value that it also keeps in a cookie, and *)
(* comes back with that value and a code; or the page of the provider      *)
(* posts a credential, with such a value in the form and in a cookie.  The *)
(* address the provider answers for is looked up, and an account is made   *)
(* when there is none.                                                     *)
(*                                                                         *)
(* A link can be opened twice or in another browser, requests overlap and  *)
(* fail, and answers arrive late or never.  A login names its random       *)
(* value.  The session that is created is the matter of TableSessions.     *)
(***************************************************************************)
EXTENDS Naturals, FiniteSets

CONSTANTS
  Browsers, Logins,
  Callbacks,   \* requests under way that bring a browser back
  Addresses,   \* the addresses that providers answer for
  Mailboxes,   \* ... as normalizeEmail writes them
  Accounts,    \* ids of rows
  Usernames,
  None,
  Normalized,  \* [Addresses -> Mailboxes]: several spellings are one address
  BaseName,    \* [Addresses -> Usernames]: the name an account would get
  Claims,      \* [Addresses -> ...]: what the provider says of the address
  Blocked,     \* emails of blocked domains
  maxRetries   \* how many names are tried for a new account

AccountRow == [email : Mailboxes, username : Usernames]

ASSUME ExternalLoginAssumption ==
  /\ None \notin Browsers \cup Logins \cup Addresses \cup Mailboxes \cup Accounts \cup AccountRow
  /\ Normalized \in [Addresses -> Mailboxes] /\ BaseName \in [Addresses -> Usernames]
  /\ Claims \in [Addresses -> {"verified", "unverified", "silent"}]
  /\ Blocked \subseteq Mailboxes
  /\ maxRetries \in Nat \ {0}

VARIABLES
  jar,       \* the cookies of a browser, and the last login it began
  login,     \* what became of a login at the provider
  request,   \* the requests that bring a browser back
  user,      \* the rows of the user table
  overtaken  \* history: logins whose cookie went with another answer, or expired

externalVars == <<jar, login, request, user, overtaken>>

Kinds == {"oauth", "form"}
NotBegun == [kind |-> "oauth", browser |-> None, address |-> None, spent |-> FALSE]
NoRequest == [at |-> "idle", login |-> None, browser |-> None, cookie |-> None,
              deletes |-> FALSE, tries |-> 0, user |-> None]

Returned == {"received", "exchange", "decode", "find", "insert", "answer", "refused", "conflict"}

CookieJar == [oauth_state : Logins \cup {None}, g_csrf_token : Logins \cup {None},
              auth : Accounts \cup {None}, latest : Logins \cup {None}]
AtProvider == [kind : Kinds, browser : Browsers \cup {None}, address : Addresses \cup {None},
               spent : BOOLEAN]
Callback == [at : Returned \cup {"idle"}, login : Logins \cup {None},
             browser : Browsers \cup {None}, cookie : Logins \cup {None}, deletes : BOOLEAN,
             tries : 0 .. maxRetries - 1, user : Accounts \cup {None}]

ExternalTypeOK ==
  /\ jar \in [Browsers -> CookieJar] /\ login \in [Logins -> AtProvider]
  /\ request \in [Callbacks -> Callback] /\ user \in [Accounts -> AccountRow \cup {None}]
  /\ overtaken \subseteq Logins

ExternalInit ==
  /\ jar = [b \in Browsers |-> [oauth_state |-> None, g_csrf_token |-> None,
                                auth |-> None, latest |-> None]]
  /\ login = [l \in Logins |-> NotBegun]
  /\ request = [r \in Callbacks |-> NoRequest]
  /\ user = [u \in Accounts |-> None]
  /\ overtaken = {}

Is(r, at) == request[r].at = at
Turn(r, at) == request' = [request EXCEPT ![r].at = at]
Began(l) == login[l].browser # None

-----------------------------------------------------------------------------
(* The answer sends the browser to the provider and sets the cookie.       *)
oauthAuthorize(l, b) ==
  /\ ~Began(l)
  /\ login' = [login EXCEPT ![l] = [NotBegun EXCEPT !.browser = b]]
  /\ jar' = [jar EXCEPT ![b].oauth_state = l, ![b].latest = l]
  /\ UNCHANGED <<request, user, overtaken>>

(* The script of the provider puts its own cookie next to the form.        *)
ShowForm(l, b) ==
  /\ ~Began(l)
  /\ login' = [login EXCEPT ![l] = [NotBegun EXCEPT !.kind = "form", !.browser = b]]
  /\ jar' = [jar EXCEPT ![b].g_csrf_token = l]
  /\ UNCHANGED <<request, user, overtaken>>

SignInAtProvider(l, a) ==
  /\ Began(l) /\ login[l].address = None
  /\ login' = [login EXCEPT ![l].address = a]
  /\ UNCHANGED <<jar, request, user, overtaken>>

(* The cookie of oauthAuthorize lives ten minutes.                         *)
Expire(b) ==
  /\ jar[b].oauth_state # None
  /\ jar' = [jar EXCEPT ![b].oauth_state = None]
  /\ overtaken' = overtaken \cup {jar[b].oauth_state}
  /\ UNCHANGED <<login, request, user>>

logout(b) ==
  /\ jar[b].auth # None
  /\ jar' = [jar EXCEPT ![b].auth = None]
  /\ UNCHANGED <<login, request, user, overtaken>>

(* A browser follows the redirect, or posts the form, with the cookie it   *)
(* has now; it may be another one than the login was begun in.             *)
Return(r, l, b) ==
  /\ Is(r, "idle") /\ login[l].address # None
  /\ request' = [request EXCEPT ![r] =
       [NoRequest EXCEPT !.at = "received", !.login = l, !.browser = b,
          !.cookie = IF login[l].kind = "oauth" THEN jar[b].oauth_state ELSE jar[b].g_csrf_token]]
  /\ UNCHANGED <<jar, login, user, overtaken>>

-----------------------------------------------------------------------------
(* Mutant: any cookie will do.                                             *)
MatchesAnyCookie(cookie, l) == cookie # None

Matches(cookie, l) == cookie # None /\ cookie = l

(* Mutant: the cookie is deleted before it is compared.                    *)
DeletesAlways(matched) == TRUE

(* The cookie is deleted when it was the right one, with whatever is       *)
(* answered in the end.                                                    *)
Deletes(matched) == matched

(* oauthCallback and loginWithGoogleToken, up to their first await.        *)
CheckState(r) ==
  LET l == request[r].login
      matched == Matches(request[r].cookie, l)
      oauth == login[l].kind = "oauth"
  IN  /\ Is(r, "received")
      /\ request' = [request EXCEPT
           ![r].deletes = oauth /\ Deletes(matched),
           ![r].at = IF ~matched THEN "refused" ELSE IF oauth THEN "exchange" ELSE "decode"]
      /\ UNCHANGED <<jar, login, user, overtaken>>

normalizeEmail(a) == Normalized[a]
checkBlocklist(e) == e \notin Blocked

Email(r) == normalizeEmail(login[request[r].login].address)
Vouched(r) == Claims[login[request[r].login].address] # "unverified"

(* _builtinOAuthExchange: the provider takes a code once.                  *)
Exchange(r) ==
  LET l == request[r].login
  IN  /\ Is(r, "exchange")
      /\ login' = [login EXCEPT ![l].spent = TRUE]
      /\ Turn(r, IF ~login[l].spent /\ Vouched(r) THEN "find" ELSE "refused")
      /\ UNCHANGED <<jar, user, overtaken>>

(* _loginWithToken: a credential can be presented again.                   *)
DecodeCredential(r) ==
  /\ Is(r, "decode")
  /\ Turn(r, IF Vouched(r) THEN "find" ELSE "refused")
  /\ UNCHANGED <<jar, login, user, overtaken>>

UserOf(e) == {u \in Accounts : user[u] # None /\ user[u].email = e}

(* _loginWithExternalUser, with findUser.                                  *)
FindUser(r) ==
  /\ Is(r, "find")
  /\ \/ ~checkBlocklist(Email(r)) /\ Turn(r, "refused")
     \/ checkBlocklist(Email(r)) /\ UserOf(Email(r)) = {} /\ Turn(r, "insert")
     \/ /\ checkBlocklist(Email(r))
        /\ \E u \in UserOf(Email(r)) :
             request' = [request EXCEPT ![r].at = "answer", ![r].user = u]
  /\ UNCHANGED <<jar, login, user, overtaken>>

-----------------------------------------------------------------------------
(* The UNIQUE columns that a new row would repeat; the error names one.    *)
Repeats(e, n) ==
  {column \in {"email", "username"} :
     \E u \in Accounts : /\ user[u] # None
                         /\ IF column = "email" THEN user[u].email = e
                                                ELSE user[u].username = n}

InsertAccount(u, e, n) ==
  /\ user[u] = None /\ Repeats(e, n) = {}
  /\ user' = [user EXCEPT ![u] = [email |-> e, username |-> n]]

(* signUp with a password, of anyone.                                      *)
SignUp(u, e, n) ==
  /\ checkBlocklist(e)
  /\ InsertAccount(u, e, n)
  /\ UNCHANGED <<jar, login, request, overtaken>>

TriesAgain(column, tries) == column = "username" /\ tries + 1 < maxRetries

(* A first name, then names with a random ending.                          *)
NameTried(r) ==
  LET base == BaseName[login[request[r].login].address]
  IN  IF request[r].tries = 0 THEN {base} ELSE Usernames \ {base}

(* One attempt of _createUserToken.                                        *)
CreateUserToken(r) ==
  /\ Is(r, "insert")
  /\ \E n \in NameTried(r) :
       \/ \E u \in Accounts :
            /\ InsertAccount(u, Email(r), n)
            /\ request' = [request EXCEPT ![r].at = "answer", ![r].user = u]
       \/ /\ \E column \in Repeats(Email(r), n) :
               IF TriesAgain(column, request[r].tries)
               THEN request' = [request EXCEPT ![r].tries = @ + 1]
               ELSE Turn(r, "conflict")
          /\ UNCHANGED user
  /\ UNCHANGED <<jar, login, overtaken>>

-----------------------------------------------------------------------------
Ends(r) == request' = [request EXCEPT ![r] = NoRequest]

(* What the answer does to the cookies of the browser.                     *)
DeleteState(r, auth) ==
  LET b == request[r].browser
      deletes == request[r].deletes
  IN  /\ jar' = [jar EXCEPT ![b].oauth_state = IF deletes THEN None ELSE @, ![b].auth = auth]
      /\ overtaken' = IF deletes /\ Matches(request[r].cookie, request[r].login)
                      THEN overtaken \cup ({jar[b].oauth_state} \ {None}) ELSE overtaken

(* createSession and _setAuthCookie.                                       *)
LogIn(r) ==
  /\ Is(r, "answer")
  /\ DeleteState(r, request[r].user)
  /\ Ends(r)
  /\ UNCHANGED <<login, user>>

Refuse(r) ==
  /\ request[r].at \in {"refused", "conflict"}
  /\ DeleteState(r, jar[request[r].browser].auth)
  /\ Ends(r)
  /\ UNCHANGED <<login, user>>

(* A request to the provider or the database fails.                        *)
CallbackFails(r) ==
  /\ request[r].at \in {"exchange", "decode", "find", "insert", "answer"}
  /\ Turn(r, "refused")
  /\ UNCHANGED <<jar, login, user, overtaken>>

(* The answer reaches nobody.                                              *)
LoseAnswer(r) ==
  /\ request[r].at # "idle"
  /\ Ends(r)
  /\ UNCHANGED <<jar, login, user, overtaken>>

ExternalNext ==
  \/ \E l \in Logins, b \in Browsers : oauthAuthorize(l, b) \/ ShowForm(l, b)
  \/ \E l \in Logins, a \in Addresses : SignInAtProvider(l, a)
  \/ \E b \in Browsers : Expire(b) \/ logout(b)
  \/ \E u \in Accounts, e \in Mailboxes, n \in Usernames : SignUp(u, e, n)
  \/ \E r \in Callbacks :
       \/ \E l \in Logins, b \in Browsers : Return(r, l, b)
       \/ CheckState(r) \/ Exchange(r) \/ DecodeCredential(r) \/ FindUser(r)
       \/ CreateUserToken(r) \/ LogIn(r) \/ Refuse(r) \/ CallbackFails(r) \/ LoseAnswer(r)

ExternalSpec == ExternalInit /\ [][ExternalNext]_externalVars

-----------------------------------------------------------------------------
(* Whoever a browser is logged in as signed in at a provider, in a login   *)
(* begun in that browser, with an address of that account that the         *)
(* provider did not disown (the cookie that is compared with the state,    *)
(* oauthCallback).                                                         *)
CookieOfOwnLogin ==
  \A b \in Browsers : jar[b].auth # None =>
    \E l \in Logins :
      /\ login[l].browser = b /\ login[l].address # None
      /\ Normalized[login[l].address] = user[jar[b].auth].email
      /\ Claims[login[l].address] # "unverified"

(* The login that was begun last in a browser can come back: its cookie is *)
(* there unless it expired, or an answer to a login whose cookie matched   *)
(* took it away.  A callback that is refused for its state takes nothing.  *)
LatestLoginKept ==
  \A b \in Browsers :
    jar[b].latest # None /\ jar[b].latest \notin overtaken => jar[b].oauth_state = jar[b].latest

(* A first login is turned away by the user table only when somebody made  *)
(* the account meanwhile, or every name it was allowed to try was taken.   *)
ConflictHasReason ==
  \A r \in Callbacks : Is(r, "conflict") =>
    UserOf(Email(r)) # {} \/ request[r].tries = maxRetries - 1
=============================================================================
