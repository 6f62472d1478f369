------------------------ MODULE TableSessions_proofs ------------------------
(***************************************************************************)
(* Theorems about the table auth extension: for any accounts, addresses    *)
(* and number of overlapping requests, any of which may die.               *)
(***************************************************************************)
EXTENDS TableSessions, TLAPS

(* What a request has at hand before each of its statements.               *)
Shaped(q) ==
  /\ q.pc \notin {"idle", "find"} => q.user \in Users
  /\ q.pc \in {"put", "password", "invalidate"} => q.session.user = q.user
  /\ q.pc \in {"password", "invalidate"} =>
       q.op \in {"change", "reset"} /\ (q.op = "reset" => q.session.id = 0)
  /\ q.pc \in {"cooldown", "mail", "store", "find", "verified"} => q.token \in Token
  /\ q.pc = "password" /\ q.op = "reset" => q.token \in Token
  /\ q.pc \in {"find", "verified"} => q.op \in {"verify", "reset"}
  /\ q.pc = "verified" => q.token.user = q.user

TypeInv == TypeOK /\ \A r \in Requests : Shaped(req[r])

(* Clients hold every session there ever was, whose id has one owner; the  *)
(* ids of new sessions are new.                                            *)
Handed(s) == \E w \in wallet : w.id = s.id /\ w.user = s.user

OneOwner ==
  /\ \A w \in wallet : w.id \in 1 .. issued
  /\ \A v, w \in wallet : v.id = w.id => v.user = w.user
  /\ \A s \in sessions : Handed(s)
  /\ \A r \in Requests : At(r, "put") /\ req[r].session.id # 0 => Handed(req[r].session)
  /\ \A s, t \in sessions : s.id = t.id => s = t
  /\ ended \subseteq 1 .. issued

(* A session that is about to be written has not ended, unless the request *)
(* or the one before it is late.                                           *)
Late(r) == req[r].late \/ req[r].session.late

LateIfEnded ==
  \A r \in Requests : At(r, "put") /\ req[r].session.id \in ended => Late(r)

(* The account's password changed, and not by a request that is still      *)
(* going to remove the sessions: by one that died, or by an edit.          *)
Forgiven(u) ==
  \/ u \in unfinished
  \/ \E r \in Requests : /\ At(r, "invalidate") /\ req[r].user = u
                         /\ req[r].session.gen = account[u].pass

Outdated(u, gen) == Live(u) /\ gen < account[u].pass

(* LeftOver, for the one request that set the password last and for the    *)
(* sessions that are about to be written.                                  *)
OldSessions ==
  /\ \A s \in sessions : Outdated(s.user, s.gen) => s.late \/ Forgiven(s.user)
  /\ \A r \in Requests : At(r, "put") /\ Outdated(req[r].user, req[r].session.gen) =>
       Late(r) \/ Forgiven(req[r].user)
  /\ \A r \in Requests :
       At(r, "invalidate") /\ req[r].op = "reset"
         /\ Outdated(req[r].user, req[r].session.gen) => Late(r) \/ Forgiven(req[r].user)
  /\ \A u \in Users : ~Live(u) => account[u].pass = 0

SessionsInv == TypeInv /\ OneOwner /\ EndedStaysEnded /\ LateIfEnded /\ OldSessions

(* The tokens that a request is going to store, or to use.                 *)
Carried(r) == IF At(r, "store") THEN {req[r].token} ELSE Held(r)

(* A token is in one place, and the next one is new.                       *)
OnePlace ==
  /\ \A t \in tokens \cup spent : t.id <= mailed
  /\ tokens \cap spent = {}
  /\ \A r \in Requests : \A t \in Carried(r) :
       /\ t.id <= mailed /\ t \notin tokens \cup spent
       /\ \A p \in Requests \ {r} : t \notin Carried(p)

TokensInv == TypeInv /\ OnePlace

ProvenInv == TypeInv /\ VerifiedIsProven

-----------------------------------------------------------------------------
LEMMA Blanks ==
  /\ NoSession \in Session /\ Idle \in Request
  /\ NoSession.id = 0 /\ NoSession.gen = 0 /\ NoSession.late = FALSE
  /\ Idle.pc = "idle" /\ Idle.session = NoSession /\ Idle.token = NoToken
  /\ Idle.late = FALSE /\ Idle.op = "none"
BY DEF Idle, Request, NoSession, Session, NoToken, NoUser

(* The request that Begin puts down.                                       *)
Begun(op, pc, u, s) == [Idle EXCEPT !.op = op, !.pc = pc, !.user = u, !.session = s]

LEMMA BegunShaped ==
  ASSUME NEW op \in {"sign_up", "login", "external", "refresh", "change"},
         NEW pc \in {"insert", "put", "password"}, pc = "password" => op = "change",
         NEW u \in Users, NEW s \in Session, pc # "insert" => s.user = u
  PROVE  Begun(op, pc, u, s) \in Request /\ Shaped(Begun(op, pc, u, s))
BY DEF Begun, Idle, Request, Shaped

LEMMA MailShaped ==
  ASSUME NEW op \in {"mail"}, NEW u \in Users, NEW t \in Token,
         NEW q, q = [Idle EXCEPT !.op = op, !.pc = "cooldown", !.user = u, !.token = t]
  PROVE  q \in Request /\ Shaped(q)
<1>1. q.op = op /\ q.pc = "cooldown" /\ q.token = t /\ q.user = u
  BY DEF Idle
<1>2. q \in Request
  BY Blanks DEF Request
<1>. QED
  BY <1>1, <1>2 DEF Shaped

LEMMA FindShaped ==
  ASSUME NEW op \in {"verify", "reset"}, NEW t \in Token,
         NEW q, q = [Idle EXCEPT !.op = op, !.pc = "find", !.token = t]
  PROVE  q \in Request /\ Shaped(q)
<1>1. q.op = op /\ q.pc = "find" /\ q.token = t
  BY DEF Idle
<1>2. q \in Request
  BY Blanks DEF Request
<1>. QED
  BY <1>1, <1>2 DEF Shaped

LEMMA NewSessions ==
  ASSUME TypeOK, NEW u \in Users
  PROVE  /\ NewSession(u) \in Session /\ NewSession(u).user = u
         /\ NewSession(u).id = 0 /\ NewSession(u).gen = account[u].pass
         /\ NewSession(u).late = FALSE
         /\ [NoSession EXCEPT !.user = u] \in Session
         /\ TokenFor(u, "verify_email") \in Token /\ TokenFor(u, "reset_password") \in Token
BY DEF NewSession, NoSession, Session, TypeOK, Account, TokenFor, Token, Typs

(* One request goes on to a state with what it needs there.                *)
LEMMA OneMoves ==
  ASSUME TypeInv, NEW r \in Requests, NEW q \in Request, Shaped(q),
         req' = [req EXCEPT ![r] = q]
  PROVE  /\ req' \in [Requests -> Request] /\ \A p \in Requests : Shaped(req'[p])
         /\ req'[r] = q /\ \A p \in Requests \ {r} : req'[p] = req[p]
BY DEF TypeInv, TypeOK

LEMMA BeginTyped ==
  ASSUME TypeInv, NEW r \in Requests,
         NEW op \in {"sign_up", "login", "external", "refresh", "change"},
         NEW pc \in {"insert", "put", "password"}, pc = "password" => op = "change",
         NEW u \in Users, NEW s \in Session, pc # "insert" => s.user = u,
         Begin(r, op, pc, u, s)
  PROVE  req' \in [Requests -> Request] /\ \A p \in Requests : Shaped(req'[p])
<1>1. req' = [req EXCEPT ![r] = Begun(op, pc, u, s)]
  BY DEF Begin, Begun
<1>2. Begun(op, pc, u, s) \in Request /\ Shaped(Begun(op, pc, u, s))
  BY BegunShaped
<1>. QED
  BY <1>1, <1>2, OneMoves

LEMMA InsertTyped ==
  ASSUME TypeOK, NEW u \in Users, NEW verified \in BOOLEAN, Insert(u, verified)
  PROVE  account' \in [Users -> Account]
<1>1. [account[u] EXCEPT !.state = "live", !.verified = verified] \in Account
  BY DEF TypeOK, Account
<1>. QED
  BY <1>1 DEF Insert, TypeOK

LEMMA IdleShaped == Shaped(Idle)
BY DEF Shaped, Idle

LEMMA LateShaped ==
  ASSUME NEW q \in Request, Shaped(q), NEW late \in BOOLEAN
  PROVE  [q EXCEPT !.late = late] \in Request /\ Shaped([q EXCEPT !.late = late])
<1>1. [q EXCEPT !.late = late] \in Request
  BY DEF Request
<1>2. [q EXCEPT !.late = late].pc = q.pc /\ [q EXCEPT !.late = late].op = q.op
      /\ [q EXCEPT !.late = late].user = q.user /\ [q EXCEPT !.late = late].session = q.session
      /\ [q EXCEPT !.late = late].token = q.token
  BY DEF Request
<1>. QED
  BY <1>1, <1>2 DEF Shaped

(* Marking requests late changes nothing else.                             *)
LEMMA Marked ==
  ASSUME TypeInv, NEW late
  PROVE  /\ MarkLate(late) \in [Requests -> Request]
         /\ \A r \in Requests :
              /\ Shaped(MarkLate(late)[r])
              /\ MarkLate(late)[r] = [req[r] EXCEPT !.late = MarkLate(late)[r].late]
              /\ MarkLate(late)[r].late = (req[r].late \/ r \in late)
<1>1. \A r \in Requests : MarkLate(late)[r] = [req[r] EXCEPT !.late = req[r].late \/ r \in late]
  BY DEF MarkLate
<1>2. \A r \in Requests : req[r] \in Request /\ Shaped(req[r])
  BY DEF TypeInv, TypeOK
<1>3. \A r \in Requests : MarkLate(late)[r] \in Request /\ Shaped(MarkLate(late)[r])
  <2>. SUFFICES ASSUME NEW r \in Requests
                PROVE  MarkLate(late)[r] \in Request /\ Shaped(MarkLate(late)[r])
    OBVIOUS
  <2>. DEFINE l == req[r].late \/ r \in late
  <2>1. l \in BOOLEAN /\ req[r] \in Request /\ Shaped(req[r])
    BY <1>2 DEF Request
  <2>2. MarkLate(late)[r] = [req[r] EXCEPT !.late = l]
    BY <1>1
  <2>. HIDE DEF l
  <2>. QED
    BY <2>1, <2>2, LateShaped
<1>. QED
  BY <1>1, <1>2, <1>3 DEF MarkLate, Request

-----------------------------------------------------------------------------
(* Each action, as far as it keeps the types and says what a request has.  *)
LEMMA TypeInitInv == Init => TypeInv
<1>. SUFFICES ASSUME Init  PROVE TypeInv
  OBVIOUS
<1>1. account \in [Users -> Account]
  BY DEF Init, Account
<1>2. TypeOK
  BY <1>1, Blanks DEF Init, TypeOK
<1>. QED
  BY <1>2, IdleShaped DEF Init, TypeInv

LEMMA TypeStart ==
  ASSUME TypeInv, NEW r \in Requests, Start(r)  PROVE TypeInv'
<1>. USE Blanks, NewSessions, BegunShaped DEF History, store, Live
<1>0. TypeOK
  BY DEF TypeInv
<1>1. CASE SignUp(r)
  <2>1. PICK u \in Users :
          Insert(u, FALSE) /\ Begin(r, "sign_up", "put", u, [NoSession EXCEPT !.user = u])
    BY <1>1 DEF SignUp
  <2>2. account' \in [Users -> Account]
    BY <1>0, <2>1, InsertTyped
  <2>3. Begun("sign_up", "put", u, [NoSession EXCEPT !.user = u]) \in Request
        /\ Shaped(Begun("sign_up", "put", u, [NoSession EXCEPT !.user = u]))
    BY <1>0 DEF NoSession
  <2>4. req' \in [Requests -> Request] /\ \A p \in Requests : Shaped(req'[p])
    BY <2>1, <2>3, OneMoves DEF Begin, Begun
  <2>. QED
    BY <1>1, <2>2, <2>4 DEF SignUp, TypeInv, TypeOK
<1>2. CASE Login(r)
  <2>1. PICK u \in Users : Begin(r, "login", "put", u, NewSession(u))
    BY <1>2 DEF Login
  <2>2. req' \in [Requests -> Request] /\ \A p \in Requests : Shaped(req'[p])
    <3>1. NewSession(u) \in Session /\ NewSession(u).user = u
      BY <1>0
    <3>. QED
      BY <2>1, <3>1, BeginTyped
  <2>. QED
    BY <1>2, <2>2 DEF Login, TypeInv, TypeOK
<1>3. CASE ExternalLogin(r)
  <2>1. PICK u \in Users : Begin(r, "external", "put", u, NewSession(u))
                           \/ Begin(r, "external", "insert", u, NoSession)
    BY <1>3 DEF ExternalLogin
  <2>2. /\ Begun("external", "put", u, NewSession(u)) \in Request
        /\ Shaped(Begun("external", "put", u, NewSession(u)))
        /\ Begun("external", "insert", u, NoSession) \in Request
        /\ Shaped(Begun("external", "insert", u, NoSession))
    BY <1>0
  <2>3. req' \in [Requests -> Request] /\ \A p \in Requests : Shaped(req'[p])
    BY <2>1, <2>2, OneMoves DEF Begin, Begun
  <2>. QED
    BY <1>3, <2>3 DEF ExternalLogin, TypeInv, TypeOK
<1>4. CASE Refresh(r)
  <2>1. PICK s \in sessions : Live(s.user) /\ Begin(r, "refresh", "put", s.user, s)
    BY <1>4 DEF Refresh
  <2>2. s \in Session /\ s.user \in Users
    BY <1>0, <2>1 DEF TypeOK
  <2>3. req' \in [Requests -> Request] /\ \A p \in Requests : Shaped(req'[p])
    BY <2>1, <2>2, BeginTyped
  <2>. QED
    BY <1>4, <2>3 DEF Refresh, TypeInv, TypeOK
<1>5. CASE ChangePassword(r)
  <2>1. PICK w \in wallet, u \in Users :
          Begin(r, "change", "password", u, [NoSession EXCEPT !.id = w.id, !.user = u])
    BY <1>5 DEF ChangePassword, UsersByEmail
  <2>2. [NoSession EXCEPT !.id = w.id, !.user = u] \in Session
        /\ [NoSession EXCEPT !.id = w.id, !.user = u].user = u
    BY <1>0 DEF TypeOK, NoSession, Session
  <2>3. req' \in [Requests -> Request] /\ \A p \in Requests : Shaped(req'[p])
    BY <2>1, <2>2, OneMoves DEF Begin, Begun
  <2>. QED
    BY <1>5, <2>3 DEF ChangePassword, TypeInv, TypeOK
<1>6. CASE RequestMail(r)
  <2>1. PICK u \in Users, typ \in Typs :
          req' = [req EXCEPT ![r] = [Idle EXCEPT !.op = "mail", !.pc = "cooldown",
                                       !.user = u, !.token = TokenFor(u, typ)]]
    BY <1>6 DEF RequestMail
  <2>. DEFINE q == [Idle EXCEPT !.op = "mail", !.pc = "cooldown", !.user = u,
                                !.token = TokenFor(u, typ)]
  <2>2. q \in Request /\ Shaped(q)
    BY <1>0, MailShaped DEF Typs
  <2>3. req' \in [Requests -> Request] /\ \A p \in Requests : Shaped(req'[p])
    BY <2>1, <2>2, OneMoves
  <2>. QED
    BY <1>6, <2>3 DEF RequestMail, TypeInv, TypeOK
<1>7. CASE UseToken(r)
  <2>1. PICK op \in {"verify", "reset"}, t \in tokens :
          /\ tokens' = Pop(t)
          /\ \/ UNCHANGED req
             \/ req' = [req EXCEPT ![r] = [Idle EXCEPT !.op = op, !.pc = "find", !.token = t]]
    BY <1>7 DEF UseToken
  <2>2. tokens' \subseteq Token /\ t \in Token
    BY <1>0, <2>1 DEF Pop, TypeOK
  <2>. DEFINE q == [Idle EXCEPT !.op = op, !.pc = "find", !.token = t]
  <2>3. q \in Request /\ Shaped(q)
    BY <2>2, FindShaped
  <2>4. req' \in [Requests -> Request] /\ \A p \in Requests : Shaped(req'[p])
    BY <2>1, <2>3, OneMoves DEF TypeInv, TypeOK
  <2>. QED
    BY <1>7, <2>2, <2>4 DEF UseToken, TypeInv, TypeOK
<1>. QED
  BY <1>1, <1>2, <1>3, <1>4, <1>5, <1>6, <1>7 DEF Start

LEMMA WrittenTyped ==
  ASSUME NEW s \in Session, NEW id \in Nat, NEW tok \in Nat, NEW late \in BOOLEAN
  PROVE  [s EXCEPT !.id = id, !.tok = tok, !.rc = @ + 1, !.late = late] \in Session
<1>. DEFINE rc == s.rc + 1
<1>1. rc \in Nat
  BY DEF Session
<1>. HIDE DEF rc
<1>2. [s EXCEPT !.id = id, !.tok = tok, !.rc = rc, !.late = late] \in Session
  BY <1>1 DEF Session
<1>. QED
  BY <1>2 DEF rc

LEMMA PassTyped ==
  ASSUME NEW a \in Account, NEW reset
  PROVE  [a EXCEPT !.pass = @ + 1, !.verified = @ \/ reset] \in Account
<1>1. (a.verified \/ reset) \in BOOLEAN /\ a.pass + 1 \in Nat
  BY DEF Account
<1>2. ASSUME NEW v \in BOOLEAN, NEW n \in Nat  PROVE [a EXCEPT !.pass = n, !.verified = v] \in Account
  BY DEF Account
<1>. QED
  BY <1>1, <1>2

LEMMA TypeContinue ==
  ASSUME TypeInv, NEW r \in Requests, Continue(r)  PROVE TypeInv'
<1>. USE Blanks, NewSessions DEF History, store, Live
<1>0. /\ TypeOK /\ req[r] \in Request /\ Shaped(req[r])
      /\ Idle \in Request /\ Shaped(Idle)
  BY IdleShaped DEF TypeInv, TypeOK
<1>1. CASE CreateUserToken(r)
  <2>. DEFINE u == req[r].user
              q == [req[r] EXCEPT !.pc = "put", !.session = [NoSession EXCEPT !.user = u]]
  <2>1. u \in Users
    BY <1>0, <1>1 DEF CreateUserToken, At, Shaped
  <2>2. account' \in [Users -> Account] /\ proven' \subseteq Users
    BY <1>0, <1>1, <2>1, InsertTyped DEF CreateUserToken, TypeOK
  <2>3. q \in Request /\ Shaped(q)
    <3>1. [NoSession EXCEPT !.user = u] \in Session /\ [NoSession EXCEPT !.user = u].user = u
      BY <1>0, <2>1 DEF NoSession
    <3>2. q \in Request
      BY <1>0, <3>1 DEF Request
    <3>3. q.pc = "put" /\ q.user = u /\ q.session.user = u
      BY <1>0, <3>1 DEF Request
    <3>. QED
      BY <2>1, <3>2, <3>3 DEF Shaped
  <2>4. req' = [req EXCEPT ![r] = q] \/ Done(r)
    BY <1>1 DEF CreateUserToken
  <2>5. req' \in [Requests -> Request] /\ \A p \in Requests : Shaped(req'[p])
    BY <1>0, <2>3, <2>4, OneMoves DEF Done
  <2>. QED
    BY <1>1, <2>2, <2>5 DEF CreateUserToken, TypeInv, TypeOK
<1>2. CASE PutSession(r)
  <2>. DEFINE s == req[r].session
              new == [s EXCEPT !.id = IF @ = 0 THEN issued + 1 ELSE @, !.tok = issued + 1,
                               !.rc = @ + 1, !.late = @ \/ req[r].late]
              q == [req[r] EXCEPT !.pc = "cooldown", !.session = NoSession,
                                  !.token = TokenFor(s.user, "verify_email")]
  <2>1. s \in Session /\ s.user \in Users /\ req[r].user \in Users
    BY <1>0, <1>2 DEF PutSession, At, Shaped, Request
  <2>2. new \in Session /\ new.id \in Nat
    <3>. DEFINE id == IF s.id = 0 THEN issued + 1 ELSE s.id
                late == s.late \/ req[r].late
    <3>1. id \in Nat /\ issued + 1 \in Nat
      BY <1>0, <2>1 DEF Session, TypeOK
    <3>2. late \in BOOLEAN
      BY <1>0, <2>1 DEF Session, Request
    <3>3. new = [s EXCEPT !.id = id, !.tok = issued + 1, !.rc = @ + 1, !.late = late]
      OBVIOUS
    <3>. HIDE DEF id, late, new
    <3>4. new \in Session
      BY <2>1, <3>1, <3>2, <3>3, WrittenTyped
    <3>. QED
      BY <3>4 DEF Session
  <2>3. issued' \in Nat /\ sessions' \subseteq Session
        /\ wallet' \subseteq [user : Users, id : Nat, tok : Nat]
    BY <1>0, <1>2, <2>1, <2>2 DEF PutSession, TypeOK
  <2>4. q \in Request /\ Shaped(q)
    <3>1. TokenFor(s.user, "verify_email") \in Token
      BY <1>0, <2>1
    <3>2. q \in Request
      BY <1>0, <3>1 DEF Request
    <3>3. q.pc = "cooldown" /\ q.user = req[r].user /\ q.token \in Token
      BY <1>0, <3>1 DEF Request
    <3>. QED
      BY <2>1, <3>2, <3>3 DEF Shaped
  <2>5. req' = [req EXCEPT ![r] = q] \/ Done(r)
    BY <1>2 DEF PutSession
  <2>6. req' \in [Requests -> Request] /\ \A p \in Requests : Shaped(req'[p])
    BY <1>0, <2>4, <2>5, OneMoves DEF Done
  <2>. QED
    BY <1>2, <2>3, <2>6 DEF PutSession, TypeInv, TypeOK
<1>3. CASE SetPassword(r)
  <2>. DEFINE u == req[r].user
              q == [req[r] EXCEPT !.pc = "invalidate", !.session.gen = account[u].pass + 1]
  <2>1. /\ u \in Users /\ account[u] \in Account /\ req[r].session \in Session
        /\ req[r].session.user = u /\ req[r].op \in {"change", "reset"}
        /\ req[r].op = "reset" => req[r].session.id = 0 /\ req[r].token \in Token
    BY <1>0, <1>3 DEF SetPassword, At, Shaped, Request, TypeOK
  <2>. DEFINE changed == [account[u] EXCEPT !.pass = @ + 1, !.verified = @ \/ req[r].op = "reset"]
  <2>2. account' \in [Users -> Account] /\ proven' \subseteq Users /\ spent' \subseteq Token
    <3>1. changed \in Account
      BY <2>1, PassTyped
    <3>2. account' = [account EXCEPT ![u] = changed] \/ account' = account
      BY <1>3 DEF SetPassword
    <3>3. account' \in [Users -> Account]
      <4>. HIDE DEF changed
      <4>. QED
        BY <1>0, <3>1, <3>2 DEF TypeOK
    <3>4. proven' \subseteq Users
      BY <1>0, <1>3, <2>1 DEF SetPassword, TypeOK
    <3>5. spent' \subseteq Token
      BY <1>0, <1>3, <2>1 DEF SetPassword, TypeOK
    <3>. QED
      BY <3>3, <3>4, <3>5
  <2>3. q \in Request /\ Shaped(q)
    <3>1. [req[r].session EXCEPT !.gen = account[u].pass + 1] \in Session
      BY <2>1 DEF Session, Account
    <3>2. q \in Request
      BY <1>0, <3>1 DEF Request
    <3>3. /\ q.pc = "invalidate" /\ q.user = u /\ q.session.user = u
          /\ q.op = req[r].op /\ q.session.id = req[r].session.id
      BY <1>0, <2>1, <3>1 DEF Request, Session
    <3>. QED
      BY <2>1, <3>2, <3>3 DEF Shaped
  <2>4. req' = [req EXCEPT ![r] = q] \/ Done(r)
    BY <1>3 DEF SetPassword
  <2>5. req' \in [Requests -> Request] /\ \A p \in Requests : Shaped(req'[p])
    BY <1>0, <2>3, <2>4, OneMoves DEF Done
  <2>. QED
    BY <1>3, <2>2, <2>5 DEF SetPassword, TypeInv, TypeOK
<1>4. CASE Invalidate(r)
  <2>. DEFINE u == req[r].user
              late == {p \in Requests \ {r} : req[p].user = u /\
                        (At(p, "put") \/ (At(p, "invalidate") /\ req[p].op = "reset"))}
              q == IF req[r].op = "change" THEN Idle ELSE [req[r] EXCEPT !.pc = "put"]
  <2>1. req[r].session \in Session /\ req[r].session.user = u /\ u \in Users
    BY <1>0, <1>4 DEF Invalidate, At, Shaped, Request
  <2>2. q \in Request /\ Shaped(q)
    <3>1. [req[r] EXCEPT !.pc = "put"] \in Request
      BY <1>0 DEF Request
    <3>2. /\ [req[r] EXCEPT !.pc = "put"].pc = "put"
          /\ [req[r] EXCEPT !.pc = "put"].user = u
          /\ [req[r] EXCEPT !.pc = "put"].session = req[r].session
      BY <1>0 DEF Request
    <3>. QED
      BY <1>0, <2>1, <3>1, <3>2 DEF Shaped
  <2>3. req' = [MarkLate(late) EXCEPT ![r] = q]
    BY <1>4 DEF Invalidate
  <2>4. /\ MarkLate(late) \in [Requests -> Request]
        /\ \A p \in Requests : Shaped(MarkLate(late)[p])
    BY Marked
  <2>5. req' \in [Requests -> Request] /\ \A p \in Requests : Shaped(req'[p])
    <3>. HIDE DEF q, late
    <3>. QED
      BY <2>2, <2>3, <2>4
  <2>6. sessions' \subseteq Session
    <3>. SUFFICES ASSUME NEW s \in sessions
                  PROVE  [s EXCEPT !.gen = req[r].session.gen] \in Session
      BY <1>0, <1>4 DEF Invalidate, TypeOK
    <3>. QED
      BY <1>0, <2>1 DEF TypeOK, Session
  <2>7. ended' \subseteq Nat
    BY <1>0, <1>4 DEF Invalidate, Removed, TypeOK, Session
  <2>. QED
    BY <1>4, <2>5, <2>6, <2>7 DEF Invalidate, TypeInv, TypeOK
<1>5. CASE CheckCooldown(r)
  <2>. DEFINE q == [req[r] EXCEPT !.pc = "mail"]
  <2>1. q \in Request /\ Shaped(q)
    <3>1. q \in Request /\ q.pc = "mail" /\ q.user = req[r].user /\ q.token = req[r].token
      BY <1>0 DEF Request
    <3>. QED
      BY <1>0, <1>5, <3>1 DEF CheckCooldown, At, Shaped
  <2>2. req' = [req EXCEPT ![r] = q] \/ Done(r)
    BY <1>5 DEF CheckCooldown, Goto
  <2>3. req' \in [Requests -> Request] /\ \A p \in Requests : Shaped(req'[p])
    BY <1>0, <2>1, <2>2, OneMoves DEF Done
  <2>. QED
    BY <1>5, <2>3 DEF CheckCooldown, TypeInv, TypeOK
<1>6. CASE SendMail(r)
  <2>. DEFINE q == [req[r] EXCEPT !.pc = "store", !.token.id = mailed + 1]
  <2>1. req[r].token \in Token /\ req[r].user \in Users /\ mailed \in Nat
    BY <1>0, <1>6 DEF SendMail, At, Shaped, TypeOK
  <2>2. q \in Request /\ Shaped(q)
    <3>1. [req[r].token EXCEPT !.id = mailed + 1] \in Token
      BY <2>1 DEF Token
    <3>2. q \in Request /\ q.pc = "store" /\ q.user = req[r].user /\ q.token \in Token
      BY <1>0, <3>1 DEF Request
    <3>. QED
      BY <2>1, <3>2 DEF Shaped
  <2>3. req' = [req EXCEPT ![r] = q]
    BY <1>6 DEF SendMail
  <2>4. req' \in [Requests -> Request] /\ \A p \in Requests : Shaped(req'[p])
    BY <2>2, <2>3, OneMoves
  <2>. QED
    BY <1>6, <2>1, <2>4 DEF SendMail, TypeInv, TypeOK
<1>7. CASE StoreToken(r)
  <2>1. req[r].token \in Token
    BY <1>0, <1>7 DEF StoreToken, At, Shaped
  <2>2. req' \in [Requests -> Request] /\ \A p \in Requests : Shaped(req'[p])
    BY <1>0, <1>7, OneMoves DEF StoreToken, Done
  <2>3. tokens' \subseteq Token /\ cooling' \subseteq Users \X Typs
    BY <1>0, <1>7, <2>1 DEF StoreToken, TypeOK, Token
  <2>. QED
    BY <1>7, <2>2, <2>3 DEF StoreToken, TypeInv, TypeOK
<1>8. CASE FindUser(r)
  <2>1. /\ req[r].token \in Token /\ req[r].op \in {"verify", "reset"}
        /\ \A u \in Owner(req[r].token) : u \in Users /\ u = req[r].token.user
    BY <1>0, <1>8 DEF FindUser, At, Shaped, Owner, UsersByEmail
  <2>2. CASE Done(r)
    BY <1>0, <1>8, <2>2, OneMoves DEF FindUser, Done, TypeInv, TypeOK
  <2>3. ASSUME NEW u \in Owner(req[r].token), req[r].op = "reset",
               req' = [req EXCEPT ![r].pc = "password", ![r].user = u,
                                  ![r].session = [NoSession EXCEPT !.user = u]]
        PROVE  req' \in [Requests -> Request] /\ \A p \in Requests : Shaped(req'[p])
    <3>. DEFINE q == [req[r] EXCEPT !.pc = "password", !.user = u,
                                    !.session = [NoSession EXCEPT !.user = u]]
    <3>1. /\ [NoSession EXCEPT !.user = u] \in Session
          /\ [NoSession EXCEPT !.user = u].user = u /\ [NoSession EXCEPT !.user = u].id = 0
      BY <1>0, <2>1 DEF NoSession
    <3>2. q \in Request /\ q.pc = "password" /\ q.user = u /\ q.token = req[r].token
          /\ q.op = "reset" /\ q.session.user = u /\ q.session.id = 0
      BY <1>0, <2>1, <2>3, <3>1 DEF Request
    <3>3. Shaped(q)
      BY <2>1, <3>2 DEF Shaped
    <3>4. req' = [req EXCEPT ![r] = q]
      BY <2>3
    <3>. HIDE DEF q
    <3>. QED
      BY <3>2, <3>3, <3>4, OneMoves
  <2>4. ASSUME NEW u \in Owner(req[r].token),
               req' = [req EXCEPT ![r].pc = "put", ![r].user = u, ![r].session = NewSession(u)]
        PROVE  req' \in [Requests -> Request] /\ \A p \in Requests : Shaped(req'[p])
    <3>. DEFINE q == [req[r] EXCEPT !.pc = "put", !.user = u, !.session = NewSession(u)]
    <3>1. NewSession(u) \in Session /\ NewSession(u).user = u
      BY <1>0, <2>1
    <3>2. q \in Request /\ q.pc = "put" /\ q.user = u /\ q.session.user = u
      BY <1>0, <2>1, <3>1 DEF Request
    <3>3. Shaped(q)
      BY <2>1, <3>2 DEF Shaped
    <3>4. req' = [req EXCEPT ![r] = q]
      BY <2>4
    <3>. HIDE DEF q
    <3>. QED
      BY <3>2, <3>3, <3>4, OneMoves
  <2>5. ASSUME NEW u \in Owner(req[r].token),
               req' = [req EXCEPT ![r].pc = "verified", ![r].user = u]
        PROVE  req' \in [Requests -> Request] /\ \A p \in Requests : Shaped(req'[p])
    <3>. DEFINE q == [req[r] EXCEPT !.pc = "verified", !.user = u]
    <3>1. q \in Request /\ q.pc = "verified" /\ q.user = u /\ q.token = req[r].token
          /\ q.op = req[r].op
      BY <1>0, <2>1 DEF Request
    <3>2. Shaped(q)
      BY <2>1, <3>1 DEF Shaped
    <3>3. req' = [req EXCEPT ![r] = q]
      BY <2>5
    <3>. HIDE DEF q
    <3>. QED
      BY <3>1, <3>2, <3>3, OneMoves
  <2>6. Done(r) \/ (req' \in [Requests -> Request] /\ \A p \in Requests : Shaped(req'[p]))
    BY <1>8, <2>3, <2>4, <2>5 DEF FindUser
  <2>. QED
    BY <1>8, <2>2, <2>6 DEF FindUser, TypeInv, TypeOK
<1>9. CASE SetVerified(r)
  <2>. DEFINE u == req[r].user
              q == [req[r] EXCEPT !.pc = "put", !.session = NewSession(u)]
  <2>1. u \in Users /\ req[r].token \in Token /\ account[u] \in Account
    BY <1>0, <1>9 DEF SetVerified, At, Shaped, TypeOK
  <2>2. account' \in [Users -> Account] /\ proven' \subseteq Users /\ spent' \subseteq Token
    <3>1. [account[u] EXCEPT !.verified = TRUE] \in Account
      BY <2>1 DEF Account
    <3>. QED
      BY <1>0, <1>9, <2>1, <3>1 DEF SetVerified, TypeOK
  <2>3. q \in Request /\ Shaped(q)
    <3>1. NewSession(u) \in Session /\ NewSession(u).user = u
      BY <1>0, <2>1
    <3>2. q \in Request /\ q.pc = "put" /\ q.user = u /\ q.session.user = u
      BY <1>0, <3>1 DEF Request
    <3>. QED
      BY <2>1, <3>2 DEF Shaped
  <2>4. req' = [req EXCEPT ![r] = q] \/ Done(r)
    BY <1>9 DEF SetVerified
  <2>5. req' \in [Requests -> Request] /\ \A p \in Requests : Shaped(req'[p])
    BY <1>0, <2>3, <2>4, OneMoves DEF Done
  <2>. QED
    BY <1>9, <2>2, <2>5 DEF SetVerified, TypeInv, TypeOK
<1>. QED
  BY <1>1, <1>2, <1>3, <1>4, <1>5, <1>6, <1>7, <1>8, <1>9 DEF Continue

LEMMA TypeDie ==
  ASSUME TypeInv, NEW r \in Requests, Die(r)  PROVE TypeInv'
<1>0. TypeOK /\ Idle \in Request /\ Shaped(Idle) /\ req[r] \in Request /\ Shaped(req[r])
  BY IdleShaped, Blanks DEF TypeInv, TypeOK
<1>1. req' \in [Requests -> Request] /\ \A p \in Requests : Shaped(req'[p])
  BY <1>0, OneMoves DEF Die, Done
<1>2. unfinished' \subseteq Users
  BY <1>0 DEF Die, At, Shaped, TypeOK
<1>. QED
  BY <1>0, <1>1, <1>2 DEF Die, store, TypeInv, TypeOK

LEMMA TypeOthers ==
  ASSUME TypeInv, Logout \/ EditPassword \/ CoolDown \/ DeleteUser  PROVE TypeInv'
<1>. USE DEF History, TypeInv, TypeOK
<1>1. CASE Logout
  <2>1. PICK w \in wallet :
          /\ sessions' = {s \in sessions : s.id # w.id} /\ ended' = ended \cup {w.id}
          /\ req' = MarkLate({r \in Requests : At(r, "put") /\ req[r].session.id = w.id})
    BY <1>1 DEF Logout
  <2>2. req' \in [Requests -> Request] /\ \A p \in Requests : Shaped(req'[p])
    BY <2>1, Marked
  <2>. QED
    BY <1>1, <2>1, <2>2 DEF Logout
<1>2. CASE EditPassword
  <2>1. PICK u \in Users : /\ account' = [account EXCEPT ![u].pass = @ + 1]
                          /\ unfinished' = unfinished \cup {u}
    BY <1>2 DEF EditPassword
  <2>2. [account[u] EXCEPT !.pass = @ + 1] \in Account
    BY DEF Account
  <2>. QED
    BY <1>2, <2>1, <2>2 DEF EditPassword
<1>3. CASE CoolDown
  BY <1>3 DEF CoolDown
<1>4. CASE DeleteUser
  <2>1. PICK u \in Users :
          /\ account' = [account EXCEPT ![u].state = "gone", ![u].verified = FALSE, ![u].pass = 0]
          /\ unfinished' = unfinished \ {u} /\ proven' = proven \ {u}
    BY <1>4 DEF DeleteUser
  <2>2. [account[u] EXCEPT !.state = "gone", !.verified = FALSE, !.pass = 0] \in Account
    BY DEF Account
  <2>. QED
    BY <1>4, <2>1, <2>2 DEF DeleteUser
<1>. QED
  BY <1>1, <1>2, <1>3, <1>4

LEMMA TypeNextInv == TypeInv /\ [Next]_vars => TypeInv'
<1>. SUFFICES ASSUME TypeInv, [Next]_vars  PROVE TypeInv'
  OBVIOUS
<1>1. CASE UNCHANGED vars
  BY <1>1 DEF vars, store, TypeInv, TypeOK
<1>. QED
  BY <1>1, TypeStart, TypeContinue, TypeDie, TypeOthers DEF Next

-----------------------------------------------------------------------------
(* Sessions.  Most steps move one request, write no session and change no  *)
(* password: it is enough to look at the session that the request is going *)
(* to write.                                                               *)
PasswordsStay ==
  \A u \in Users : account'[u].pass = account[u].pass /\ (Live(u) => Live(u)')

LEMMA SessionTypes ==
  ASSUME TypeInv
  PROVE  /\ \A s \in sessions : s \in Session /\ s.id \in Nat /\ s.gen \in Nat
         /\ \A r \in Requests :
              /\ req[r] \in Request /\ req[r].session \in Session /\ req[r].session.id \in Nat
              /\ req[r].session.gen \in Nat /\ req[r].late \in BOOLEAN
              /\ req[r].session.late \in BOOLEAN
         /\ \A u \in Users : account[u] \in Account /\ account[u].pass \in Nat
BY DEF TypeInv, TypeOK, Request, Session, Account

LEMMA PasswordsStayOutdated ==
  ASSUME SessionsInv, PasswordsStay, NEW u, NEW gen \in Nat
  PROVE  Outdated(u, gen)' => Outdated(u, gen)
<1>. SUFFICES ASSUME u \in Users, Live(u)', gen < account'[u].pass
              PROVE  Outdated(u, gen)
  BY DEF Outdated, Live
<1>1. account'[u].pass = account[u].pass /\ account[u].pass \in Nat
  BY SessionTypes DEF PasswordsStay, SessionsInv
<1>2. Live(u)
  BY <1>1 DEF SessionsInv, OldSessions
<1>. QED
  BY <1>1, <1>2 DEF Outdated

LEMMA SessionsMove ==
  ASSUME SessionsInv, TypeInv', NEW r \in Requests,
         \A p \in Requests \ {r} : req'[p] = req[p],
         req[r].pc # "invalidate", req'[r].pc # "invalidate", PasswordsStay,
         UNCHANGED <<sessions, issued, wallet, ended, unfinished>>,
         req'[r].pc = "put" =>
           /\ req'[r].session.id # 0 => Handed(req'[r].session)
           /\ req'[r].session.id \in ended => Late(r)'
           /\ Outdated(req'[r].user, req'[r].session.gen) => Late(r)' \/ Forgiven(req'[r].user)
  PROVE  SessionsInv'
<1>. USE DEF SessionsInv
<1>1. OneOwner'
  BY DEF OneOwner, Handed, At
<1>2. EndedStaysEnded' /\ LateIfEnded'
  BY DEF EndedStaysEnded, LateIfEnded, At, Late
<1>3. ASSUME NEW u \in Users, Forgiven(u)  PROVE Forgiven(u)'
  <2>1. CASE u \in unfinished
    BY <2>1 DEF Forgiven
  <2>2. ASSUME NEW p \in Requests, At(p, "invalidate"), req[p].user = u,
               req[p].session.gen = account[u].pass
        PROVE  Forgiven(u)'
    <3>1. req'[p] = req[p]
      BY <2>2 DEF At
    <3>. QED
      BY <2>2, <3>1 DEF Forgiven, At, PasswordsStay
  <2>. QED
    BY <1>3, <2>1, <2>2 DEF Forgiven
<1>4. \A u : \A gen \in Nat : Outdated(u, gen)' => Outdated(u, gen) /\ u \in Users
  BY PasswordsStayOutdated DEF Outdated, Live
<1>5. ASSUME NEW s \in sessions, Outdated(s.user, s.gen)'
      PROVE  s.late \/ Forgiven(s.user)'
  BY <1>3, <1>4, <1>5, SessionTypes DEF OldSessions
<1>6. ASSUME NEW p \in Requests \ {r}, Outdated(req[p].user, req[p].session.gen)',
             At(p, "put") \/ (At(p, "invalidate") /\ req[p].op = "reset")
      PROVE  Late(p) \/ Forgiven(req[p].user)'
  BY <1>3, <1>4, <1>6, SessionTypes DEF OldSessions
<1>7. ASSUME At(r, "put")', Outdated(req[r].user, req[r].session.gen)'
      PROVE  Late(r)' \/ Forgiven(req[r].user)'
  <2>1. PICK u \in Users, gen \in Nat : u = req'[r].user /\ gen = req'[r].session.gen
    BY <1>7, SessionTypes DEF TypeInv, TypeOK, Request, Session, Outdated, Live
  <2>2. Outdated(u, gen)'
    BY <1>7, <2>1 DEF Outdated, Live
  <2>3. Late(r)' \/ Forgiven(u)
    BY <1>4, <1>7, <2>1, <2>2 DEF At
  <2>4. Late(r)' \/ Forgiven(u)'
    BY <1>3, <2>3
  <2>. QED
    BY <2>1, <2>4 DEF Forgiven
<1>8. \A u \in Users : ~Live(u)' => account'[u].pass = 0
  BY DEF OldSessions, PasswordsStay
<1>9. OldSessions'
  <2>1. \A p \in Requests : (At(p, "put") /\ Outdated(req[p].user, req[p].session.gen))' =>
          (Late(p) \/ Forgiven(req[p].user))'
    <3>. SUFFICES ASSUME NEW p \in Requests,
                         (At(p, "put") /\ Outdated(req[p].user, req[p].session.gen))'
                  PROVE  (Late(p) \/ Forgiven(req[p].user))'
      OBVIOUS
    <3>1. CASE p = r
      BY <1>7, <3>1
    <3>2. CASE p # r
      <4>1. req'[p] = req[p]
        BY <3>2
      <4>. QED
        BY <1>6, <3>2, <4>1 DEF At, Late, Outdated, Forgiven
    <3>. QED
      BY <3>1, <3>2
  <2>2. \A p \in Requests :
          (At(p, "invalidate") /\ req[p].op = "reset"
             /\ Outdated(req[p].user, req[p].session.gen))' => (Late(p) \/ Forgiven(req[p].user))'
    BY <1>6 DEF At, Late, Outdated, Forgiven
  <2>. QED
    BY <1>5, <1>8, <2>1, <2>2 DEF OldSessions, Outdated, Forgiven
<1>. QED
  BY <1>1, <1>2, <1>9

(* Sign-ups, log-ins and the other first steps.                            *)
LEMMA SessionsStart ==
  ASSUME SessionsInv, TypeInv', NEW r \in Requests, Start(r)  PROVE SessionsInv'
<1>. USE NewSessions, Blanks DEF History, store, SessionsInv
<1>0. /\ TypeOK /\ 0 \notin ended /\ req[r] \in Request
      /\ req' \in [Requests -> Request]
  BY DEF TypeInv, TypeOK, OneOwner
<1>1. CASE SignUp(r)
  <2>1. PICK u \in Users :
          /\ NewId(u) /\ Insert(u, FALSE)
          /\ Begin(r, "sign_up", "put", u, [NoSession EXCEPT !.user = u])
    BY <1>1 DEF SignUp
  <2>2. /\ req[r] = Idle /\ req'[r].pc = "put" /\ req'[r].user = u
        /\ req'[r].session.id = 0 /\ req'[r].session.gen = 0
        /\ \A p \in Requests \ {r} : req'[p] = req[p]
    BY <1>0, <1>1, <2>1 DEF SignUp, Asked, Begin, Idle, NoSession, TypeOK
  <2>3. PasswordsStay
    BY <1>0, <2>1 DEF PasswordsStay, Insert, Live, TypeOK, Account
  <2>4. ~Outdated(u, 0)
    BY <2>1 DEF Outdated, NewId, Live
  <2>. QED
    BY <1>0, <1>1, <2>2, <2>3, <2>4, SessionsMove DEF SignUp
<1>2. ASSUME NEW op, NEW u \in Users, NEW pc \in {"put", "insert"}, NEW s \in {NewSession(u), NoSession},
             pc = "put" => s = NewSession(u),
             req[r] = Idle, Begin(r, op, pc, u, s), UNCHANGED store, History
      PROVE  SessionsInv'
  <2>1. /\ req'[r].pc = pc /\ req'[r].user = u /\ req'[r].session = s
        /\ \A p \in Requests \ {r} : req'[p] = req[p]
    BY <1>0, <1>2 DEF Begin, Idle, TypeOK
  <2>2. PasswordsStay
    BY <1>2 DEF PasswordsStay, Live
  <2>3. ~Outdated(u, account[u].pass)
    BY <1>0 DEF Outdated, TypeOK, Account
  <2>4. pc = "put" => s.id = 0 /\ s.gen = account[u].pass
    BY <1>0, <1>2
  <2>5. req[r].pc # "invalidate" /\ pc # "invalidate"
    BY <1>2
  <2>6. UNCHANGED <<sessions, issued, wallet, ended, unfinished>>
    BY <1>2
  <2>. QED
    BY <1>0, <2>1, <2>2, <2>3, <2>4, <2>5, <2>6, SessionsMove
<1>3. CASE Login(r)
  BY <1>2, <1>3 DEF Login, Asked
<1>4. CASE ExternalLogin(r)
  <2>1. PICK u \in Users : \/ Begin(r, "external", "put", u, NewSession(u))
                          \/ Begin(r, "external", "insert", u, NoSession)
    BY <1>4 DEF ExternalLogin
  <2>. QED
    BY <1>2, <1>4, <2>1 DEF ExternalLogin, Asked
<1>5. CASE Refresh(r)
  <2>1. PICK s \in sessions : Live(s.user) /\ Begin(r, "refresh", "put", s.user, s)
    BY <1>5 DEF Refresh
  <2>2. /\ req[r] = Idle /\ req'[r].pc = "put" /\ req'[r].user = s.user /\ req'[r].session = s
        /\ \A p \in Requests \ {r} : req'[p] = req[p]
    BY <1>0, <1>5, <2>1 DEF Refresh, Asked, Begin, Idle, TypeOK
  <2>3. PasswordsStay
    BY <1>5 DEF Refresh, PasswordsStay, Live
  <2>4. Handed(s) /\ (s.id \in ended => s.late)
        /\ (Outdated(s.user, s.gen) => s.late \/ Forgiven(s.user))
    BY DEF OneOwner, EndedStaysEnded, OldSessions
  <2>5. s.id \in ended \/ Outdated(s.user, s.gen) => Late(r)' \/ Forgiven(s.user)
    BY <2>2, <2>4 DEF Late
  <2>6. s.id \in ended => Late(r)'
    BY <2>2, <2>4 DEF Late
  <2>. QED
    BY <1>0, <1>5, <2>2, <2>3, <2>4, <2>5, <2>6, SessionsMove DEF Refresh
<1>6. CASE ChangePassword(r)
  <2>1. PICK w \in wallet, u \in Users :
          Begin(r, "change", "password", u, [NoSession EXCEPT !.id = w.id, !.user = u])
    BY <1>6 DEF ChangePassword, UsersByEmail
  <2>2. /\ req[r] = Idle /\ req'[r].pc = "password"
        /\ \A p \in Requests \ {r} : req'[p] = req[p]
    BY <1>0, <1>6, <2>1 DEF ChangePassword, Asked, Begin, Idle, TypeOK
  <2>3. PasswordsStay
    BY <1>6 DEF ChangePassword, PasswordsStay, Live
  <2>. QED
    BY <1>0, <1>6, <2>2, <2>3, SessionsMove DEF ChangePassword
<1>7. CASE RequestMail(r)
  <2>1. /\ req[r] = Idle /\ req'[r].pc = "cooldown"
        /\ \A p \in Requests \ {r} : req'[p] = req[p]
    BY <1>0, <1>7 DEF RequestMail, Asked, Idle, TypeOK
  <2>2. PasswordsStay
    BY <1>7 DEF RequestMail, PasswordsStay, Live
  <2>. QED
    BY <1>0, <1>7, <2>1, <2>2, SessionsMove DEF RequestMail
<1>8. CASE UseToken(r)
  <2>1. /\ req[r] = Idle /\ req'[r].pc \in {"idle", "find"}
        /\ \A p \in Requests \ {r} : req'[p] = req[p]
    <3>1. req[r] = Idle
      BY <1>8 DEF UseToken, Asked
    <3>2. PICK op \in {"verify", "reset"}, t \in tokens :
            \/ UNCHANGED req
            \/ req' = [req EXCEPT ![r] = [Idle EXCEPT !.op = op, !.pc = "find", !.token = t]]
      BY <1>8 DEF UseToken
    <3>. DEFINE q == [Idle EXCEPT !.op = op, !.pc = "find", !.token = t]
    <3>3. q.pc = "find"
      BY DEF Idle
    <3>4. UNCHANGED req \/ req' = [req EXCEPT ![r] = q]
      BY <3>2
    <3>. HIDE DEF q
    <3>. QED
      BY <1>0, <3>1, <3>3, <3>4 DEF TypeOK
  <2>2. PasswordsStay
    BY <1>8 DEF UseToken, PasswordsStay, Live
  <2>. QED
    BY <1>0, <1>8, <2>1, <2>2, SessionsMove DEF UseToken
<1>. QED
  BY <1>1, <1>3, <1>4, <1>5, <1>6, <1>7, <1>8 DEF Start

(* The later steps that write no session and set no password.              *)
LEMMA SessionsContinue ==
  ASSUME SessionsInv, TypeInv', NEW r \in Requests,
         \/ CreateUserToken(r) \/ CheckCooldown(r) \/ SendMail(r) \/ StoreToken(r)
         \/ FindUser(r) \/ SetVerified(r) \/ (SetPassword(r) /\ ~Live(req[r].user))
         \/ (Die(r) /\ ~At(r, "invalidate"))
  PROVE  SessionsInv'
<1>. USE Blanks DEF History, store, SessionsInv
<1>0. /\ TypeOK /\ 0 \notin ended /\ req[r] \in Request /\ Shaped(req[r])
      /\ req' \in [Requests -> Request]
  BY DEF TypeInv, TypeOK, OneOwner
<1>1. ASSUME Done(r), PasswordsStay, req[r].pc # "invalidate",
             UNCHANGED <<sessions, issued, wallet, ended, unfinished>>
      PROVE  SessionsInv'
  <2>1. req'[r].pc = "idle" /\ \A p \in Requests \ {r} : req'[p] = req[p]
    BY <1>0, <1>1 DEF Done, TypeOK
  <2>. QED
    BY <1>1, <2>1, SessionsMove
<1>2. ASSUME NEW u \in Users, req'[r].pc = "put", req'[r].user = u,
             req'[r].session = NewSession(u), \A p \in Requests \ {r} : req'[p] = req[p],
             PasswordsStay, req[r].pc # "invalidate",
             UNCHANGED <<sessions, issued, wallet, ended, unfinished>>
      PROVE  SessionsInv'
  <2>1. NewSession(u).id = 0 /\ NewSession(u).gen = account[u].pass
    BY <1>0, NewSessions
  <2>2. ~Outdated(u, account[u].pass)
    BY <1>0 DEF Outdated, TypeOK, Account
  <2>. QED
    BY <1>0, <1>2, <2>1, <2>2, SessionsMove
<1>3. CASE CreateUserToken(r)
  <2>. DEFINE u == req[r].user
  <2>1. u \in Users /\ req[r].pc = "insert"
    BY <1>0, <1>3 DEF CreateUserToken, At, Shaped
  <2>2. CASE Taken(u) /\ Done(r) /\ UNCHANGED <<account, proven>>
    <3>1. PasswordsStay
      BY <2>2 DEF PasswordsStay, Live
    <3>. QED
      BY <1>1, <1>3, <2>1, <2>2, <3>1 DEF CreateUserToken
  <2>3. CASE /\ ~Taken(u) /\ Insert(u, TRUE)
             /\ req' = [req EXCEPT ![r].pc = "put",
                                   ![r].session = [NoSession EXCEPT !.user = u]]
    <3>1. /\ req'[r].pc = "put" /\ req'[r].user = u
          /\ req'[r].session = [NoSession EXCEPT !.user = u]
          /\ \A p \in Requests \ {r} : req'[p] = req[p]
      BY <1>0, <2>3 DEF TypeOK, Request
    <3>2. ~Live(u)
      BY <2>1, <2>3 DEF Taken, UsersByEmail
    <3>3. account[u].pass = 0
      BY <2>1, <3>2 DEF OldSessions
    <3>4. [NoSession EXCEPT !.user = u] = NewSession(u)
      BY <3>3 DEF NewSession, NoSession
    <3>5. PasswordsStay
      BY <1>0, <2>1, <2>3, <3>2 DEF PasswordsStay, Insert, Live, TypeOK, Account
    <3>. QED
      BY <1>2, <1>3, <2>1, <3>1, <3>4, <3>5 DEF CreateUserToken
  <2>. QED
    BY <1>3, <2>2, <2>3 DEF CreateUserToken
<1>4. CASE CheckCooldown(r)
  <2>1. PasswordsStay /\ req[r].pc = "cooldown"
    BY <1>4 DEF CheckCooldown, PasswordsStay, Live, At
  <2>2. CASE Goto(r, "mail")
    <3>1. req'[r].pc = "mail" /\ \A p \in Requests \ {r} : req'[p] = req[p]
      BY <1>0, <2>2 DEF Goto, TypeOK, Request
    <3>. QED
      BY <1>4, <2>1, <3>1, SessionsMove DEF CheckCooldown
  <2>. QED
    BY <1>1, <1>4, <2>1, <2>2 DEF CheckCooldown
<1>5. CASE SendMail(r)
  <2>1. PasswordsStay /\ req[r].pc = "mail"
    BY <1>5 DEF SendMail, PasswordsStay, Live, At
  <2>2. req'[r].pc = "store" /\ \A p \in Requests \ {r} : req'[p] = req[p]
    BY <1>0, <1>5 DEF SendMail, TypeOK, Request
  <2>. QED
    BY <1>5, <2>1, <2>2, SessionsMove DEF SendMail
<1>6. CASE StoreToken(r)
  <2>1. PasswordsStay /\ req[r].pc = "store"
    BY <1>6 DEF StoreToken, PasswordsStay, Live, At
  <2>. QED
    BY <1>1, <1>6, <2>1 DEF StoreToken
<1>7. CASE FindUser(r)
  <2>1. PasswordsStay /\ req[r].pc = "find"
    BY <1>7 DEF FindUser, PasswordsStay, Live, At
  <2>2. ASSUME NEW u \in Owner(req[r].token), ~Done(r)
        PROVE  SessionsInv'
    <3>1. u \in Users
      BY DEF Owner, UsersByEmail
    <3>2. CASE req' = [req EXCEPT ![r].pc = "put", ![r].user = u, ![r].session = NewSession(u)]
      <4>1. /\ req'[r].pc = "put" /\ req'[r].user = u /\ req'[r].session = NewSession(u)
            /\ \A p \in Requests \ {r} : req'[p] = req[p]
        BY <1>0, <3>2 DEF TypeOK, Request
      <4>. QED
        BY <1>2, <1>7, <2>1, <3>1, <4>1 DEF FindUser
    <3>3. CASE \/ req' = [req EXCEPT ![r].pc = "password", ![r].user = u,
                                     ![r].session = [NoSession EXCEPT !.user = u]]
               \/ req' = [req EXCEPT ![r].pc = "verified", ![r].user = u]
      <4>1. /\ req'[r].pc \in {"password", "verified"}
            /\ \A p \in Requests \ {r} : req'[p] = req[p]
        BY <1>0, <3>3 DEF TypeOK, Request
      <4>. QED
        BY <1>7, <2>1, <4>1, SessionsMove DEF FindUser
    <3>4. PICK v \in Owner(req[r].token) :
            \/ req' = [req EXCEPT ![r].pc = "put", ![r].user = v, ![r].session = NewSession(v)]
            \/ req' = [req EXCEPT ![r].pc = "password", ![r].user = v,
                                  ![r].session = [NoSession EXCEPT !.user = v]]
            \/ req' = [req EXCEPT ![r].pc = "verified", ![r].user = v]
      BY <1>7, <2>2 DEF FindUser
    <3>5. u = v
      BY DEF Owner
    <3>. QED
      BY <3>2, <3>3, <3>4, <3>5
  <2>. QED
    BY <1>1, <1>7, <2>1, <2>2 DEF FindUser
<1>8. CASE SetVerified(r)
  <2>. DEFINE u == req[r].user
  <2>1. u \in Users /\ req[r].pc = "verified"
    BY <1>0, <1>8 DEF SetVerified, At, Shaped
  <2>2. PasswordsStay
    BY <1>0, <1>8, <2>1 DEF SetVerified, PasswordsStay, Live, TypeOK, Account
  <2>3. CASE req' = [req EXCEPT ![r].pc = "put", ![r].session = NewSession(u)]
    <3>1. /\ req'[r].pc = "put" /\ req'[r].user = u /\ req'[r].session = NewSession(u)
          /\ \A p \in Requests \ {r} : req'[p] = req[p]
      BY <1>0, <2>3 DEF TypeOK, Request
    <3>. QED
      BY <1>2, <1>8, <2>1, <2>2, <3>1 DEF SetVerified
  <2>. QED
    BY <1>1, <1>8, <2>1, <2>2, <2>3 DEF SetVerified
<1>9. CASE SetPassword(r) /\ ~Live(req[r].user)
  <2>1. PasswordsStay /\ req[r].pc = "password"
    BY <1>9 DEF SetPassword, PasswordsStay, Live, At
  <2>. QED
    BY <1>1, <1>9, <2>1 DEF SetPassword
<1>10. CASE Die(r) /\ ~At(r, "invalidate")
  <2>1. PasswordsStay /\ req[r].pc # "invalidate"
    BY <1>10 DEF Die, PasswordsStay, Live, At
  <2>. QED
    BY <1>1, <1>10, <2>1 DEF Die
<1>. QED
  BY <1>3, <1>4, <1>5, <1>6, <1>7, <1>8, <1>9, <1>10

(* The one write of a session: under a new id, or in the place of the one  *)
(* that was read.                                                          *)
LEMMA SessionsPut ==
  ASSUME SessionsInv, TypeInv', NEW r \in Requests, PutSession(r)  PROVE SessionsInv'
<1>. USE Blanks DEF History, SessionsInv
<1>. DEFINE s == req[r].session
            new == [s EXCEPT !.id = IF @ = 0 THEN issued + 1 ELSE @, !.tok = issued + 1,
                             !.rc = @ + 1, !.late = @ \/ req[r].late]
            handed == [user |-> s.user, id |-> new.id, tok |-> issued + 1]
<1>0. /\ TypeOK /\ issued \in Nat /\ s \in Session /\ s.id \in Nat
      /\ At(r, "put") /\ s.user = req[r].user
  BY DEF TypeInv, TypeOK, Request, Session, PutSession, At, Shaped
<1>1. /\ new.id = (IF s.id = 0 THEN issued + 1 ELSE s.id) /\ new.user = s.user
      /\ new.gen = s.gen /\ (Late(r) => new.late)
  BY <1>0 DEF Session, Late
<1>2. /\ issued' = issued + 1 /\ wallet' = wallet \cup {handed}
      /\ sessions' = {x \in sessions : x.id # new.id} \cup {new}
      /\ UNCHANGED <<account, ended, unfinished>>
  BY DEF PutSession
<1>3. req'[r].pc \in {"idle", "cooldown"} /\ \A p \in Requests \ {r} : req'[p] = req[p]
  BY <1>0 DEF PutSession, Done, TypeOK, Request
<1>4. handed.id = new.id /\ handed.user = new.user
  BY <1>1
<1>. HIDE DEF new, handed
<1>5. \A v \in wallet : v.id \in 1 .. issued /\ (v.id = new.id => v.user = new.user)
  BY <1>0, <1>1 DEF OneOwner, Handed
<1>6. OneOwner'
  <2>1. new.id \in 1 .. issued'
    BY <1>0, <1>1, <1>2 DEF OneOwner, Handed
  <2>2. \A w \in wallet' : w.id \in 1 .. issued'
    BY <1>0, <1>2, <1>4, <1>5, <2>1
  <2>3. \A v, w \in wallet' : v.id = w.id => v.user = w.user
    BY <1>2, <1>4, <1>5 DEF OneOwner
  <2>4. \A x \in sessions' : Handed(x)'
    BY <1>2, <1>4 DEF OneOwner, Handed
  <2>5. \A p \in Requests : At(p, "put")' /\ req'[p].session.id # 0 => Handed(req[p].session)'
    BY <1>2, <1>3 DEF OneOwner, Handed, At
  <2>6. \A x, y \in sessions' : x.id = y.id => x = y
    BY <1>2 DEF OneOwner
  <2>7. ended' \subseteq 1 .. issued'
    BY <1>0, <1>2 DEF OneOwner
  <2>. QED
    BY <2>2, <2>3, <2>4, <2>5, <2>6, <2>7 DEF OneOwner
<1>7. EndedStaysEnded'
  <2>1. new.id \in ended => new.late
    BY <1>0, <1>1 DEF OneOwner, LateIfEnded
  <2>. QED
    BY <1>2, <2>1 DEF EndedStaysEnded
<1>8. LateIfEnded'
  BY <1>2, <1>3 DEF LateIfEnded, At, Late
<1>9. \A u, gen : Outdated(u, gen)' = Outdated(u, gen)
  BY <1>2 DEF Outdated, Live
<1>10. \A u \in Users : Forgiven(u) => Forgiven(u)'
  <2>. SUFFICES ASSUME NEW u, NEW p \in Requests, At(p, "invalidate"), req[p].user = u,
                       req[p].session.gen = account[u].pass
                PROVE  Forgiven(u)'
    BY <1>2 DEF Forgiven
  <2>1. req'[p] = req[p]
    BY <1>0, <1>3 DEF At
  <2>. QED
    BY <1>2, <2>1 DEF Forgiven, At
<1>11. OldSessions'
  <2>1. Outdated(new.user, new.gen) => new.late \/ Forgiven(new.user)
    BY <1>0, <1>1 DEF OldSessions
  <2>2. \A x \in sessions' : Outdated(x.user, x.gen)' => x.late \/ Forgiven(x.user)'
    BY <1>2, <1>9, <1>10, <2>1 DEF OldSessions, Outdated, Live
  <2>. SUFFICES ASSUME NEW p \in Requests, At(p, "put")' \/ At(p, "invalidate")'
                PROVE  /\ p # r /\ req'[p] = req[p] /\ Late(p)' = Late(p)
                       /\ (Forgiven(req[p].user) => Forgiven(req[p].user)')
                       /\ Outdated(req[p].user, req[p].session.gen)' =
                            Outdated(req[p].user, req[p].session.gen)
    BY <1>2, <2>2 DEF OldSessions, At, Live
  <2>3. p # r /\ req'[p] = req[p]
    BY <1>3 DEF At
  <2>4. req[p].user \in Users
    BY <2>3 DEF TypeInv, Shaped, At
  <2>5. (Forgiven(req[p].user) => Forgiven(req[p].user)')
    BY <1>10, <2>3, <2>4 DEF Forgiven
  <2>. QED
    BY <1>2, <2>3, <2>5 DEF Late, Outdated, Live
<1>. QED
  BY <1>6, <1>7, <1>8, <1>11

(* A password is set: the request that did is going to end the sessions.   *)
LEMMA SessionsPassword ==
  ASSUME SessionsInv, TypeInv', NEW r \in Requests, SetPassword(r), Live(req[r].user)
  PROVE  SessionsInv'
<1>. USE DEF SessionsInv
<1>. DEFINE u == req[r].user
<1>0. /\ TypeOK /\ u \in Users /\ account[u] \in Account /\ At(r, "password")
      /\ req[r] \in Request /\ req[r].session \in Session
  BY DEF TypeInv, TypeOK, Request, SetPassword, At, Shaped
<1>1. /\ account'[u].pass = account[u].pass + 1 /\ account'[u].state = account[u].state
      /\ \A v \in Users \ {u} : account'[v] = account[v]
      /\ UNCHANGED <<sessions, issued, wallet, ended, unfinished>>
  BY <1>0 DEF SetPassword, TypeOK, Account
<1>2. /\ req'[r].pc = "invalidate" /\ req'[r].user = u
      /\ req'[r].session.gen = account[u].pass + 1
      /\ \A p \in Requests \ {r} : req'[p] = req[p]
  BY <1>0 DEF SetPassword, TypeOK, Request, Session
<1>3. Forgiven(u)'
  BY <1>1, <1>2 DEF Forgiven, At
<1>4. OneOwner' /\ EndedStaysEnded' /\ LateIfEnded'
  BY <1>1, <1>2 DEF OneOwner, EndedStaysEnded, LateIfEnded, Handed, At, Late
<1>5. ASSUME NEW v \in Users \ {u}, NEW gen
      PROVE  (Forgiven(v) => Forgiven(v)') /\ (Outdated(v, gen)' = Outdated(v, gen))
  <2>1. Outdated(v, gen)' = Outdated(v, gen)
    BY <1>1 DEF Outdated, Live
  <2>2. ASSUME NEW p \in Requests, At(p, "invalidate"), req[p].user = v
        PROVE  req'[p] = req[p]
    BY <1>0, <1>2, <2>2 DEF At
  <2>. QED
    BY <1>1, <2>1, <2>2 DEF Forgiven, At
<1>6. OldSessions'
  <2>1. \A x \in sessions : Outdated(x.user, x.gen)' => x.late \/ Forgiven(x.user)'
    <3>. SUFFICES ASSUME NEW x \in sessions, Outdated(x.user, x.gen)', x.user # u
                  PROVE  x.late \/ Forgiven(x.user)'
      BY <1>2, <1>3 DEF Forgiven
    <3>1. x.user \in Users \ {u}
      BY DEF Outdated, Live
    <3>2. Outdated(x.user, x.gen)
      BY <1>5, <3>1
    <3>3. x.late \/ Forgiven(x.user)
      BY <3>2 DEF OldSessions
    <3>. QED
      BY <1>5, <3>1, <3>3
  <2>2. ASSUME NEW p \in Requests \ {r}, req[p].user \in Users \ {u},
               Outdated(req[p].user, req[p].session.gen)',
               At(p, "put") \/ (At(p, "invalidate") /\ req[p].op = "reset")
        PROVE  Late(p) \/ Forgiven(req[p].user)'
    <3>1. req'[p] = req[p]
      BY <1>2
    <3>2. Outdated(req[p].user, req[p].session.gen)
      BY <1>5, <2>2, <3>1 DEF Outdated, Live
    <3>3. Late(p) \/ Forgiven(req[p].user)
      BY <2>2, <3>2 DEF OldSessions
    <3>. QED
      BY <1>5, <2>2, <3>1, <3>3 DEF Forgiven
  <2>3. ASSUME NEW p \in Requests,
               (Outdated(req[p].user, req[p].session.gen))',
               (At(p, "put") \/ (At(p, "invalidate") /\ req[p].op = "reset"))'
        PROVE  (Late(p) \/ Forgiven(req[p].user))'
    <3>1. CASE req'[p].user = u
      BY <1>2, <1>3, <3>1 DEF Forgiven
    <3>2. CASE req'[p].user # u
      <4>1. p # r /\ req'[p] = req[p] /\ req[p].user \in Users
        BY <1>2, <2>3, <3>2 DEF Outdated, Live
      <4>2. At(p, "put") \/ (At(p, "invalidate") /\ req[p].op = "reset")
        BY <2>3, <4>1 DEF At
      <4>3. Late(p) \/ Forgiven(req[p].user)'
        BY <2>2, <2>3, <3>2, <4>1, <4>2
      <4>. QED
        BY <4>1, <4>3 DEF Late, Forgiven
    <3>. QED
      BY <3>1, <3>2
  <2>4. \A v \in Users : ~Live(v)' => account'[v].pass = 0
    BY <1>0, <1>1 DEF OldSessions, Live
  <2>. QED
    BY <1>1, <2>1, <2>3, <2>4 DEF OldSessions, Live
<1>. QED
  BY <1>4, <1>6

(* The sessions of an account end.  The session that is excepted goes back *)
(* to this password; if there is a later one, another request set it.      *)
LEMMA SessionsInvalidate ==
  ASSUME SessionsInv, TypeInv', NEW r \in Requests, Invalidate(r)  PROVE SessionsInv'
<1>. USE DEF SessionsInv
<1>1. PICK u \in Users, id \in Nat, g \in Nat :
        u = req[r].user /\ id = req[r].session.id /\ g = req[r].session.gen
  BY DEF TypeInv, TypeOK, Request, Session, Invalidate, At, Shaped
<1>2. /\ TypeOK /\ Shaped(req[r]) /\ At(r, "invalidate")
      /\ \A x \in sessions : x \in Session /\ x.gen \in Nat
      /\ account[u].pass \in Nat
  BY <1>1, SessionTypes DEF TypeInv, Invalidate
<1>3. PICK gone \in SUBSET sessions : gone = {x \in sessions : x.user = u /\ x.id # id}
  OBVIOUS
<1>4. PICK late \in SUBSET Requests :
        late = {p \in Requests \ {r} : req[p].user = u /\
                  (At(p, "put") \/ (At(p, "invalidate") /\ req[p].op = "reset"))}
  OBVIOUS
<1>5. /\ sessions' = {IF x.id = id /\ x.user = u /\ x.gen < g
                        THEN [x EXCEPT !.gen = g] ELSE x : x \in sessions \ gone}
      /\ ended' = ended \cup {x.id : x \in gone}
      /\ UNCHANGED <<account, issued, wallet, unfinished>>
  BY <1>1, <1>3 DEF Invalidate, Removed
<1>6. req' = [MarkLate(late) EXCEPT ![r] =
                IF req[r].op = "change" THEN Idle ELSE [req[r] EXCEPT !.pc = "put"]]
  BY <1>1, <1>4 DEF Invalidate
<1>7. \A p \in Requests \ {r} :
        /\ req'[p].pc = req[p].pc /\ req'[p].op = req[p].op /\ req'[p].user = req[p].user
        /\ req'[p].session = req[p].session
        /\ req'[p].late = (req[p].late \/ p \in late)
  <2>. SUFFICES ASSUME NEW p \in Requests \ {r}
                PROVE  /\ req'[p].pc = req[p].pc /\ req'[p].op = req[p].op
                       /\ req'[p].user = req[p].user /\ req'[p].session = req[p].session
                       /\ req'[p].late = (req[p].late \/ p \in late)
    OBVIOUS
  <2>1. MarkLate(late) \in [Requests -> Request] /\ req[p] \in Request
        /\ MarkLate(late)[p] = [req[p] EXCEPT !.late = MarkLate(late)[p].late]
        /\ MarkLate(late)[p].late = (req[p].late \/ p \in late)
    BY <1>2, Marked DEF TypeOK
  <2>2. req'[p] = MarkLate(late)[p]
    BY <1>6, <2>1
  <2>. QED
    BY <2>1, <2>2 DEF Request
<1>8. \/ req'[r].pc = "idle"
      \/ /\ req'[r].pc = "put" /\ req[r].op = "reset" /\ id = 0 /\ req'[r].user = u
         /\ req'[r].session = req[r].session /\ Late(r)' = Late(r)
  <2>1. MarkLate(late) \in [Requests -> Request] /\ req[r] \in Request
    BY <1>2, Marked DEF TypeOK
  <2>2. req'[r] = IF req[r].op = "change" THEN Idle ELSE [req[r] EXCEPT !.pc = "put"]
    BY <1>6, <2>1
  <2>. QED
    BY <1>1, <1>2, <2>1, <2>2, Blanks DEF Shaped, At, Request, Late
<1>9. ASSUME NEW y \in sessions'
      PROVE  \E x \in sessions \ gone :
               /\ y.id = x.id /\ y.user = x.user /\ y.late = x.late
               /\ y.gen \in Nat /\ x.gen <= y.gen /\ (x.user = u => g <= y.gen)
               /\ (x.user # u => y = x)
               /\ y = IF x.id = id /\ x.user = u /\ x.gen < g THEN [x EXCEPT !.gen = g] ELSE x
  BY <1>2, <1>3, <1>5 DEF Session
<1>10. \A v : (Forgiven(v) /\ (v # u \/ g # account[u].pass)) => Forgiven(v)'
  <2>. SUFFICES ASSUME NEW v, NEW p \in Requests, At(p, "invalidate"), req[p].user = v,
                       req[p].session.gen = account[v].pass, v # u \/ g # account[u].pass
                PROVE  Forgiven(v)'
    BY <1>5 DEF Forgiven
  <2>1. p # r
    BY <1>1
  <2>. QED
    BY <1>5, <1>7, <2>1 DEF Forgiven, At
<1>11. \A v, gen : Outdated(v, gen)' = Outdated(v, gen)
  BY <1>5 DEF Outdated, Live
<1>12. OneOwner'
  <2>1. ended' \subseteq 1 .. issued'
    BY <1>3, <1>5 DEF OneOwner, Handed
  <2>2. \A y \in sessions' : Handed(y)'
    BY <1>5, <1>9 DEF OneOwner, Handed
  <2>3. \A y, z \in sessions' : y.id = z.id => y = z
    <3>. SUFFICES ASSUME NEW y \in sessions', NEW z \in sessions', y.id = z.id
                  PROVE  y = z
      OBVIOUS
    <3>1. PICK x \in sessions \ gone :
            y.id = x.id
            /\ y = IF x.id = id /\ x.user = u /\ x.gen < g THEN [x EXCEPT !.gen = g] ELSE x
      BY <1>9
    <3>2. PICK w \in sessions \ gone :
            z.id = w.id
            /\ z = IF w.id = id /\ w.user = u /\ w.gen < g THEN [w EXCEPT !.gen = g] ELSE w
      BY <1>9
    <3>3. x = w
      BY <3>1, <3>2 DEF OneOwner
    <3>. QED
      BY <3>1, <3>2, <3>3
  <2>4. \A p \in Requests : At(p, "put")' /\ req'[p].session.id # 0 => Handed(req[p].session)'
    <3>. SUFFICES ASSUME NEW p \in Requests, At(p, "put")', req'[p].session.id # 0
                  PROVE  Handed(req[p].session)'
      OBVIOUS
    <3>1. p # r
      BY <1>1, <1>8 DEF At
    <3>. QED
      BY <1>5, <1>7, <3>1 DEF OneOwner, Handed, At
  <2>. QED
    BY <1>5, <2>1, <2>2, <2>3, <2>4 DEF OneOwner
<1>13. EndedStaysEnded'
  <2>. SUFFICES ASSUME NEW y \in sessions', y.id \in ended'  PROVE y.late
    BY DEF EndedStaysEnded
  <2>1. PICK x \in sessions \ gone : y.id = x.id /\ y.late = x.late
    BY <1>9
  <2>2. x.id \in ended
    BY <1>3, <1>5, <2>1 DEF OneOwner
  <2>. QED
    BY <2>1, <2>2 DEF EndedStaysEnded
<1>14. LateIfEnded'
  <2>. SUFFICES ASSUME NEW p \in Requests, At(p, "put")', req'[p].session.id \in ended'
                PROVE  Late(p)'
    BY DEF LateIfEnded
  <2>1. p # r
    BY <1>1, <1>3, <1>5, <1>8, <1>12 DEF At, OneOwner
  <2>2. CASE req[p].session.id \in ended
    BY <1>7, <2>1, <2>2 DEF LateIfEnded, At, Late
  <2>3. CASE req[p].session.id \notin ended
    <3>1. PICK x \in gone : x.id = req[p].session.id /\ x.user = u
      BY <1>3, <1>5, <1>7, <2>1, <2>3
    <3>2. x.id # 0
      BY <1>3, <3>1 DEF OneOwner, Handed
    <3>3. req[p].session.user = u
      BY <1>3, <1>7, <2>1, <3>1, <3>2 DEF OneOwner, Handed, At
    <3>4. req[p].user = u
      BY <1>7, <2>1, <3>3 DEF TypeInv, Shaped, At
    <3>5. p \in late
      BY <1>4, <1>7, <2>1, <3>4 DEF At
    <3>. QED
      BY <1>7, <2>1, <3>5 DEF Late
  <2>. QED
    BY <2>2, <2>3
<1>15. \A y \in sessions' : Outdated(y.user, y.gen)' => y.late \/ Forgiven(y.user)'
  <2>. SUFFICES ASSUME NEW y \in sessions', Outdated(y.user, y.gen)
                PROVE  y.late \/ Forgiven(y.user)'
    BY <1>5 DEF Outdated, Live
  <2>1. PICK x \in sessions \ gone :
          /\ y.user = x.user /\ y.late = x.late /\ y.gen \in Nat
          /\ x.gen <= y.gen /\ (x.user = u => g <= y.gen)
    BY <1>9
  <2>2. Outdated(x.user, x.gen) /\ (x.user # u \/ g # account[u].pass)
    BY <1>2, <2>1 DEF Outdated, Live, TypeOK, Account
  <2>3. x.late \/ Forgiven(x.user)
    BY <2>2 DEF OldSessions
  <2>4. x.late \/ Forgiven(x.user)'
    BY <1>10, <2>2, <2>3
  <2>. QED
    BY <2>1, <2>4 DEF Forgiven
<1>16. ASSUME NEW p \in Requests \ {r}, Outdated(req[p].user, req[p].session.gen),
              At(p, "put") \/ (At(p, "invalidate") /\ req[p].op = "reset")
       PROVE  Late(p)' \/ Forgiven(req[p].user)'
  <2>1. CASE req[p].user = u
    BY <1>4, <1>7, <1>16, <2>1 DEF Late
  <2>2. CASE req[p].user # u
    <3>1. PICK v : v = req[p].user
      OBVIOUS
    <3>2. Late(p) \/ Forgiven(v)
      BY <1>16, <3>1 DEF OldSessions
    <3>3. Late(p) \/ Forgiven(v)'
      BY <1>10, <2>2, <3>1, <3>2
    <3>. QED
      BY <1>7, <3>1, <3>3 DEF Late, Forgiven
  <2>. QED
    BY <2>1, <2>2
<1>17. ASSUME At(r, "put")', Outdated(u, g)  PROVE Late(r)' \/ Forgiven(u)'
  <2>1. req[r].op = "reset" /\ Late(r)' = Late(r)
    BY <1>8, <1>17 DEF At
  <2>2. Late(r) \/ Forgiven(u)
    BY <1>1, <1>2, <1>17, <2>1 DEF OldSessions
  <2>3. g # account[u].pass
    BY <1>1, <1>2, <1>17 DEF Outdated
  <2>. QED
    BY <1>10, <2>1, <2>2, <2>3
<1>18. OldSessions'
  <2>1. \A p \in Requests : (At(p, "put") /\ Outdated(req[p].user, req[p].session.gen))' =>
          (Late(p) \/ Forgiven(req[p].user))'
    <3>. SUFFICES ASSUME NEW p \in Requests, At(p, "put")',
                         Outdated(req[p].user, req[p].session.gen)'
                  PROVE  Late(p)' \/ Forgiven(req[p].user)'
      OBVIOUS
    <3>1. CASE p = r
      <4>1. req'[r].user = u /\ req'[r].session.gen = g
        BY <1>1, <1>8, <3>1 DEF At
      <4>2. Outdated(u, g)
        BY <1>5, <3>1, <4>1 DEF Outdated, Live
      <4>. QED
        BY <1>17, <3>1, <4>1, <4>2 DEF Forgiven
    <3>2. CASE p # r
      <4>1. At(p, "put") /\ Outdated(req[p].user, req[p].session.gen)
        BY <1>5, <1>7, <3>2 DEF Outdated, Live, At
      <4>. QED
        BY <1>16, <3>2, <4>1
    <3>. QED
      BY <3>1, <3>2
  <2>2. \A p \in Requests :
          (At(p, "invalidate") /\ req[p].op = "reset"
             /\ Outdated(req[p].user, req[p].session.gen))' => (Late(p) \/ Forgiven(req[p].user))'
    <3>. SUFFICES ASSUME NEW p \in Requests, At(p, "invalidate")', (req[p].op = "reset")',
                         Outdated(req[p].user, req[p].session.gen)'
                  PROVE  Late(p)' \/ Forgiven(req[p].user)'
      OBVIOUS
    <3>1. p # r
      BY <1>8 DEF At
    <3>2. At(p, "invalidate") /\ req[p].op = "reset" /\ Outdated(req[p].user, req[p].session.gen)
      BY <1>5, <1>7, <3>1 DEF Outdated, Live, At
    <3>. QED
      BY <1>16, <3>1, <3>2
  <2>. QED
    BY <1>5, <1>15, <2>1, <2>2 DEF OldSessions, Live
<1>. QED
  BY <1>12, <1>13, <1>14, <1>18

(* A request that dies before it has removed the sessions leaves them.     *)
LEMMA SessionsDie ==
  ASSUME SessionsInv, TypeInv', NEW r \in Requests, Die(r), At(r, "invalidate")
  PROVE  SessionsInv'
<1>. USE DEF SessionsInv
<1>1. PICK u \in Users : u = req[r].user
  BY DEF TypeInv, Shaped, At
<1>2. /\ unfinished' = unfinished \cup {u}
      /\ UNCHANGED <<account, sessions, issued, wallet, ended>>
      /\ req'[r].pc = "idle" /\ \A p \in Requests \ {r} : req'[p] = req[p]
  BY <1>1, Blanks DEF Die, Done, store, TypeInv, TypeOK
<1>3. \A v : Forgiven(v) => Forgiven(v)'
  <2>. SUFFICES ASSUME NEW v, v # u, NEW p \in Requests, At(p, "invalidate"), req[p].user = v,
                       req[p].session.gen = account[v].pass
                PROVE  Forgiven(v)'
    BY <1>2 DEF Forgiven
  <2>1. p # r
    BY <1>1
  <2>. QED
    BY <1>2, <2>1 DEF Forgiven, At
<1>4. OneOwner' /\ EndedStaysEnded' /\ LateIfEnded'
  BY <1>2 DEF OneOwner, EndedStaysEnded, LateIfEnded, Handed, At, Late
<1>5. \A x \in sessions' : Outdated(x.user, x.gen)' => x.late \/ Forgiven(x.user)'
  BY <1>2, <1>3 DEF OldSessions, Outdated, Live
<1>6. ASSUME NEW p \in Requests, Outdated(req[p].user, req[p].session.gen)',
             (At(p, "put") \/ (At(p, "invalidate") /\ req[p].op = "reset"))'
      PROVE  Late(p)' \/ Forgiven(req[p].user)'
  <2>1. p # r /\ req'[p] = req[p]
    BY <1>2, <1>6 DEF At
  <2>2. PICK v : v = req[p].user
    OBVIOUS
  <2>3. Late(p) \/ Forgiven(v)
    BY <1>2, <1>6, <2>1, <2>2 DEF OldSessions, Outdated, Live, At
  <2>4. Late(p) \/ Forgiven(v)'
    BY <1>3, <2>3
  <2>. QED
    BY <2>1, <2>2, <2>4 DEF Late, Forgiven
<1>7. OldSessions'
  <2>1. \A p \in Requests : (At(p, "put") /\ Outdated(req[p].user, req[p].session.gen))' =>
          (Late(p) \/ Forgiven(req[p].user))'
    BY <1>6
  <2>2. \A p \in Requests :
          (At(p, "invalidate") /\ req[p].op = "reset"
             /\ Outdated(req[p].user, req[p].session.gen))' => (Late(p) \/ Forgiven(req[p].user))'
    BY <1>6
  <2>. QED
    BY <1>2, <1>5, <2>1, <2>2 DEF OldSessions, Live
<1>. QED
  BY <1>4, <1>7

(* Somebody logs out; requests that will write the session become late.    *)
LEMMA SessionsLogout ==
  ASSUME SessionsInv, TypeInv', Logout  PROVE SessionsInv'
<1>. USE DEF SessionsInv
<1>1. PICK w \in wallet :
        /\ sessions' = {x \in sessions : x.id # w.id} /\ ended' = ended \cup {w.id}
        /\ req' = MarkLate({p \in Requests : At(p, "put") /\ req[p].session.id = w.id})
        /\ UNCHANGED <<account, issued, wallet, unfinished>>
  BY DEF Logout
<1>. DEFINE late == {p \in Requests : At(p, "put") /\ req[p].session.id = w.id}
<1>2. \A p \in Requests :
        /\ req'[p].pc = req[p].pc /\ req'[p].op = req[p].op /\ req'[p].user = req[p].user
        /\ req'[p].session = req[p].session
        /\ req'[p].late = (req[p].late \/ p \in late)
  <2>1. \A p \in Requests :
          /\ req'[p] = [req[p] EXCEPT !.late = req'[p].late]
          /\ req'[p].late = (req[p].late \/ p \in late)
    BY <1>1, Marked
  <2>2. \A p \in Requests : req[p] \in Request
    BY SessionTypes
  <2>. QED
    BY <2>1, <2>2 DEF Request
<1>3. OneOwner'
  <2>1. ended' \subseteq 1 .. issued'
    BY <1>1 DEF OneOwner
  <2>2. \A p \in Requests : At(p, "put")' /\ req'[p].session.id # 0 => Handed(req[p].session)'
    <3>. SUFFICES ASSUME NEW p \in Requests, At(p, "put")', req'[p].session.id # 0
                  PROVE  Handed(req[p].session)'
      OBVIOUS
    <3>1. At(p, "put") /\ req[p].session.id # 0
      BY <1>2 DEF At
    <3>2. Handed(req[p].session)
      BY <3>1 DEF OneOwner
    <3>. QED
      BY <1>1, <1>2, <3>2 DEF Handed
  <2>. QED
    BY <1>1, <2>1, <2>2 DEF OneOwner, Handed
<1>4. EndedStaysEnded'
  BY <1>1 DEF EndedStaysEnded
<1>5. LateIfEnded'
  <2>. SUFFICES ASSUME NEW p \in Requests, At(p, "put")', req'[p].session.id \in ended'
                PROVE  Late(p)'
    BY DEF LateIfEnded
  <2>1. At(p, "put")
    BY <1>2 DEF At
  <2>2. CASE req[p].session.id \in ended
    BY <1>2, <2>1, <2>2 DEF LateIfEnded, Late
  <2>3. CASE req[p].session.id \notin ended
    BY <1>1, <1>2, <2>1, <2>3 DEF Late
  <2>. QED
    BY <2>2, <2>3
<1>6. \A v : Forgiven(v)' = Forgiven(v)
  BY <1>1, <1>2 DEF Forgiven, At
<1>7. \A v, gen : Outdated(v, gen)' = Outdated(v, gen)
  BY <1>1 DEF Outdated, Live
<1>8. OldSessions'
  <2>1. \A x \in sessions' : Outdated(x.user, x.gen)' => x.late \/ Forgiven(x.user)'
    BY <1>1, <1>6, <1>7 DEF OldSessions
  <2>2. \A p \in Requests :
          /\ Outdated(req[p].user, req[p].session.gen)' =
               Outdated(req[p].user, req[p].session.gen)
          /\ Forgiven(req[p].user)' = Forgiven(req[p].user)
          /\ Late(p) => Late(p)'
          /\ At(p, "put")' = At(p, "put") /\ At(p, "invalidate")' = At(p, "invalidate")
          /\ (req[p].op = "reset")' = (req[p].op = "reset")
    <3>. SUFFICES ASSUME NEW p \in Requests
                  PROVE  /\ Outdated(req[p].user, req[p].session.gen)' =
                              Outdated(req[p].user, req[p].session.gen)
                         /\ Forgiven(req[p].user)' = Forgiven(req[p].user)
                         /\ Late(p) => Late(p)'
                         /\ At(p, "put")' = At(p, "put")
                         /\ At(p, "invalidate")' = At(p, "invalidate")
                         /\ (req[p].op = "reset")' = (req[p].op = "reset")
      OBVIOUS
    <3>1. PICK v : v = req[p].user
      OBVIOUS
    <3>2. Forgiven(req[p].user)' = Forgiven(req[p].user)
      <4>1. Forgiven(v)' = Forgiven(v)
        BY <1>6
      <4>. QED
        BY <1>2, <3>1, <4>1 DEF Forgiven
    <3>3. Outdated(req[p].user, req[p].session.gen)' = Outdated(req[p].user, req[p].session.gen)
      BY <1>1, <1>2 DEF Outdated, Live
    <3>. QED
      BY <1>2, <3>2, <3>3 DEF Late, At
  <2>. QED
    BY <1>1, <2>1, <2>2 DEF OldSessions, Live
<1>. QED
  BY <1>3, <1>4, <1>5, <1>8

(* A password that is edited with the record is forgiven; a deleted account*)
(* has none.                                                               *)
LEMMA SessionsEdit ==
  ASSUME SessionsInv, TypeInv', EditPassword \/ DeleteUser \/ CoolDown  PROVE SessionsInv'
<1>. USE DEF SessionsInv
<1>1. TypeOK
  BY DEF TypeInv
<1>2. UNCHANGED <<sessions, issued, wallet, req, ended>>
  BY DEF EditPassword, DeleteUser, CoolDown, History
<1>3. \/ \E u \in Users :
           /\ \A v \in Users \ {u} : account'[v] = account[v] /\ (v \in unfinished <=> v \in unfinished')
           /\ \/ u \in unfinished' /\ account'[u].state = "live"
              \/ account'[u].state = "gone" /\ account'[u].pass = 0
      \/ UNCHANGED <<account, unfinished>>
  <2>1. CASE EditPassword
    <3>1. PICK u \in Users : /\ Live(u) /\ account' = [account EXCEPT ![u].pass = @ + 1]
                            /\ unfinished' = unfinished \cup {u}
      BY <2>1 DEF EditPassword
    <3>2. account'[u].state = "live" /\ \A v \in Users \ {u} : account'[v] = account[v]
      BY <1>1, <3>1 DEF TypeOK, Account, Live
    <3>3. u \in unfinished' /\ \A v \in Users \ {u} : v \in unfinished <=> v \in unfinished'
      BY <3>1
    <3>. QED
      BY <3>2, <3>3
  <2>2. CASE DeleteUser
    <3>1. PICK u \in Users :
            /\ account' = [account EXCEPT ![u].state = "gone", ![u].verified = FALSE, ![u].pass = 0]
            /\ unfinished' = unfinished \ {u}
      BY <2>2 DEF DeleteUser
    <3>2. account'[u].state = "gone" /\ account'[u].pass = 0
          /\ \A v \in Users \ {u} : account'[v] = account[v]
      BY <1>1, <3>1 DEF TypeOK, Account
    <3>3. \A v \in Users \ {u} : v \in unfinished <=> v \in unfinished'
      BY <3>1
    <3>. QED
      BY <3>2, <3>3
  <2>3. CASE CoolDown
    BY <2>3 DEF CoolDown, History
  <2>. QED
    BY <2>1, <2>2, <2>3
<1>4. OneOwner' /\ EndedStaysEnded' /\ LateIfEnded'
  BY <1>2 DEF OneOwner, EndedStaysEnded, LateIfEnded, Handed, At, Late
<1>5. ASSUME NEW v, NEW gen \in Nat, Outdated(v, gen)'
      PROVE  Forgiven(v)' \/ (Outdated(v, gen) /\ (Forgiven(v) => Forgiven(v)'))
  BY <1>2, <1>3, <1>5 DEF Outdated, Forgiven, Live, At
<1>6. \A x \in sessions' : Outdated(x.user, x.gen)' => x.late \/ Forgiven(x.user)'
  BY <1>2, <1>5, SessionTypes DEF OldSessions
<1>7. ASSUME NEW p \in Requests, Outdated(req[p].user, req[p].session.gen)',
             (At(p, "put") \/ (At(p, "invalidate") /\ req[p].op = "reset"))'
      PROVE  Late(p)' \/ Forgiven(req[p].user)'
  <2>1. PICK v : \E gen \in Nat : v = req[p].user /\ gen = req[p].session.gen
    BY SessionTypes
  <2>2. PICK gen \in Nat : v = req[p].user /\ gen = req[p].session.gen
    BY <2>1
  <2>3. Outdated(v, gen)'
    BY <1>2, <1>7, <2>2 DEF Outdated, Live
  <2>4. Outdated(v, gen) => Late(p) \/ Forgiven(v)
    BY <1>2, <1>7, <2>2 DEF OldSessions, At
  <2>5. Late(p) \/ Forgiven(v)'
    BY <1>5, <2>3, <2>4
  <2>. QED
    BY <1>2, <2>2, <2>5 DEF Late, Forgiven
<1>8. \A v \in Users : ~Live(v)' => account'[v].pass = 0
  BY <1>3 DEF OldSessions, Live
<1>9. OldSessions'
  BY <1>6, <1>7, <1>8 DEF OldSessions
<1>. QED
  BY <1>4, <1>9

LEMMA SessionsInitInv == Init => SessionsInv
<1>. SUFFICES ASSUME Init  PROVE SessionsInv
  OBVIOUS
<1>1. /\ sessions = {} /\ wallet = {} /\ ended = {} /\ issued = 0
      /\ \A r \in Requests : req[r].pc = "idle"
      /\ \A u \in Users : account[u].pass = 0
  BY Blanks DEF Init
<1>. QED
  BY <1>1, TypeInitInv
     DEF SessionsInv, OneOwner, EndedStaysEnded, LateIfEnded, OldSessions, At

LEMMA SessionsNextInv == SessionsInv /\ [Next]_vars => SessionsInv'
<1>. SUFFICES ASSUME SessionsInv, [Next]_vars  PROVE SessionsInv'
  OBVIOUS
<1>1. TypeInv'
  BY TypeNextInv DEF SessionsInv
<1>2. ASSUME NEW r \in Requests, Continue(r)  PROVE SessionsInv'
  BY <1>1, <1>2, SessionsContinue, SessionsPut, SessionsPassword, SessionsInvalidate DEF Continue
<1>3. ASSUME NEW r \in Requests, Die(r)  PROVE SessionsInv'
  BY <1>1, <1>3, SessionsContinue, SessionsDie
<1>4. CASE UNCHANGED vars
  BY <1>1, <1>4 DEF vars, store, SessionsInv, OneOwner, EndedStaysEnded, LateIfEnded,
       OldSessions, Handed, At, Late, Outdated, Forgiven, Live
<1>. QED
  BY <1>1, <1>2, <1>3, <1>4, SessionsStart, SessionsLogout, SessionsEdit DEF Next

-----------------------------------------------------------------------------
(* Tokens.  A step that mails, stores and uses nothing keeps them in their *)
(* places; no request ever carries more than it did, but for a new mail    *)
(* and for a token it has popped.                                          *)
LEMMA TokensKept ==
  ASSUME TokensInv, TypeInv', UNCHANGED <<tokens, spent, mailed>>,
         \A r \in Requests : Carried(r)' \subseteq Carried(r)
  PROVE  TokensInv'
BY DEF TokensInv, OnePlace

LEMMA CarriedByOthers ==
  ASSUME NEW p \in Requests, req'[p] = req[p]
  PROVE  Carried(p)' = Carried(p)
BY DEF Carried, Held, At

LEMMA TokensStart ==
  ASSUME TokensInv, TypeInv', NEW r \in Requests, Start(r)  PROVE TokensInv'
<1>. USE Blanks DEF History, store, TokensInv
<1>0. TypeOK /\ req[r] \in Request /\ req' \in [Requests -> Request]
  BY DEF TypeInv, TypeOK
<1>1. ASSUME UNCHANGED <<tokens, spent, mailed>>, NEW q,
             req' = [req EXCEPT ![r] = q],
             q.pc \notin {"store", "find", "verified"}, q.pc = "password" => q.op = "change"
      PROVE  TokensInv'
  <2>1. \A p \in Requests \ {r} : Carried(p)' = Carried(p)
    BY <1>0, <1>1, CarriedByOthers DEF TypeOK
  <2>2. Carried(r)' = {}
    BY <1>0, <1>1 DEF Carried, Held, At, TypeOK
  <2>. QED
    BY <1>1, <2>1, <2>2, TokensKept
<1>2. CASE SignUp(r) \/ Login(r) \/ ExternalLogin(r) \/ Refresh(r)
  <2>1. PICK op, u, s : \/ Begin(r, op, "put", u, s)
                        \/ Begin(r, op, "insert", u, s)
    BY <1>2 DEF SignUp, Login, ExternalLogin, Refresh
  <2>2. PICK pc \in {"put", "insert"} : Begin(r, op, pc, u, s)
    BY <2>1
  <2>3. [Idle EXCEPT !.op = op, !.pc = pc, !.user = u, !.session = s].pc = pc
    BY DEF Idle
  <2>4. UNCHANGED <<tokens, spent, mailed>>
    BY <1>2 DEF SignUp, Login, ExternalLogin, Refresh
  <2>. QED
    BY <1>1, <2>2, <2>3, <2>4 DEF Begin
<1>3. CASE ChangePassword(r)
  <2>1. PICK u, s : Begin(r, "change", "password", u, s)
    BY <1>3 DEF ChangePassword
  <2>2. /\ [Idle EXCEPT !.op = "change", !.pc = "password", !.user = u, !.session = s].pc
             = "password"
        /\ [Idle EXCEPT !.op = "change", !.pc = "password", !.user = u, !.session = s].op
             = "change"
    BY DEF Idle
  <2>. QED
    BY <1>1, <1>3, <2>1, <2>2 DEF ChangePassword, Begin
<1>4. CASE RequestMail(r)
  <2>1. PICK u \in Users, typ \in Typs :
          req' = [req EXCEPT ![r] = [Idle EXCEPT !.op = "mail", !.pc = "cooldown",
                                       !.user = u, !.token = TokenFor(u, typ)]]
    BY <1>4 DEF RequestMail
  <2>. DEFINE q == [Idle EXCEPT !.op = "mail", !.pc = "cooldown", !.user = u,
                                !.token = TokenFor(u, typ)]
  <2>2. q.pc = "cooldown"
    BY DEF Idle
  <2>3. req' = [req EXCEPT ![r] = q]
    BY <2>1
  <2>4. UNCHANGED <<tokens, spent, mailed>>
    BY <1>4 DEF RequestMail
  <2>. HIDE DEF q
  <2>. QED
    BY <1>1, <2>2, <2>3, <2>4
<1>5. CASE UseToken(r)
  <2>1. PICK t \in tokens, op \in {"verify", "reset"} :
          /\ req[r] = Idle /\ tokens' = tokens \ {t}
          /\ \/ UNCHANGED req
             \/ req' = [req EXCEPT ![r] = [Idle EXCEPT !.op = op, !.pc = "find", !.token = t]]
    BY <1>5 DEF UseToken, Asked, Pop
  <2>2. \A p \in Requests \ {r} : Carried(p)' = Carried(p)
    BY <1>0, <2>1, CarriedByOthers DEF TypeOK
  <2>3. Carried(r)' \subseteq {t}
    BY <1>0, <2>1 DEF Carried, Held, At, Idle, TypeOK
  <2>4. \A p \in Requests : t \notin Carried(p)
    BY DEF OnePlace
  <2>5. UNCHANGED <<spent, mailed>>
    BY <1>5 DEF UseToken
  <2>6. OnePlace'
    BY <2>1, <2>2, <2>3, <2>4, <2>5 DEF OnePlace
  <2>. QED
    BY <2>6
<1>. QED
  BY <1>2, <1>3, <1>4, <1>5 DEF Start

LEMMA TokensContinue ==
  ASSUME TokensInv, TypeInv', NEW r \in Requests, Continue(r) \/ Die(r)
  PROVE  TokensInv'
<1>. USE Blanks DEF History, store, TokensInv
<1>0. /\ TypeOK /\ req[r] \in Request /\ req' \in [Requests -> Request] /\ Shaped(req[r])
  BY DEF TypeInv, TypeOK
<1>1. ASSUME UNCHANGED <<tokens, spent, mailed>>,
             \A p \in Requests \ {r} : req'[p] = req[p],
             Carried(r)' \subseteq Carried(r)
      PROVE  TokensInv'
  BY <1>1, TokensKept, CarriedByOthers
<1>2. Done(r) => Carried(r)' = {} /\ \A p \in Requests \ {r} : req'[p] = req[p]
  BY <1>0 DEF Done, Carried, Held, At, TypeOK
<1>3. CASE CreateUserToken(r)
  <2>1. /\ \A p \in Requests \ {r} : req'[p] = req[p]
        /\ Done(r) \/ req'[r].pc = "put"
    <3>. DEFINE q == [req[r] EXCEPT !.pc = "put",
                                    !.session = [NoSession EXCEPT !.user = req[r].user]]
    <3>1. Done(r) \/ req' = [req EXCEPT ![r] = q]
      BY <1>3 DEF CreateUserToken
    <3>2. q.pc = "put"
      BY <1>0 DEF Request
    <3>. HIDE DEF q
    <3>. QED
      BY <1>0, <1>2, <3>1, <3>2 DEF TypeOK
  <2>. QED
    BY <1>1, <1>2, <1>3, <2>1 DEF CreateUserToken, Carried, Held, At
<1>4. CASE PutSession(r)
  <2>1. /\ \A p \in Requests \ {r} : req'[p] = req[p]
        /\ req'[r].pc \in {"idle", "cooldown"}
    BY <1>0, <1>4 DEF PutSession, Done, TypeOK, Request
  <2>. QED
    BY <1>1, <1>4, <2>1 DEF PutSession, Carried, Held, At
<1>5. CASE SetPassword(r)
  <2>1. CASE Done(r) /\ UNCHANGED spent
    BY <1>1, <1>2, <1>5, <2>1 DEF SetPassword
  <2>2. CASE ~(Done(r) /\ UNCHANGED spent)
    <3>1. /\ \A p \in Requests \ {r} : req'[p] = req[p]
          /\ req'[r].pc = "invalidate"
          /\ spent' = IF req[r].op = "reset" THEN spent \cup {req[r].token} ELSE spent
          /\ UNCHANGED <<tokens, mailed>> /\ req[r].pc = "password"
      BY <1>0, <1>5, <2>2 DEF SetPassword, TypeOK, Request, At
    <3>2. Carried(r)' = {} /\ \A p \in Requests \ {r} : Carried(p)' = Carried(p)
      BY <3>1, CarriedByOthers DEF Carried, Held, At
    <3>3. req[r].op = "reset" => Carried(r) = {req[r].token}
      BY <3>1 DEF Carried, Held, At
    <3>4. OnePlace'
      BY <3>1, <3>2, <3>3 DEF OnePlace
    <3>. QED
      BY <3>4
  <2>. QED
    BY <2>1, <2>2
<1>6. CASE Invalidate(r)
  <2>1. PICK late :
          req' = [MarkLate(late) EXCEPT ![r] =
                    IF req[r].op = "change" THEN Idle ELSE [req[r] EXCEPT !.pc = "put"]]
    BY <1>6 DEF Invalidate
  <2>2. \A p \in Requests \ {r} : /\ req'[p].pc = req[p].pc /\ req'[p].op = req[p].op
                                 /\ req'[p].token = req[p].token
    <3>. SUFFICES ASSUME NEW p \in Requests \ {r}
                  PROVE  /\ req'[p].pc = req[p].pc /\ req'[p].op = req[p].op
                         /\ req'[p].token = req[p].token
      OBVIOUS
    <3>1. MarkLate(late)[p] = [req[p] EXCEPT !.late = MarkLate(late)[p].late]
          /\ req[p] \in Request /\ MarkLate(late) \in [Requests -> Request]
      BY <1>0, Marked DEF TypeOK
    <3>2. req'[p] = MarkLate(late)[p]
      BY <2>1, <3>1
    <3>. QED
      BY <3>1, <3>2 DEF Request
  <2>3. req'[r].pc \in {"idle", "put"}
    <3>1. MarkLate(late) \in [Requests -> Request]
      BY Marked
    <3>2. req'[r] = IF req[r].op = "change" THEN Idle ELSE [req[r] EXCEPT !.pc = "put"]
      BY <2>1, <3>1
    <3>. QED
      BY <1>0, <3>2 DEF Request
  <2>4. \A p \in Requests \ {r} : Carried(p)' = Carried(p)
    BY <2>2 DEF Carried, Held, At
  <2>5. Carried(r)' = {}
    BY <2>3 DEF Carried, Held, At
  <2>. QED
    BY <1>6, <2>4, <2>5, TokensKept DEF Invalidate
<1>7. CASE CheckCooldown(r)
  <2>1. /\ \A p \in Requests \ {r} : req'[p] = req[p]
        /\ Done(r) \/ req'[r].pc = "mail"
    BY <1>0, <1>2, <1>7 DEF CheckCooldown, Goto, TypeOK, Request
  <2>. QED
    BY <1>1, <1>2, <1>7, <2>1 DEF CheckCooldown, Carried, Held, At
<1>8. CASE SendMail(r)
  <2>1. PICK t : t = [req[r].token EXCEPT !.id = mailed + 1]
    OBVIOUS
  <2>2. /\ t.id = mailed + 1 /\ mailed \in Nat /\ tokens \cup spent \subseteq Token
    BY <1>0, <1>8, <2>1 DEF SendMail, At, Shaped, Token, TypeOK
  <2>3. /\ \A p \in Requests \ {r} : req'[p] = req[p]
        /\ req'[r].pc = "store" /\ req'[r].token = t
    BY <1>0, <1>8, <2>1 DEF SendMail, TypeOK, Request
  <2>4. Carried(r)' = {t} /\ \A p \in Requests \ {r} : Carried(p)' = Carried(p)
    BY <2>3, CarriedByOthers DEF Carried, At
  <2>5. \A x \in tokens \cup spent \cup UNION {Carried(p) : p \in Requests} :
          x.id \in Nat /\ x.id <= mailed
    <3>1. \A p \in Requests : Carried(p) \subseteq Token
      BY <1>0 DEF TypeInv, Shaped, Carried, Held, At
    <3>. QED
      BY <2>2, <3>1 DEF OnePlace, Token
  <2>6. mailed' = mailed + 1 /\ UNCHANGED <<tokens, spent>>
    BY <1>8 DEF SendMail
  <2>7. \A x \in tokens \cup spent \cup UNION {Carried(p) : p \in Requests} :
          x # t /\ x.id <= mailed'
    BY <2>2, <2>5, <2>6
  <2>8. OnePlace'
    BY <2>2, <2>4, <2>6, <2>7 DEF OnePlace
  <2>. QED
    BY <2>8
<1>9. CASE StoreToken(r)
  <2>1. /\ Carried(r) = {req[r].token} /\ tokens' = tokens \cup {req[r].token}
        /\ UNCHANGED <<spent, mailed>> /\ Done(r)
    BY <1>9 DEF StoreToken, Carried, At
  <2>2. Carried(r)' = {} /\ \A p \in Requests \ {r} : Carried(p)' = Carried(p)
    BY <1>2, <2>1, CarriedByOthers
  <2>3. OnePlace'
    BY <2>1, <2>2 DEF OnePlace
  <2>. QED
    BY <2>3
<1>10. CASE FindUser(r)
  <2>1. req[r].pc = "find" /\ req[r].op \in {"verify", "reset"}
    BY <1>0, <1>10 DEF FindUser, At, Shaped
  <2>2. Carried(r) = {req[r].token}
    BY <2>1 DEF Carried, Held, At
  <2>3. CASE Done(r)
    BY <1>1, <1>2, <1>10, <2>3 DEF FindUser
  <2>4. CASE ~Done(r)
    <3>1. PICK u :
            \/ req' = [req EXCEPT ![r].pc = "put", ![r].user = u, ![r].session = NewSession(u)]
            \/ req' = [req EXCEPT ![r].pc = "password", ![r].user = u,
                                  ![r].session = [NoSession EXCEPT !.user = u]]
            \/ req' = [req EXCEPT ![r].pc = "verified", ![r].user = u]
      BY <1>10, <2>4 DEF FindUser
    <3>2. /\ \A p \in Requests \ {r} : req'[p] = req[p]
          /\ req'[r].pc # "store" /\ req'[r].token = req[r].token
      BY <1>0, <3>1 DEF TypeOK, Request
    <3>3. Carried(r)' \subseteq {req[r].token}
      BY <3>2 DEF Carried, Held, At
    <3>. QED
      BY <1>1, <1>10, <2>2, <3>2, <3>3 DEF FindUser
  <2>. QED
    BY <2>3, <2>4
<1>11. CASE SetVerified(r)
  <2>1. /\ \A p \in Requests \ {r} : req'[p] = req[p]
        /\ req'[r].pc \in {"idle", "put"}
        /\ spent' \in {spent, spent \cup {req[r].token}} /\ UNCHANGED <<tokens, mailed>>
    BY <1>0, <1>11 DEF SetVerified, Done, TypeOK, Request
  <2>2. Carried(r) = {req[r].token}
    BY <1>0, <1>11 DEF SetVerified, Shaped, Carried, Held, At
  <2>3. Carried(r)' = {} /\ \A p \in Requests \ {r} : Carried(p)' = Carried(p)
    BY <2>1, CarriedByOthers DEF Carried, Held, At
  <2>4. OnePlace'
    BY <2>1, <2>2, <2>3 DEF OnePlace
  <2>. QED
    BY <2>4
<1>12. CASE Die(r)
  BY <1>1, <1>2, <1>12 DEF Die
<1>. QED
  BY <1>3, <1>4, <1>5, <1>6, <1>7, <1>8, <1>9, <1>10, <1>11, <1>12 DEF Continue

LEMMA TokensInitInv == Init => TokensInv
<1>. SUFFICES ASSUME Init  PROVE TokensInv
  OBVIOUS
<1>1. \A r \in Requests : Carried(r) = {}
  BY Blanks DEF Init, Carried, Held, At
<1>. QED
  BY <1>1, TypeInitInv DEF Init, TokensInv, OnePlace

LEMMA TokensNextInv == TokensInv /\ [Next]_vars => TokensInv'
<1>. SUFFICES ASSUME TokensInv, [Next]_vars  PROVE TokensInv'
  OBVIOUS
<1>1. TypeInv'
  BY TypeNextInv DEF TokensInv
<1>2. CASE Logout
  <2>1. PICK late : req' = MarkLate(late)
    BY <1>2 DEF Logout
  <2>2. \A p \in Requests :
          /\ req'[p] = [req[p] EXCEPT !.late = req'[p].late] /\ req[p] \in Request
    BY <2>1, Marked DEF TokensInv, TypeInv, TypeOK
  <2>3. \A p \in Requests : /\ req'[p].pc = req[p].pc /\ req'[p].op = req[p].op
                           /\ req'[p].token = req[p].token
    BY <2>2 DEF Request
  <2>4. \A p \in Requests : Carried(p)' = Carried(p)
    BY <2>3 DEF Carried, Held, At
  <2>. QED
    BY <1>1, <1>2, <2>4, TokensKept DEF Logout
<1>3. CASE EditPassword \/ CoolDown \/ DeleteUser \/ UNCHANGED vars
  <2>1. UNCHANGED <<req, tokens, spent, mailed>>
    BY <1>3 DEF EditPassword, CoolDown, DeleteUser, vars, store, History
  <2>. QED
    BY <1>1, <2>1, TokensKept, CarriedByOthers
<1>. QED
  BY <1>1, <1>2, <1>3, TokensStart, TokensContinue DEF Next

-----------------------------------------------------------------------------
(* Verified addresses.                                                     *)
LEMMA ProvenNextInv == ProvenInv /\ [Next]_vars => ProvenInv'
<1>. SUFFICES ASSUME ProvenInv, [Next]_vars  PROVE ProvenInv'
  OBVIOUS
<1>. USE DEF ProvenInv, History, store
<1>0. TypeInv' /\ TypeOK /\ \A r \in Requests : req[r] \in Request /\ Shaped(req[r])
  BY TypeNextInv DEF TypeInv, TypeOK
<1>1. CASE UNCHANGED <<account, proven>>
  BY <1>0, <1>1 DEF VerifiedIsProven, Live
<1>2. ASSUME NEW r \in Requests, SignUp(r)  PROVE ProvenInv'
  <2>1. PICK u \in Users : Insert(u, FALSE)
    BY <1>2 DEF SignUp
  <2>2. ~account'[u].verified /\ \A v \in Users \ {u} : account'[v] = account[v]
    BY <1>0, <2>1 DEF Insert, TypeOK, Account
  <2>. QED
    BY <1>0, <1>2, <2>2 DEF SignUp, VerifiedIsProven, Live
<1>3. ASSUME NEW r \in Requests, CreateUserToken(r)  PROVE ProvenInv'
  <2>1. CASE Insert(req[r].user, TRUE) /\ proven' = proven \cup {req[r].user}
    <3>1. \A v \in Users \ {req[r].user} : account'[v] = account[v]
      BY <1>0, <2>1 DEF Insert, TypeOK
    <3>. QED
      BY <1>0, <2>1, <3>1 DEF VerifiedIsProven, Live
  <2>. QED
    BY <1>1, <1>3, <2>1 DEF CreateUserToken
<1>4. ASSUME NEW r \in Requests, SetPassword(r)  PROVE ProvenInv'
  <2>. DEFINE u == req[r].user
              reset == req[r].op = "reset"
  <2>1. CASE Live(u)
    <3>1. /\ account' = [account EXCEPT ![u].pass = @ + 1, ![u].verified = @ \/ reset]
          /\ proven' = IF reset THEN proven \cup {u} ELSE proven
      BY <1>4, <2>1 DEF SetPassword
    <3>2. account'[u].verified = (account[u].verified \/ reset)
          /\ \A v \in Users \ {u} : account'[v] = account[v]
      BY <1>0, <2>1, <3>1 DEF TypeOK, Account, Live
    <3>. QED
      BY <1>0, <2>1, <3>1, <3>2 DEF VerifiedIsProven, Live
  <2>. QED
    BY <1>1, <1>4, <2>1 DEF SetPassword
<1>5. ASSUME NEW r \in Requests, SetVerified(r)  PROVE ProvenInv'
  <2>. DEFINE u == req[r].user
  <2>1. CASE Live(u)
    <3>1. req[r].token.user = u
      BY <1>0, <1>5 DEF SetVerified, At, Shaped
    <3>2. account' = [account EXCEPT ![u].verified = TRUE] /\ proven' = proven \cup {u}
      BY <1>5, <2>1, <3>1 DEF SetVerified
    <3>3. \A v \in Users \ {u} : account'[v] = account[v]
      BY <1>0, <3>2 DEF TypeOK
    <3>. QED
      BY <1>0, <3>2, <3>3 DEF VerifiedIsProven, Live
  <2>. QED
    BY <1>1, <1>5, <2>1 DEF SetVerified
<1>6. ASSUME NEW r \in Requests, Start(r), ~SignUp(r)  PROVE UNCHANGED <<account, proven>>
  BY <1>6 DEF Start, Login, ExternalLogin, Refresh, ChangePassword, RequestMail, UseToken
<1>7. ASSUME NEW r \in Requests, Continue(r) \/ Die(r),
             ~CreateUserToken(r), ~SetPassword(r), ~SetVerified(r)
      PROVE  UNCHANGED <<account, proven>>
  BY <1>7 DEF Continue, Die, PutSession, Invalidate, CheckCooldown, SendMail, StoreToken, FindUser
<1>8. CASE Logout \/ CoolDown \/ UNCHANGED vars
  BY <1>1, <1>8 DEF Logout, CoolDown, vars
<1>9. CASE EditPassword
  <2>1. PICK u \in Users : account' = [account EXCEPT ![u].pass = @ + 1]
    BY <1>9 DEF EditPassword
  <2>2. /\ account'[u].verified = account[u].verified /\ account'[u].state = account[u].state
        /\ \A v \in Users \ {u} : account'[v] = account[v]
    BY <1>0, <2>1 DEF TypeOK, Account
  <2>. QED
    BY <1>0, <1>9, <2>2 DEF EditPassword, VerifiedIsProven, Live
<1>10. CASE DeleteUser
  <2>1. PICK u \in Users :
          /\ account' = [account EXCEPT ![u].state = "gone", ![u].verified = FALSE, ![u].pass = 0]
          /\ proven' = proven \ {u}
    BY <1>10 DEF DeleteUser
  <2>2. account'[u].state = "gone" /\ \A v \in Users \ {u} : account'[v] = account[v]
    BY <1>0, <2>1 DEF TypeOK, Account
  <2>. QED
    BY <1>0, <2>1, <2>2 DEF VerifiedIsProven, Live
<1>. QED
  BY <1>1, <1>2, <1>3, <1>4, <1>5, <1>6, <1>7, <1>8, <1>9, <1>10 DEF Next

-----------------------------------------------------------------------------
(* Every variable of the extension keeps to its type, and a request has    *)
(* the account, session and token that its next statement needs.           *)
THEOREM TablesTypeCorrect == Spec => []TypeOK
<1>1. TypeInv => TypeOK
  BY DEF TypeInv
<1>. QED
  BY <1>1, TypeInitInv, TypeNextInv, PTL DEF Spec

(* A session that was ended stays ended, unless the request that wrote it  *)
(* had begun before.                                                       *)
THEOREM SessionsStayEnded == Spec => []EndedStaysEnded
<1>1. SessionsInv => EndedStaysEnded
  BY DEF SessionsInv
<1>. QED
  BY <1>1, SessionsInitInv, SessionsNextInv, PTL DEF Spec

(* PasswordEndsSessions fails, as TLC finds.  What is left of an older     *)
(* password was written by a request that overlapped the removal, or no    *)
(* removal has come yet.                                                   *)
LeftOver ==
  \A s \in sessions : Live(s.user) /\ s.gen < account[s.user].pass =>
    \/ s.late \/ s.user \in unfinished
    \/ \E r \in Requests : At(r, "invalidate") /\ req[r].user = s.user

(* A session of an older password is one of these.                         *)
THEOREM OldSessionsLeftOver == Spec => []LeftOver
<1>1. SessionsInv => LeftOver
  BY DEF SessionsInv, OldSessions, Outdated, Forgiven, LeftOver
<1>. QED
  BY <1>1, SessionsInitInv, SessionsNextInv, PTL DEF Spec

(* A token is in the table, in the hands of one request or used up.        *)
THEOREM TokensTakeEffectOnce == Spec => []TokenTakesEffectOnce
<1>1. TokensInv => TokenTakesEffectOnce
  BY DEF TokensInv, OnePlace, Carried, Held, At, TokenTakesEffectOnce
<1>. QED
  BY <1>1, TokensInitInv, TokensNextInv, PTL DEF Spec

(* A verified account showed its address.                                  *)
THEOREM VerifiedAddressesProven == Spec => []VerifiedIsProven
<1>1. Init => ProvenInv
  <2>1. Init => \A u \in Users : account[u].state = "none"
    BY DEF Init
  <2>. QED
    BY <2>1, TypeInitInv DEF ProvenInv, VerifiedIsProven, Live
<1>2. ProvenInv => VerifiedIsProven
  BY DEF ProvenInv
<1>. QED
  BY <1>1, <1>2, ProvenNextInv, PTL DEF Spec
=============================================================================
