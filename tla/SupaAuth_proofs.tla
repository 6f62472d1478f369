--------------------------- MODULE SupaAuth_proofs ---------------------------
(***************************************************************************)
(* Theorems about SupaAuth for any accounts, emails and any number of      *)
(* overlapping requests, any of which may die.                             *)
(***************************************************************************)
EXTENDS SupaAuth, TLAPS

Redeems == {"verify", "email_change"}

(***************************************************************************)
(* The inductive invariant.  Ids are given in order, so what refers to an  *)
(* id refers to something older than the next row.                         *)
(***************************************************************************)
Issued ==
  /\ \A s \in sessions :
       /\ s.id <= issued["session"]
       /\ s.op = "refresh" => s.ref <= issued["session"]
       /\ s.op \in Redeems => s.ref <= issued["otp"]
  /\ \A o \in otps : o.id <= issued["otp"]

(* What a request carries.                                                 *)
Shaped(q) ==
  /\ q.pc # "idle" => q.user \in Users /\ q.op \in Operations
  /\ q.pc = "insert" /\ q.op # "anonymous" => q.email \in Emails
  /\ q.pc = "mail" => q.email \in Emails
  /\ q.op = "refresh" => q.pc \in {"revoke", "create", "answer"}
  /\ q.op \in Redeems => q.pc \in {"confirm", "consume", "check", "create", "answer"}

(* A request that is about to make a session has used up its grant.        *)
Granted(q) ==
  /\ q.op = "refresh" /\ q.pc # "answer" => q.ref <= issued["session"]
  /\ q.op \in Redeems /\ q.pc # "answer" => q.ref <= issued["otp"]
  /\ q.op = "refresh" /\ q.pc = "create" =>
       \A t \in sessions : t.id = q.ref => t.revoked
  /\ q.op \in Redeems /\ q.pc \in {"check", "create"} =>
       \A o \in otps : o.id = q.ref => o.consumed

AuthInv ==
  /\ TypeOK
  /\ Issued
  /\ GrantUsedUp
  /\ \A r \in Requests : Shaped(req[r]) /\ Granted(req[r])

(* What steps do to the rows: they are created with a new id, changed      *)
(* without taking a revocation or a use back, or removed.                  *)
Same(s, t) == t.id = s.id /\ t.op = s.op /\ t.ref = s.ref /\ (s.revoked => t.revoked)

Advance ==
  /\ issued["session"] <= issued'["session"] /\ issued["otp"] <= issued'["otp"]
  /\ \A t \in sessions' :
       \/ \E s \in sessions : Same(s, t)
       \/ /\ t.id > issued["session"] /\ t.id <= issued'["session"]
          /\ t.op = "refresh" => /\ t.ref <= issued["session"]
                                 /\ \A s \in sessions : s.id = t.ref => s.revoked
          /\ t.op \in Redeems => /\ t.ref <= issued["otp"]
                                 /\ \A o \in otps : o.id = t.ref => o.consumed
  /\ \A p \in otps' :
       \/ \E o \in otps : p.id = o.id /\ (o.consumed => p.consumed)
       \/ p.id > issued["otp"] /\ p.id <= issued'["otp"]

-----------------------------------------------------------------------------
LEMMA AuthInit == Init => AuthInv
BY SupaAuthAssumption
   DEF Init, AuthInv, TypeOK, Account, Request, Steps, Idle, NoRef, Issued, GrantUsedUp,
       Shaped, Granted, Redeems

(* The types of the ids.                                                   *)
LEMMA Ids ==
  ASSUME TypeOK
  PROVE  /\ issued["session"] \in Nat /\ issued["otp"] \in Nat
         /\ \A s \in sessions : s.id \in Nat /\ s.ref \in Nat
         /\ \A o \in otps : o.id \in Nat
BY DEF TypeOK, Session, Otp

(* A step that advances the rows keeps what is said about them.            *)
LEMMA AdvanceKeeps ==
  ASSUME AuthInv, TypeOK', Advance
  PROVE  /\ Issued'
         /\ GrantUsedUp'
         /\ \A q \in Request : Granted(q) => Granted(q)'
<1>1. TypeOK
  BY DEF AuthInv
<1>2. /\ issued["session"] \in Nat /\ issued["otp"] \in Nat
      /\ \A s \in sessions : s.id \in Nat /\ s.ref \in Nat
      /\ \A o \in otps : o.id \in Nat
  BY <1>1, Ids
<1>3. /\ issued'["session"] \in Nat /\ issued'["otp"] \in Nat
      /\ \A s \in sessions' : s.id \in Nat /\ s.ref \in Nat
      /\ \A o \in otps' : o.id \in Nat
  BY DEF TypeOK, Session, Otp
<1>4. ASSUME NEW n \in Nat, n <= issued["session"],
             \A s \in sessions : s.id = n => s.revoked
      PROVE  \A t \in sessions' : t.id = n => t.revoked
  <2>. SUFFICES ASSUME NEW t \in sessions', t.id = n  PROVE t.revoked
    OBVIOUS
  <2>1. ~(t.id > issued["session"])
    BY <1>2, <1>3, <1>4
  <2>2. PICK s \in sessions : Same(s, t)
    BY <2>1 DEF Advance
  <2>. QED  BY <2>2, <1>4 DEF Same
<1>5. ASSUME NEW n \in Nat, n <= issued["otp"],
             \A o \in otps : o.id = n => o.consumed
      PROVE  \A p \in otps' : p.id = n => p.consumed
  <2>. SUFFICES ASSUME NEW p \in otps', p.id = n  PROVE p.consumed
    OBVIOUS
  <2>1. ~(p.id > issued["otp"])
    BY <1>2, <1>3, <1>5
  <2>2. PICK o \in otps : p.id = o.id /\ (o.consumed => p.consumed)
    BY <2>1 DEF Advance
  <2>. QED  BY <2>2, <1>5
<1>6. issued["session"] <= issued'["session"] /\ issued["otp"] <= issued'["otp"]
  BY DEF Advance
<1>7. ASSUME NEW t \in sessions'
      PROVE  /\ t.id <= issued'["session"]
             /\ t.op = "refresh" =>
                  /\ t.ref <= issued["session"]
                  /\ \A s \in sessions : s.id = t.ref => s.revoked
             /\ t.op \in Redeems =>
                  /\ t.ref <= issued["otp"]
                  /\ \A o \in otps : o.id = t.ref => o.consumed
  <2>1. CASE \E s \in sessions : Same(s, t)
    <3>1. PICK s \in sessions : Same(s, t)
      BY <2>1
    <3>2. /\ s.id <= issued["session"]
          /\ s.op = "refresh" => s.ref <= issued["session"]
          /\ s.op \in Redeems => s.ref <= issued["otp"]
      BY DEF AuthInv, Issued
    <3>3. /\ s.op = "refresh" => \A x \in sessions : x.id = s.ref => x.revoked
          /\ s.op \in Redeems => \A o \in otps : o.id = s.ref => o.consumed
      BY DEF AuthInv, GrantUsedUp, Redeems
    <3>4. t.id = s.id /\ t.op = s.op /\ t.ref = s.ref
      BY <3>1 DEF Same
    <3>5. t.id <= issued'["session"]
      BY <3>2, <3>4, <1>2, <1>3, <1>6
    <3>. QED  BY <3>2, <3>3, <3>4, <3>5
  <2>2. CASE ~\E s \in sessions : Same(s, t)
    BY <2>2 DEF Advance
  <2>. QED  BY <2>1, <2>2
<1>8. Issued'
  <2>1. ASSUME NEW t \in sessions'
        PROVE  /\ t.id <= issued'["session"]
               /\ t.op = "refresh" => t.ref <= issued'["session"]
               /\ t.op \in Redeems => t.ref <= issued'["otp"]
    BY <1>7, <1>6, <1>2, <1>3
  <2>2. ASSUME NEW p \in otps'  PROVE p.id <= issued'["otp"]
    <3>1. CASE \E o \in otps : p.id = o.id
      BY <3>1, <1>2, <1>3, <1>6 DEF AuthInv, Issued
    <3>2. CASE ~\E o \in otps : p.id = o.id
      BY <3>2 DEF Advance
    <3>. QED  BY <3>1, <3>2
  <2>. QED  BY <2>1, <2>2 DEF Issued
<1>9. GrantUsedUp'
  <2>1. ASSUME NEW t \in sessions'
        PROVE  /\ t.op = "refresh" => \A x \in sessions' : x.id = t.ref => x.revoked
               /\ t.op \in Redeems => \A o \in otps' : o.id = t.ref => o.consumed
    BY <1>3, <1>4, <1>5, <1>7
  <2>. QED  BY <2>1 DEF GrantUsedUp, Redeems
<1>10. ASSUME NEW q \in Request, Granted(q)  PROVE Granted(q)'
  <2>1. q.ref \in Nat
    BY DEF Request
  <2>2. /\ q.op = "refresh" /\ q.pc # "answer" => q.ref <= issued'["session"]
        /\ q.op \in Redeems /\ q.pc # "answer" => q.ref <= issued'["otp"]
    BY <1>2, <1>3, <1>6, <1>10, <2>1 DEF Granted
  <2>3. q.op = "refresh" /\ q.pc = "create" =>
          \A t \in sessions' : t.id = q.ref => t.revoked
    BY <1>4, <1>10, <2>1 DEF Granted
  <2>4. q.op \in Redeems /\ q.pc \in {"check", "create"} =>
          \A o \in otps' : o.id = q.ref => o.consumed
    BY <1>5, <1>10, <2>1 DEF Granted
  <2>. QED  BY <2>2, <2>3, <2>4 DEF Granted
<1>. QED  BY <1>8, <1>9, <1>10

(* A step of one request that advances the rows keeps the invariant.       *)
LEMMA StepKeeps ==
  ASSUME AuthInv, TypeOK', Advance,
         NEW r \in Requests, NEW q \in Request,
         req' = [req EXCEPT ![r] = q], Shaped(q), Granted(q)'
  PROVE  AuthInv'
<1>1. /\ Issued' /\ GrantUsedUp'
      /\ \A p \in Request : Granted(p) => Granted(p)'
  BY AdvanceKeeps
<1>2. req \in [Requests -> Request] /\ \A p \in Requests : Shaped(req[p]) /\ Granted(req[p])
  BY DEF AuthInv, TypeOK
<1>3. ASSUME NEW p \in Requests  PROVE (Shaped(req[p]) /\ Granted(req[p]))'
  <2>1. CASE p = r
    <3>1. req'[p] = q
      BY <2>1, <1>2
    <3>. QED  BY <3>1 DEF Shaped, Granted
  <2>2. CASE p # r
    <3>1. req'[p] = req[p]
      BY <2>2, <1>2
    <3>2. Shaped(req[p]) /\ Granted(req[p])
      BY <1>2
    <3>3. \A x \in Request : Granted(x) => Granted(x)'
      BY <1>1
    <3>4. /\ req[p].op = "refresh" /\ req[p].pc # "answer" => req[p].ref <= issued'["session"]
          /\ req[p].op \in Redeems /\ req[p].pc # "answer" => req[p].ref <= issued'["otp"]
          /\ req[p].op = "refresh" /\ req[p].pc = "create" =>
               \A t \in sessions' : t.id = req[p].ref => t.revoked
          /\ req[p].op \in Redeems /\ req[p].pc \in {"check", "create"} =>
               \A o \in otps' : o.id = req[p].ref => o.consumed
      BY <3>2, <3>3, <1>2 DEF Granted
    <3>. QED  BY <3>1, <3>2, <3>4 DEF Shaped, Granted
  <2>. QED  BY <2>1, <2>2
<1>. QED  BY <1>1, <1>3 DEF AuthInv

LEMMA IdleFits == Idle \in Request /\ Shaped(Idle) /\ Granted(Idle) /\ Granted(Idle)'
BY DEF Idle, NoRef, Request, Steps, Shaped, Granted, Redeems

LEMMA RowsStay ==
  ASSUME UNCHANGED <<sessions, otps, issued>>, TypeOK
  PROVE  Advance
<1>1. \A t \in sessions : Same(t, t)
  BY DEF Same
<1>. QED  BY <1>1, Ids DEF Advance

(* A request that goes on with what it read.                               *)
LEMMA ReadKeeps ==
  ASSUME AuthInv, UNCHANGED rows, Untouched,
         NEW r \in Requests, NEW q \in Request,
         req' = [req EXCEPT ![r] = q], Shaped(q), Granted(q)
  PROVE  AuthInv'
<1>1. TypeOK'
  BY DEF AuthInv, TypeOK, rows, Untouched
<1>2. Advance
  BY RowsStay DEF AuthInv, rows
<1>3. Granted(q)'
  BY <1>1, <1>2, AdvanceKeeps
<1>. QED  BY <1>1, <1>2, <1>3, StepKeeps

LEMMA BeginKeeps ==
  ASSUME AuthInv, UNCHANGED rows, Untouched,
         NEW r \in Requests, NEW op \in Operations, NEW pc \in Steps, NEW u \in Users,
         NEW ref \in Nat, NEW e \in Emails \cup {NoEmail},
         Begin(r, op, pc, u, ref, e),
         Shaped([op |-> op, pc |-> pc, user |-> u, ref |-> ref, email |-> e]),
         Granted([op |-> op, pc |-> pc, user |-> u, ref |-> ref, email |-> e])
  PROVE  AuthInv'
<1>1. [op |-> op, pc |-> pc, user |-> u, ref |-> ref, email |-> e] \in Request
  BY DEF Request
<1>. QED  BY <1>1, ReadKeeps DEF Begin

(* The first statements, but the global logout.                            *)
LEMMA StartKeeps ==
  ASSUME AuthInv, NEW r \in Requests,
         \/ Refresh(r) \/ Password(r) \/ Anonymous(r) \/ Verify(r) \/ NewAccount(r)
         \/ SendOtp(r) \/ UpdateUser(r) \/ LogoutLocal(r) \/ LogoutOthers(r) \/ DeleteUser(r)
  PROVE  AuthInv'
<1>. USE DEF Shaped, Granted, Redeems, Operations, Steps, NoRef
<1>1. TypeOK /\ Issued
  BY DEF AuthInv
<1>2. /\ \A s \in sessions : s.user \in Users
      /\ \A o \in otps : o.user \in Users /\ o.email \in Emails
  BY <1>1 DEF TypeOK, Session, Otp
<1>3. /\ \A s \in sessions : s.id \in Nat
      /\ \A o \in otps : o.id \in Nat
  BY <1>1, Ids
<1>4. CASE Refresh(r)
  <2>1. PICK s \in sessions : Begin(r, "refresh", "revoke", s.user, s.id, NoEmail)
    BY <1>4 DEF Refresh
  <2>2. s.id <= issued["session"]
    BY <1>1 DEF Issued
  <2>. QED  BY <1>2, <1>3, <1>4, <2>1, <2>2, BeginKeeps DEF Refresh
<1>5. CASE Password(r)
  <2>1. PICK u \in Users : Begin(r, "password", "create", u, NoRef, NoEmail)
    BY <1>5 DEF Password, UsersByEmail
  <2>. QED  BY <1>5, <2>1, BeginKeeps DEF Password
<1>6. CASE Anonymous(r)
  BY <1>6, BeginKeeps DEF Anonymous
<1>7. CASE Verify(r)
  <2>1. PICK op \in {"verify", "email_change"}, o \in otps :
          Begin(r, op, "confirm", o.user, o.id, o.email)
    BY <1>7 DEF Verify
  <2>2. o.id <= issued["otp"]
    BY <1>1 DEF Issued
  <2>. QED  BY <1>2, <1>3, <1>7, <2>1, <2>2, BeginKeeps DEF Verify
<1>8. CASE NewAccount(r)
  BY <1>8, BeginKeeps DEF NewAccount
<1>9. CASE SendOtp(r)
  <2>1. PICK op \in {"otp", "recover", "resend", "link_change"}, e \in Emails, u \in Users :
          Begin(r, op, "mail", u, NoRef, e)
    BY <1>9 DEF SendOtp, UsersByEmail
  <2>. QED  BY <1>9, <2>1, BeginKeeps DEF SendOtp
<1>10. CASE UpdateUser(r)
  BY <1>10, BeginKeeps DEF UpdateUser
<1>11. CASE LogoutLocal(r)
  <2>1. PICK s \in sessions, t \in sessions :
          Begin(r, "logout_local", "revoke", s.user, t.id, NoEmail)
    BY <1>11 DEF LogoutLocal, MostRecent, ActiveSessions
  <2>. QED  BY <1>2, <1>3, <1>11, <2>1, BeginKeeps DEF LogoutLocal
<1>12. CASE LogoutOthers(r)
  <2>1. PICK u \in Users, ref \in Nat :
          Begin(r, "logout_others", "revoke_others", u, ref, NoEmail)
    <3>1. PICK s \in sessions :
            \/ \E t \in MostRecent(s.user) :
                 Begin(r, "logout_others", "revoke_others", s.user, t.id, NoEmail)
            \/ Begin(r, "logout_others", "revoke_others", s.user, NoRef, NoEmail)
      BY <1>12 DEF LogoutOthers
    <3>2. s.user \in Users /\ NoRef \in Nat
      BY <1>2
    <3>3. \A t \in MostRecent(s.user) : t.id \in Nat
      BY <1>3 DEF MostRecent, ActiveSessions
    <3>. HIDE DEF NoRef
    <3>. QED  BY <3>1, <3>2, <3>3
  <2>2. UNCHANGED rows /\ Untouched
    BY <1>12 DEF LogoutOthers
  <2>. QED  BY <2>1, <2>2, BeginKeeps
<1>13. CASE DeleteUser(r)
  BY <1>13, BeginKeeps DEF DeleteUser
<1>. QED  BY <1>4, <1>5, <1>6, <1>7, <1>8, <1>9, <1>10, <1>11, <1>12, <1>13

-----------------------------------------------------------------------------
(* The request as it is, and what a step makes of it.                      *)
LEMMA RequestFits ==
  ASSUME AuthInv, NEW r \in Requests
  PROVE  /\ req[r] \in Request /\ req \in [Requests -> Request]
         /\ Shaped(req[r]) /\ Granted(req[r])
BY DEF AuthInv, TypeOK

(* A step that leaves sessions and passwords alone.                        *)
LEMMA AccountStepKeeps ==
  ASSUME AuthInv, TypeOK', UNCHANGED <<sessions, otps, issued>>,
         NEW r \in Requests, NEW q \in Request,
         req' = [req EXCEPT ![r] = q], Shaped(q), Granted(q)
  PROVE  AuthInv'
<1>1. Advance
  BY RowsStay DEF AuthInv
<1>2. Granted(q)'
  BY <1>1, AdvanceKeeps
<1>. QED  BY <1>1, <1>2, StepKeeps

LEMMA InsertUserKeeps ==
  ASSUME AuthInv, NEW r \in Requests, InsertUser(r)
  PROVE  AuthInv'
<1>1. TypeOK
  BY DEF AuthInv
<1>2. /\ req[r] \in Request /\ req \in [Requests -> Request]
      /\ Shaped(req[r]) /\ Granted(req[r])
  BY RequestFits
<1>3. req[r].pc = "insert" /\ req[r].user \in Users /\ req[r].email \in Emails \cup {NoEmail}
  BY <1>2 DEF InsertUser, At, Shaped, Request
<1>4. PICK q \in Request : /\ req' = [req EXCEPT ![r] = q]
                           /\ Shaped(q) /\ Granted(q)
  <2>1. CASE Done(r)
    BY <2>1, IdleFits DEF Done
  <2>2. CASE /\ req[r].op # "admin_create"
             /\ Goto(r, IF req[r].op = "anonymous" THEN "create"
                        ELSE IF req[r].op = "signup" /\ AutoConfirm THEN "confirm" ELSE "mail")
    <3>1. req[r].op \notin Redeems /\ req[r].op # "refresh"
      BY <1>2, <1>3 DEF Shaped
    <3>. DEFINE pc == IF req[r].op = "anonymous" THEN "create"
                      ELSE IF req[r].op = "signup" /\ AutoConfirm THEN "confirm" ELSE "mail"
                q == [req[r] EXCEPT !.pc = pc]
    <3>2. q \in Request /\ pc # "insert"
      BY <1>2 DEF Request, Steps
    <3>3. Shaped(q) /\ Granted(q)
      BY <1>2, <1>3, <3>1, <3>2 DEF Shaped, Granted, Request
    <3>. QED  BY <2>2, <3>2, <3>3 DEF Goto
  <2>. QED  BY <2>1, <2>2 DEF InsertUser
<1>5. account' \in [Users -> Account] /\ proven' \subseteq Users \X (Emails \cup {NoEmail})
  <2>. DEFINE u == req[r].user
              e == req[r].email
  <2>1. CASE UNCHANGED <<account, proven>>
    BY <1>1, <2>1 DEF TypeOK
  <2>2. ASSUME NEW c \in BOOLEAN,
               account' = [account EXCEPT ![u] =
                             [state |-> "live", email |-> e, confirmed |-> c]],
               proven' = proven \/ proven' = proven \cup {<<u, e>>}
        PROVE  account' \in [Users -> Account] /\ proven' \subseteq Users \X (Emails \cup {NoEmail})
    <3>1. u \in Users /\ e \in Emails \cup {NoEmail}
      BY <1>3
    <3>. HIDE DEF u, e
    <3>. QED  BY <1>1, <2>2, <3>1 DEF TypeOK, Account
  <2>3. CASE \E c \in BOOLEAN :
               /\ account' = [account EXCEPT ![u] =
                                [state |-> "live", email |-> e, confirmed |-> c]]
               /\ proven' = proven \/ proven' = proven \cup {<<u, e>>}
    <3>. HIDE DEF u, e
    <3>. QED  BY <2>2, <2>3
  <2>. QED  BY <2>1, <2>3 DEF InsertUser
<1>6. TypeOK'
  BY <1>1, <1>2, <1>4, <1>5 DEF TypeOK, InsertUser
<1>. QED  BY <1>4, <1>6, AccountStepKeeps DEF InsertUser

LEMMA ConfirmKeeps ==
  ASSUME AuthInv, NEW r \in Requests, Confirm(r)
  PROVE  AuthInv'
<1>1. TypeOK
  BY DEF AuthInv
<1>2. /\ req[r] \in Request /\ req \in [Requests -> Request]
      /\ Shaped(req[r]) /\ Granted(req[r])
  BY RequestFits
<1>3. req[r].pc = "confirm" /\ req[r].user \in Users /\ req[r].email \in Emails \cup {NoEmail}
  BY <1>2 DEF Confirm, At, Shaped, Request
<1>4. PICK q \in Request : /\ req' = [req EXCEPT ![r] = q]
                           /\ Shaped(q) /\ Granted(q)
  <2>1. CASE Done(r)
    BY <2>1, IdleFits DEF Done
  <2>2. CASE Goto(r, IF req[r].op = "signup" THEN "check" ELSE "consume")
    <3>. DEFINE q == [req[r] EXCEPT !.pc = IF req[r].op = "signup" THEN "check" ELSE "consume"]
    <3>1. q \in Request
      BY <1>2 DEF Request, Steps
    <3>2. Shaped(q) /\ Granted(q)
      BY <1>2, <1>3, <3>1 DEF Shaped, Granted, Request, Redeems
    <3>. QED  BY <2>2, <3>1, <3>2 DEF Goto
  <2>. QED  BY <2>1, <2>2 DEF Confirm
<1>5. account' \in [Users -> Account] /\ proven' \subseteq Users \X (Emails \cup {NoEmail})
  <2>. DEFINE u == req[r].user
              e == req[r].email
              change == req[r].op = "email_change"
  <2>1. CASE account' = account
    <3>1. proven' = proven \/ proven' = proven \cup {<<u, e>>}
      BY DEF Confirm
    <3>. QED  BY <1>1, <1>3, <2>1, <3>1 DEF TypeOK
  <2>2. CASE /\ account' = [account EXCEPT ![u].confirmed = TRUE,
                                           ![u].email = IF change THEN e ELSE @]
             /\ proven' = proven \cup {<<u, e>>}
    <3>1. u \in Users /\ e \in Emails \cup {NoEmail}
      BY <1>3
    <3>. HIDE DEF u, e, change
    <3>2. account[u] \in Account
      BY <1>1, <3>1 DEF TypeOK
    <3>3. account' \in [Users -> Account]
      BY <1>1, <2>2, <3>1, <3>2 DEF TypeOK, Account
    <3>. QED  BY <1>1, <2>2, <3>1, <3>3 DEF TypeOK
  <2>. QED  BY <2>1, <2>2 DEF Confirm
<1>6. TypeOK'
  BY <1>1, <1>2, <1>4, <1>5 DEF TypeOK, Confirm
<1>. QED  BY <1>4, <1>6, AccountStepKeeps DEF Confirm

LEMMA UpdateKeeps ==
  ASSUME AuthInv, NEW r \in Requests, Update(r)
  PROVE  AuthInv'
<1>1. TypeOK
  BY DEF AuthInv
<1>2. /\ req[r] \in Request /\ req \in [Requests -> Request]
      /\ Shaped(req[r]) /\ Granted(req[r])
  BY RequestFits
<1>3. req[r].user \in Users /\ req[r].email \in Emails \cup {NoEmail}
  BY <1>2 DEF Update, At, Shaped, Request
<1>4. account' \in [Users -> Account] /\ proven' \subseteq Users \X (Emails \cup {NoEmail})
  <2>. DEFINE e == IF req[r].email = NoEmail THEN account[req[r].user].email ELSE req[r].email
  <2>1. e \in Emails \cup {NoEmail}
    BY <1>1, <1>3 DEF TypeOK, Account
  <2>2. CASE UNCHANGED <<account, proven>>
    BY <1>1, <2>2 DEF TypeOK
  <2>3. ASSUME NEW c \in BOOLEAN,
               account' = [account EXCEPT ![req[r].user].email = e,
                                          ![req[r].user].confirmed = c],
               proven' = IF c THEN proven \cup {<<req[r].user, e>>} ELSE proven
        PROVE  account' \in [Users -> Account] /\ proven' \subseteq Users \X (Emails \cup {NoEmail})
    <3>. HIDE DEF e
    <3>. QED  BY <1>1, <1>3, <2>1, <2>3 DEF TypeOK, Account
  <2>. QED  BY <2>2, <2>3 DEF Update
<1>5. TypeOK'
  BY <1>1, <1>2, <1>4, IdleFits DEF TypeOK, Update, Done
<1>. QED  BY <1>5, IdleFits, AccountStepKeeps DEF Update, Done

(* Rows that are only revoked, used or removed.                            *)
LEMMA RevokeAdvances ==
  ASSUME TypeOK, NEW S \in SUBSET sessions, sessions' = Revoke(S), UNCHANGED <<otps, issued>>
  PROVE  sessions' \subseteq Session /\ Advance
<1>1. \A s \in sessions : [s EXCEPT !.revoked = TRUE] \in Session
  BY DEF TypeOK, Session
<1>2. sessions' \subseteq Session
  BY <1>1 DEF Revoke, TypeOK
<1>3. ASSUME NEW t \in sessions'  PROVE \E s \in sessions : Same(s, t)
  <2>1. CASE t \in sessions
    BY <2>1 DEF Same
  <2>2. CASE t \notin sessions
    <3>1. PICK s \in S : t = [s EXCEPT !.revoked = TRUE]
      BY <2>2 DEF Revoke
    <3>2. s \in Session
      BY DEF TypeOK
    <3>. QED  BY <3>1, <3>2 DEF Same, Session
  <2>. QED  BY <2>1, <2>2
<1>4. issued["session"] \in Nat /\ issued["otp"] \in Nat
  BY Ids
<1>. QED  BY <1>2, <1>3, <1>4 DEF Advance

LEMMA RevokeKeeps ==
  ASSUME AuthInv, NEW r \in Requests,
         RevokeOne(r) \/ RevokeOthers(r) \/ LogoutGlobal(r)
  PROVE  AuthInv'
<1>1. TypeOK
  BY DEF AuthInv
<1>2. /\ req[r] \in Request /\ req \in [Requests -> Request]
      /\ Shaped(req[r]) /\ Granted(req[r])
  BY RequestFits
<1>3. PICK S \in SUBSET sessions : sessions' = Revoke(S)
  BY DEF RevokeOne, RevokeOthers, LogoutGlobal, ActiveSessions
<1>4. /\ UNCHANGED <<account, otps, issued>>
      /\ UNCHANGED <<wallet, deaths, proven, changes>>
  BY DEF RevokeOne, RevokeOthers, LogoutGlobal, Untouched
<1>5. sessions' \subseteq Session /\ Advance
  BY <1>1, <1>3, <1>4, RevokeAdvances
<1>6. TypeOK'  \/ req' \notin [Requests -> Request]
  BY <1>1, <1>4, <1>5 DEF TypeOK
<1>7. CASE RevokeOne(r) /\ req[r].op = "refresh"
  <2>1. PICK q \in Request : q = [req[r] EXCEPT !.pc = "create"]
    BY <1>2 DEF Request, Steps
  <2>2. req' = [req EXCEPT ![r] = q]
    BY <1>7, <2>1 DEF RevokeOne, Goto
  <2>3. TypeOK'
    BY <1>2, <1>6, <2>2
  <2>4. /\ q.op = "refresh" /\ q.pc = "create" /\ q.ref = req[r].ref /\ q.user = req[r].user
        /\ req[r].pc = "revoke"
    BY <1>2, <1>7, <2>1 DEF Request, RevokeOne, At
  <2>5. Shaped(q)
    BY <1>2, <2>4 DEF Shaped, Redeems, Operations
  <2>6. \A t \in sessions' : t.id = q.ref => t.revoked
    <3>. SUFFICES ASSUME NEW t \in sessions', t.id = q.ref  PROVE t.revoked
      OBVIOUS
    <3>. DEFINE R == {s \in sessions : s.id = q.ref}
    <3>1. sessions' = {[s EXCEPT !.revoked = TRUE] : s \in R} \cup (sessions \ R)
      BY <1>7, <2>4 DEF RevokeOne, Revoke
    <3>2. t \notin sessions \ R
      OBVIOUS
    <3>3. PICK s \in R : t = [s EXCEPT !.revoked = TRUE]
      BY <3>1, <3>2
    <3>4. s \in Session
      BY <1>1 DEF TypeOK
    <3>. QED  BY <3>3, <3>4 DEF Session
  <2>7. issued["session"] = issued'["session"] /\ q.ref <= issued["session"]
    BY <1>2, <1>4, <1>7, <2>4 DEF Granted
  <2>8. Granted(q)'
    BY <2>4, <2>6, <2>7 DEF Granted, Redeems
  <2>. QED  BY <1>5, <2>2, <2>3, <2>5, <2>8, StepKeeps
<1>8. CASE Done(r)
  <2>1. TypeOK'
    BY <1>2, <1>6, <1>8, IdleFits DEF Done
  <2>2. PICK q \in Request : q = Idle
    BY IdleFits
  <2>3. Shaped(q) /\ Granted(q)
    BY <2>2, IdleFits
  <2>4. Granted(q)'
    BY <1>5, <2>1, <2>3, AdvanceKeeps
  <2>. QED  BY <1>5, <1>8, <2>1, <2>2, <2>3, <2>4, StepKeeps DEF Done
<1>9. CASE UNCHANGED req
  <2>1. TypeOK'
    BY <1>2, <1>6, <1>9
  <2>2. PICK q \in Request : q = req[r]
    BY <1>2
  <2>3. Shaped(q) /\ Granted(q) /\ req' = [req EXCEPT ![r] = q]
    BY <1>2, <1>9, <2>2
  <2>4. Granted(q)'
    BY <1>5, <2>1, <2>3, AdvanceKeeps
  <2>. QED  BY <1>5, <2>1, <2>3, <2>4, StepKeeps
<1>. QED  BY <1>7, <1>8, <1>9 DEF RevokeOne, RevokeOthers, LogoutGlobal

LEMMA ConsumeKeeps ==
  ASSUME AuthInv, NEW r \in Requests, Consume(r)
  PROVE  AuthInv'
<1>1. TypeOK
  BY DEF AuthInv
<1>2. /\ req[r] \in Request /\ req \in [Requests -> Request]
      /\ Shaped(req[r]) /\ Granted(req[r])
  BY RequestFits
<1>3. PICK q \in Request : q = [req[r] EXCEPT !.pc = "check"]
  BY <1>2 DEF Request, Steps
<1>4. /\ q.pc = "check" /\ q.op = req[r].op /\ q.ref = req[r].ref /\ q.user = req[r].user
      /\ req[r].pc = "consume" /\ req' = [req EXCEPT ![r] = q]
  BY <1>2, <1>3 DEF Request, Consume, At, Goto
<1>5. \A o \in otps : o \in Otp
  BY <1>1 DEF TypeOK
<1>6. otps' = {IF o.id = q.ref THEN [o EXCEPT !.consumed = TRUE] ELSE o : o \in otps}
  BY <1>4 DEF Consume
<1>7. ASSUME NEW p \in otps'
      PROVE  /\ p \in Otp
             /\ \E o \in otps : p.id = o.id /\ (o.consumed => p.consumed)
             /\ p.id = q.ref => p.consumed
  <2>1. PICK o \in otps : p = IF o.id = q.ref THEN [o EXCEPT !.consumed = TRUE] ELSE o
    BY <1>6
  <2>2. o \in Otp
    BY <1>5
  <2>. QED  BY <2>1, <2>2 DEF Otp
<1>8. UNCHANGED <<account, sessions, issued, wallet, deaths, proven, changes>>
  BY DEF Consume, Untouched
<1>9. TypeOK'
  BY <1>1, <1>2, <1>4, <1>7, <1>8 DEF TypeOK
<1>10. Advance
  BY <1>1, <1>7, <1>8, Ids DEF Advance, Same
<1>11. Shaped(q)
  BY <1>2, <1>4 DEF Shaped, Redeems
<1>12. Granted(q)'
  BY <1>1, <1>2, <1>4, <1>7, <1>8 DEF Granted, Redeems
<1>. QED  BY <1>4, <1>9, <1>10, <1>11, <1>12, StepKeeps

LEMMA CheckUserKeeps ==
  ASSUME AuthInv, NEW r \in Requests, CheckUser(r)
  PROVE  AuthInv'
<1>1. /\ req[r] \in Request /\ req \in [Requests -> Request]
      /\ Shaped(req[r]) /\ Granted(req[r])
  BY RequestFits
<1>2. CASE Done(r)
  BY <1>2, IdleFits, ReadKeeps DEF CheckUser, Done
<1>3. CASE Goto(r, "create")
  <2>1. PICK q \in Request : q = [req[r] EXCEPT !.pc = "create"]
    BY <1>1 DEF Request, Steps
  <2>2. /\ q.pc = "create" /\ q.op = req[r].op /\ q.ref = req[r].ref /\ q.user = req[r].user
        /\ req[r].pc = "check" /\ req' = [req EXCEPT ![r] = q]
    BY <1>1, <1>3, <2>1 DEF Request, CheckUser, At, Goto
  <2>3. Shaped(q) /\ Granted(q)
    BY <1>1, <2>2 DEF Shaped, Granted, Redeems
  <2>. QED  BY <2>2, <2>3, ReadKeeps DEF CheckUser
<1>. QED  BY <1>2, <1>3 DEF CheckUser

LEMMA CreateSessionKeeps ==
  ASSUME AuthInv, NEW r \in Requests, CreateSession(r)
  PROVE  AuthInv'
<1>1. TypeOK
  BY DEF AuthInv
<1>2. /\ req[r] \in Request /\ req \in [Requests -> Request]
      /\ Shaped(req[r]) /\ Granted(req[r])
  BY RequestFits
<1>3. PICK id \in Nat : id = issued["session"] + 1
  BY <1>1, Ids
<1>4. PICK q \in Request : q = [req[r] EXCEPT !.pc = "answer", !.ref = id]
  BY <1>2 DEF Request, Steps
<1>5. /\ q.pc = "answer" /\ q.op = req[r].op /\ q.user = req[r].user
      /\ req[r].pc = "create" /\ req' = [req EXCEPT ![r] = q]
  BY <1>2, <1>3, <1>4 DEF Request, CreateSession, At
<1>6. /\ req[r].user \in Users /\ req[r].op \in Operations /\ req[r].ref \in Nat
  BY <1>2, <1>5 DEF Shaped, Request
<1>7. PICK n \in Session :
        n = [id |-> id, user |-> req[r].user, op |-> req[r].op, ref |-> req[r].ref,
             revoked |-> FALSE]
  BY <1>6 DEF Session
<1>8. /\ sessions' = sessions \cup {n} /\ issued' = [issued EXCEPT !["session"] = id]
      /\ UNCHANGED <<account, otps, wallet, deaths, proven, changes>>
  BY <1>3, <1>7 DEF CreateSession, Untouched
<1>9. /\ issued'["session"] = id /\ issued'["otp"] = issued["otp"]
      /\ issued' \in [{"session", "otp"} -> Nat]
  BY <1>1, <1>8 DEF TypeOK
<1>10. TypeOK'
  BY <1>1, <1>2, <1>5, <1>8, <1>9 DEF TypeOK
<1>11. Advance
  <2>1. issued["session"] \in Nat /\ issued["otp"] \in Nat
    BY <1>1, Ids
  <2>2. /\ n.id > issued["session"] /\ n.id <= issued'["session"]
        /\ issued["session"] <= issued'["session"] /\ issued["otp"] <= issued'["otp"]
    BY <1>3, <1>7, <1>9, <2>1
  <2>3. /\ n.op = "refresh" => /\ n.ref <= issued["session"]
                               /\ \A s \in sessions : s.id = n.ref => s.revoked
        /\ n.op \in Redeems => /\ n.ref <= issued["otp"]
                               /\ \A o \in otps : o.id = n.ref => o.consumed
    BY <1>2, <1>5, <1>7 DEF Granted
  <2>4. \A s \in sessions : Same(s, s)
    BY DEF Same
  <2>. QED  BY <1>8, <2>2, <2>3, <2>4 DEF Advance
<1>12. Shaped(q) /\ Granted(q)'
  BY <1>2, <1>5 DEF Shaped, Granted, Redeems
<1>. QED  BY <1>5, <1>10, <1>11, <1>12, StepKeeps

LEMMA MailKeeps ==
  ASSUME AuthInv, NEW r \in Requests, Mail(r)
  PROVE  AuthInv'
<1>1. TypeOK
  BY DEF AuthInv
<1>2. /\ req[r] \in Request /\ req \in [Requests -> Request]
      /\ Shaped(req[r]) /\ Granted(req[r])
  BY RequestFits
<1>3. PICK id \in Nat : id = issued["otp"] + 1
  BY <1>1, Ids
<1>4. req[r].user \in Users /\ req[r].email \in Emails
  BY <1>2 DEF Shaped, Mail, At
<1>5. PICK n \in Otp : n = OtpRow(id, req[r].user, req[r].email)
  BY <1>4 DEF Otp, OtpRow
<1>6. /\ otps' = otps \cup {n} /\ issued' = [issued EXCEPT !["otp"] = id]
      /\ UNCHANGED <<account, sessions, wallet, deaths, proven>>
      /\ Done(r)
  BY <1>3, <1>5 DEF Mail
<1>7. changes' \subseteq [otp : Nat, user : Users, to : Emails]
  <2>1. CASE UNCHANGED changes
    BY <1>1, <2>1 DEF TypeOK
  <2>2. CASE \E e \in Emails : changes' = changes \cup {[otp |-> id, user |-> req[r].user, to |-> e]}
    BY <1>1, <1>4, <2>2 DEF TypeOK
  <2>. QED  BY <1>3, <2>1, <2>2 DEF Mail
<1>8. /\ issued'["otp"] = id /\ issued'["session"] = issued["session"]
      /\ issued' \in [{"session", "otp"} -> Nat]
  BY <1>1, <1>6 DEF TypeOK
<1>9. TypeOK'
  BY <1>1, <1>2, <1>6, <1>7, <1>8, IdleFits DEF TypeOK, Done
<1>10. Advance
  <2>1. issued["session"] \in Nat /\ issued["otp"] \in Nat
    BY <1>1, Ids
  <2>2. /\ n.id > issued["otp"] /\ n.id <= issued'["otp"]
        /\ issued["session"] <= issued'["session"] /\ issued["otp"] <= issued'["otp"]
    BY <1>3, <1>5, <1>8, <2>1 DEF OtpRow
  <2>3. \A s \in sessions : Same(s, s)
    BY DEF Same
  <2>. QED  BY <1>6, <2>2, <2>3 DEF Advance
<1>. QED  BY <1>6, <1>9, <1>10, IdleFits, StepKeeps DEF Done

(* An answer, a soft deletion, a request that dies.                        *)
LEMMA FinishKeeps ==
  ASSUME AuthInv, NEW r \in Requests, Answer(r) \/ SoftDelete(r) \/ Die(r)
  PROVE  AuthInv'
<1>1. TypeOK
  BY DEF AuthInv
<1>2. /\ req[r] \in Request /\ req \in [Requests -> Request] /\ Shaped(req[r])
  BY RequestFits
<1>3. Done(r) /\ UNCHANGED <<sessions, otps, issued, proven, changes>>
  BY DEF Answer, SoftDelete, Die, rows, Untouched
<1>4. account' \in [Users -> Account]
  <2>1. CASE UNCHANGED account
    BY <1>1, <2>1 DEF TypeOK
  <2>2. CASE SoftDelete(r)
    <3>1. req[r].user \in Users
      BY <1>2, <2>2 DEF SoftDelete, At, Shaped
    <3>. QED  BY <1>1, <2>2, <3>1 DEF SoftDelete, SetState, TypeOK, Account
  <2>. QED  BY <2>1, <2>2 DEF Answer, Die, rows
<1>5. wallet' \subseteq Nat
  BY <1>1, <1>2 DEF Answer, SoftDelete, Die, Untouched, TypeOK, Request
<1>6. deaths' \in 0 .. MaxDeaths
  BY <1>1, SupaAuthAssumption DEF Answer, SoftDelete, Die, Untouched, TypeOK
<1>7. TypeOK'
  BY <1>1, <1>2, <1>3, <1>4, <1>5, <1>6, IdleFits DEF TypeOK, Done
<1>. QED  BY <1>3, <1>7, IdleFits, AccountStepKeeps DEF Done

LEMMA HardDeleteKeeps ==
  ASSUME AuthInv, NEW r \in Requests,
         HardDeleteUser(r) \/ HardDeleteSessions(r) \/ HardDeleteOtps(r)
  PROVE  AuthInv'
<1>1. TypeOK
  BY DEF AuthInv
<1>2. /\ req[r] \in Request /\ req \in [Requests -> Request] /\ Shaped(req[r])
  BY RequestFits
<1>3. /\ req[r].pc \in {"delete_user", "delete_sessions", "delete_otps"}
      /\ req[r].user \in Users
      /\ req[r].op \notin Redeems /\ req[r].op # "refresh"
  BY <1>2 DEF HardDeleteUser, HardDeleteSessions, HardDeleteOtps, At, Shaped
<1>4. PICK q \in Request : /\ req' = [req EXCEPT ![r] = q]
                           /\ Shaped(q)
                           /\ Granted(q) /\ Granted(q)'
  <2>1. CASE Done(r)
    BY <2>1, IdleFits DEF Done
  <2>2. ASSUME NEW pc \in {"delete_sessions", "delete_otps"}, Goto(r, pc)
        PROVE  \E q \in Request : /\ req' = [req EXCEPT ![r] = q]
                                  /\ Shaped(q)
                                  /\ Granted(q) /\ Granted(q)'
    <3>1. PICK q \in Request : q = [req[r] EXCEPT !.pc = pc]
      BY <1>2 DEF Request, Steps
    <3>2. q.pc = pc /\ q.op = req[r].op /\ q.user = req[r].user
      BY <1>2, <3>1 DEF Request
    <3>3. Shaped(q) /\ Granted(q) /\ Granted(q)'
      BY <1>2, <1>3, <3>2 DEF Shaped, Granted
    <3>. QED  BY <2>2, <3>1, <3>3 DEF Goto
  <2>. QED  BY <2>1, <2>2 DEF HardDeleteUser, HardDeleteSessions, HardDeleteOtps
<1>5. UNCHANGED <<issued, wallet, deaths, proven, changes>>
  BY DEF HardDeleteUser, HardDeleteSessions, HardDeleteOtps, Untouched
<1>6. sessions' \subseteq sessions /\ otps' \subseteq otps
  BY DEF HardDeleteUser, HardDeleteSessions, HardDeleteOtps
<1>7. account' \in [Users -> Account]
  <2>1. CASE UNCHANGED account
    BY <1>1, <2>1 DEF TypeOK
  <2>2. CASE HardDeleteUser(r)
    BY <1>1, <1>3, <2>2 DEF HardDeleteUser, SetState, TypeOK, Account
  <2>. QED  BY <2>1, <2>2 DEF HardDeleteSessions, HardDeleteOtps
<1>8. TypeOK'
  BY <1>1, <1>2, <1>4, <1>5, <1>6, <1>7 DEF TypeOK
<1>9. Advance
  BY <1>1, <1>5, <1>6, Ids DEF Advance, Same
<1>. QED  BY <1>4, <1>8, <1>9, StepKeeps

-----------------------------------------------------------------------------
LEMMA AuthStep ==
  ASSUME AuthInv, NEW r \in Requests, Start(r) \/ Continue(r) \/ Die(r)
  PROVE  AuthInv'
<1>1. CASE Start(r)
  BY <1>1, StartKeeps, RevokeKeeps DEF Start
<1>2. CASE Continue(r)
  BY <1>2, InsertUserKeeps, ConfirmKeeps, ConsumeKeeps, CheckUserKeeps, CreateSessionKeeps,
     FinishKeeps, RevokeKeeps, MailKeeps, UpdateKeeps, HardDeleteKeeps DEF Continue
<1>3. CASE Die(r)
  BY <1>3, FinishKeeps
<1>. QED  BY <1>1, <1>2, <1>3

(* Nothing a request does, dying included, breaks the invariant.           *)
THEOREM AuthInvariant == Spec => []AuthInv
<1>1. ASSUME AuthInv, [Next]_vars  PROVE AuthInv'
  <2>1. CASE UNCHANGED vars
    BY <1>1, <2>1 DEF vars, AuthInv, TypeOK, Issued, GrantUsedUp, Shaped, Granted
  <2>2. CASE Next
    BY <1>1, <2>2, AuthStep DEF Next
  <2>. QED  BY <1>1, <2>1, <2>2
<1>. QED  BY <1>1, AuthInit, PTL DEF Spec

(* The rows and the requests keep their shape, for any number of requests. *)
THEOREM AuthTypeCorrect == Spec => []TypeOK
<1>1. AuthInv => TypeOK
  BY DEF AuthInv
<1>. QED  BY <1>1, AuthInvariant, PTL

(* A session was granted only for something that can buy no other: the     *)
(* refresh token it replaces is revoked, the one-time password it was made *)
(* for consumed.                                                           *)
THEOREM GrantsUsedUp == Spec => []GrantUsedUp
<1>1. AuthInv => GrantUsedUp
  BY DEF AuthInv
<1>. QED  BY <1>1, AuthInvariant, PTL

-----------------------------------------------------------------------------
(* Emails.                                                                 *)

(* What a step does to the accounts: it changes at most one, whose address *)
(* is then NULL, the one it had, or one that no other account has.         *)
OneAccount ==
  \E u \in Users :
    /\ \A w \in Users : w # u => account'[w] = account[w]
    /\ \/ ~HasRow(u)'
       \/ account'[u].email = NoEmail
       \/ ~Taken(account'[u].email, u)
       \/ HasRow(u) /\ account'[u].email = account[u].email

LEMMA OneAccountKeeps ==
  ASSUME EmailIdentifiesAccount, OneAccount
  PROVE  EmailIdentifiesAccount'
<1>1. PICK u \in Users :
        /\ \A w \in Users : w # u => account'[w] = account[w]
        /\ \/ ~HasRow(u)'
           \/ account'[u].email = NoEmail
           \/ ~Taken(account'[u].email, u)
           \/ HasRow(u) /\ account'[u].email = account[u].email
  BY DEF OneAccount
<1>2. \A w \in Users : w # u => (HasRow(w)' <=> HasRow(w))
  BY <1>1 DEF HasRow
<1>. SUFFICES ASSUME NEW e \in Emails, NEW v \in UsersByEmail(e)', NEW w \in UsersByEmail(e)',
                     w # u
              PROVE  v = w
  BY DEF EmailIdentifiesAccount, UsersByEmail
<1>3. e # NoEmail
  BY SupaAuthAssumption
<1>4. w \in UsersByEmail(e)
  BY <1>1, <1>2 DEF UsersByEmail
<1>5. CASE v # u
  <2>1. v \in UsersByEmail(e)
    BY <1>1, <1>2, <1>5 DEF UsersByEmail
  <2>. QED  BY <1>4, <2>1 DEF EmailIdentifiesAccount
<1>6. CASE v = u
  <2>1. HasRow(u)' /\ account'[u].email = e
    BY <1>6 DEF UsersByEmail
  <2>2. Taken(e, u)
    BY <1>3, <1>4 DEF Taken
  <2>3. u \in UsersByEmail(e)
    BY <1>1, <1>3, <2>1, <2>2 DEF UsersByEmail
  <2>. QED  BY <1>4, <1>6, <2>3 DEF EmailIdentifiesAccount
<1>. QED  BY <1>5, <1>6

LEMMA SetStateOne ==
  ASSUME TypeOK, NEW u \in Users, NEW state \in {"soft", "gone"}, SetState(u, state)
  PROVE  OneAccount
<1>1. account \in [Users -> Account]
  BY DEF TypeOK
<1>2. CASE HasRow(u)
  <2>1. account' = [account EXCEPT ![u].state = state]
    BY <1>2 DEF SetState
  <2>2. account'[u].email = account[u].email
    BY <1>1, <2>1 DEF Account
  <2>. QED  BY <1>1, <1>2, <2>1, <2>2 DEF OneAccount
<1>3. CASE ~HasRow(u)
  BY <1>3 DEF SetState, OneAccount, HasRow
<1>. QED  BY <1>2, <1>3

LEMMA InsertOne ==
  ASSUME AuthInv, NEW r \in Requests, InsertUser(r), account' # account
  PROVE  OneAccount
<1>. DEFINE u == req[r].user
            e == req[r].email
<1>1. account \in [Users -> Account] /\ u \in Users
  BY RequestFits DEF AuthInv, TypeOK, InsertUser, At, Shaped
<1>2. /\ ~Taken(e, u)
      /\ \E c \in BOOLEAN :
           account' = [account EXCEPT ![u] = [state |-> "live", email |-> e, confirmed |-> c]]
  BY DEF InsertUser
<1>. HIDE DEF u, e
<1>3. account'[u].email = e /\ \A w \in Users : w # u => account'[w] = account[w]
  BY <1>1, <1>2
<1>. QED  BY <1>1, <1>2, <1>3 DEF OneAccount

LEMMA ConfirmOne ==
  ASSUME AuthInv, NEW r \in Requests, Confirm(r), account' # account
  PROVE  OneAccount
<1>. DEFINE u == req[r].user
            e == req[r].email
            change == req[r].op = "email_change"
<1>1. account \in [Users -> Account] /\ u \in Users /\ HasRow(u)
  BY RequestFits DEF AuthInv, TypeOK, Confirm, At, Shaped
<1>2. /\ change => ~Taken(e, u)
      /\ account' = [account EXCEPT ![u].confirmed = TRUE,
                       ![u].email = IF change THEN e ELSE @]
  BY <1>1 DEF Confirm
<1>. HIDE DEF u, e, change
<1>3. /\ \A w \in Users : w # u => account'[w] = account[w]
      /\ account'[u].email = IF change THEN e ELSE account[u].email
  BY <1>1, <1>2 DEF Account
<1>. QED  BY <1>1, <1>2, <1>3 DEF OneAccount

LEMMA UpdateOne ==
  ASSUME AuthInv, NEW r \in Requests, Update(r), account' # account
  PROVE  OneAccount
<1>. DEFINE u == req[r].user
            e == IF req[r].email = NoEmail THEN account[u].email ELSE req[r].email
<1>1. account \in [Users -> Account] /\ u \in Users
  BY RequestFits DEF AuthInv, TypeOK, Update, At, Shaped
<1>2. /\ ~Taken(e, u)
      /\ \E c \in BOOLEAN :
           account' = [account EXCEPT ![u].email = e, ![u].confirmed = c]
  BY DEF Update
<1>. HIDE DEF u, e
<1>3. account'[u].email = e /\ \A w \in Users : w # u => account'[w] = account[w]
  BY <1>1, <1>2 DEF Account
<1>. QED  BY <1>1, <1>2, <1>3 DEF OneAccount

LEMMA NextOneAccount ==
  ASSUME AuthInv, NEW r \in Requests, Start(r) \/ Continue(r) \/ Die(r), account' # account
  PROVE  OneAccount
<1>1. ~Start(r) /\ ~Die(r)
  BY DEF Start, Die, rows, Refresh, Password, Anonymous, Verify, NewAccount, SendOtp, UpdateUser,
     LogoutGlobal, LogoutLocal, LogoutOthers, DeleteUser
<1>2. CASE InsertUser(r) \/ Confirm(r) \/ Update(r)
  BY <1>2, InsertOne, ConfirmOne, UpdateOne
<1>3. CASE SoftDelete(r)
  <2>1. req[r].user \in Users
    BY <1>3, RequestFits DEF SoftDelete, At, Shaped
  <2>. QED  BY <1>3, <2>1, SetStateOne DEF SoftDelete, AuthInv
<1>4. CASE HardDeleteUser(r)
  <2>1. req[r].user \in Users
    BY <1>4, RequestFits DEF HardDeleteUser, At, Shaped
  <2>. QED  BY <1>4, <2>1, SetStateOne DEF HardDeleteUser, AuthInv
<1>5. ~(\/ Consume(r) \/ CheckUser(r) \/ CreateSession(r) \/ Answer(r) \/ RevokeOne(r)
        \/ RevokeOthers(r) \/ Mail(r) \/ HardDeleteSessions(r) \/ HardDeleteOtps(r))
  BY DEF Consume, CheckUser, CreateSession, Answer, RevokeOne, RevokeOthers, Mail,
     HardDeleteSessions, HardDeleteOtps, rows
<1>. QED  BY <1>1, <1>2, <1>3, <1>4, <1>5 DEF Continue

(* An email is the address of at most one account: the handlers look       *)
(* before they write, but it is the constraint on the row that decides.    *)
THEOREM EmailsIdentifyAccounts == Spec => []EmailIdentifiesAccount
<1>1. Init => EmailIdentifiesAccount
  BY DEF Init, EmailIdentifiesAccount, UsersByEmail, HasRow
<1>2. ASSUME AuthInv, EmailIdentifiesAccount, [Next]_vars  PROVE EmailIdentifiesAccount'
  <2>1. CASE account' = account
    BY <1>2, <2>1 DEF EmailIdentifiesAccount, UsersByEmail, HasRow
  <2>2. CASE account' # account
    BY <1>2, <2>2, NextOneAccount, OneAccountKeeps DEF Next, vars
  <2>. QED  BY <2>1, <2>2
<1>. QED  BY <1>1, <1>2, AuthInvariant, PTL DEF Spec

-----------------------------------------------------------------------------
(* One-time passwords.                                                     *)

(* A request that redeems a password carries the account and the address   *)
(* of its row, as long as there is one, and uses it up only after the      *)
(* address has been shown to belong to the account.                        *)
Redeeming(q) ==
  /\ q.pc = "confirm" => q.op \in Redeems \cup {"signup"}
  /\ q.pc = "consume" => q.op \in Redeems /\ <<q.user, q.email>> \in proven
  /\ q.op \in Redeems /\ q.pc \in {"confirm", "consume"} =>
       \A o \in otps : o.id = q.ref => o.user = q.user /\ o.email = q.email

OtpsDistinct ==
  \A o, p \in otps : o.id = p.id => o.user = p.user /\ o.email = p.email

RedeemInv ==
  /\ AuthInv
  /\ OtpsDistinct
  /\ UsedUpTookEffect
  /\ \A r \in Requests : Redeeming(req[r])

(* What steps do to the passwords: at most one new, and one that is used   *)
(* up has taken effect.                                                    *)
Redeemed(n) ==
  \A p \in otps' :
    \/ \E o \in otps : /\ p.id = o.id /\ p.user = o.user /\ p.email = o.email
                       /\ p.consumed => o.consumed \/ <<p.user, p.email>> \in proven
    \/ p = n /\ n.id = issued["otp"] + 1 /\ ~n.consumed

LEMMA RedeemKeeps ==
  ASSUME RedeemInv, AuthInv', proven \subseteq proven', NEW n, Redeemed(n),
         NEW r \in Requests, NEW q, req' = [req EXCEPT ![r] = q], Redeeming(q)'
  PROVE  RedeemInv'
<1>1. /\ issued["otp"] \in Nat
      /\ \A o \in otps : o.id \in Nat /\ o.id <= issued["otp"]
  BY Ids DEF RedeemInv, AuthInv, Issued
<1>0. ASSUME NEW p \in otps'
      PROVE  \/ \E o \in otps : p.id = o.id /\ p.user = o.user /\ p.email = o.email
             \/ p = n /\ n.id = issued["otp"] + 1
  <2>1. CASE p = n /\ n.id = issued["otp"] + 1
    BY <2>1
  <2>2. CASE ~(p = n /\ n.id = issued["otp"] + 1)
    BY <2>2, Zenon DEF Redeemed
  <2>. QED  BY <2>1, <2>2
<1>2. OtpsDistinct'
  <2>. SUFFICES ASSUME NEW o \in otps', NEW p \in otps', o.id = p.id
                PROVE  o.user = p.user /\ o.email = p.email
    BY DEF OtpsDistinct
  <2>1. CASE o.id = issued["otp"] + 1
    <3>1. \A a \in otps : a.id # issued["otp"] + 1
      BY <1>1
    <3>2. ~ \E a \in otps : o.id = a.id
      BY <2>1, <3>1
    <3>3. o = n /\ p = n
      BY <1>0, <3>2
    <3>. QED  BY <3>3
  <2>2. CASE o.id # issued["otp"] + 1
    <3>1. PICK a \in otps : o.id = a.id /\ o.user = a.user /\ o.email = a.email
      BY <1>0, <2>2
    <3>2. PICK b \in otps : p.id = b.id /\ p.user = b.user /\ p.email = b.email
      BY <1>0, <2>2
    <3>. QED  BY <3>1, <3>2 DEF RedeemInv, OtpsDistinct
  <2>. QED  BY <2>1, <2>2
<1>3. UsedUpTookEffect'
  <2>. SUFFICES ASSUME NEW p \in otps', p.consumed  PROVE <<p.user, p.email>> \in proven'
    BY DEF UsedUpTookEffect
  <2>1. PICK o \in otps : /\ p.user = o.user /\ p.email = o.email
                          /\ o.consumed \/ <<p.user, p.email>> \in proven
    BY DEF Redeemed
  <2>2. CASE o.consumed
    BY <2>1, <2>2 DEF RedeemInv, UsedUpTookEffect
  <2>. QED  BY <2>1, <2>2
<1>4. ASSUME NEW x \in Requests, x # r  PROVE Redeeming(req[x])'
  <2>1. req'[x] = req[x] /\ req[x] \in Request /\ Granted(req[x]) /\ Redeeming(req[x])
    BY <1>4, RequestFits DEF RedeemInv
  <2>2. CASE req[x].op \in Redeems /\ req[x].pc \in {"confirm", "consume"}
    <3>1. req[x].ref \in Nat /\ req[x].ref <= issued["otp"]
      BY <2>1, <2>2 DEF Granted, Request
    <3>2. ASSUME NEW p \in otps', p.id = req[x].ref
          PROVE  p.user = req[x].user /\ p.email = req[x].email
      <4>1. PICK o \in otps : p.id = o.id /\ p.user = o.user /\ p.email = o.email
        BY <1>0, <1>1, <3>1, <3>2
      <4>. QED  BY <2>1, <2>2, <3>2, <4>1 DEF Redeeming
    <3>. QED  BY <2>1, <3>2 DEF Redeeming
  <2>3. CASE ~(req[x].op \in Redeems /\ req[x].pc \in {"confirm", "consume"})
    BY <2>1, <2>3 DEF Redeeming
  <2>. QED  BY <2>2, <2>3
<1>5. Redeeming(req[r])'
  <2>1. req'[r] = q
    BY RequestFits DEF RedeemInv
  <2>. QED  BY <2>1 DEF Redeeming
<1>. QED  BY <1>2, <1>3, <1>4, <1>5 DEF RedeemInv

(* A step after which the request is not about to redeem a password.       *)
NotRedeeming(r) ==
  \E q : req' = [req EXCEPT ![r] = q] /\ q.pc \notin {"confirm", "consume"}

LEMMA RowsLeft ==
  ASSUME otps' \subseteq otps
  PROVE  \A n : Redeemed(n)
BY DEF Redeemed

LEMMA OtherStepKeeps ==
  ASSUME RedeemInv, AuthInv', proven \subseteq proven', otps' \subseteq otps,
         NEW r \in Requests, NotRedeeming(r)
  PROVE  RedeemInv'
<1>1. PICK q : req' = [req EXCEPT ![r] = q] /\ q.pc \notin {"confirm", "consume"}
  BY DEF NotRedeeming
<1>2. Redeeming(q)'
  BY <1>1 DEF Redeeming
<1>. QED  BY <1>1, <1>2, RowsLeft, RedeemKeeps

LEMMA ControlFacts ==
  ASSUME TypeOK, NEW r \in Requests
  PROVE  /\ Done(r) => NotRedeeming(r)
         /\ \A pc \in Steps \ {"confirm", "consume"} : Goto(r, pc) => NotRedeeming(r)
         /\ \A op, pc, u, ref, e :
              Begin(r, op, pc, u, ref, e) /\ pc \notin {"confirm", "consume"} => NotRedeeming(r)
<1>1. req \in [Requests -> Request]
  BY DEF TypeOK
<1>2. ASSUME Done(r)  PROVE NotRedeeming(r)
  <2>1. req' = [req EXCEPT ![r] = Idle] /\ Idle.pc \notin {"confirm", "consume"}
    BY <1>2 DEF Done, Idle
  <2>. QED  BY <2>1 DEF NotRedeeming
<1>3. ASSUME NEW pc \in Steps \ {"confirm", "consume"}, Goto(r, pc)  PROVE NotRedeeming(r)
  <2>1. PICK q : q = [req[r] EXCEPT !.pc = pc]
    OBVIOUS
  <2>2. q.pc = pc /\ req' = [req EXCEPT ![r] = q]
    BY <1>1, <1>3, <2>1 DEF Goto, Request
  <2>. QED  BY <2>2 DEF NotRedeeming
<1>4. ASSUME NEW op, NEW pc, NEW u, NEW ref, NEW e,
             Begin(r, op, pc, u, ref, e), pc \notin {"confirm", "consume"}
      PROVE  NotRedeeming(r)
  <2>1. PICK q : q = [op |-> op, pc |-> pc, user |-> u, ref |-> ref, email |-> e]
    OBVIOUS
  <2>2. q.pc = pc /\ req' = [req EXCEPT ![r] = q]
    BY <1>4, <2>1 DEF Begin
  <2>. QED  BY <1>4, <2>2 DEF NotRedeeming
<1>. QED  BY <1>2, <1>3, <1>4

LEMMA StartRedeems ==
  ASSUME RedeemInv, AuthInv', NEW r \in Requests, Start(r)
  PROVE  RedeemInv'
<1>. USE DEF rows, Untouched
<1>1. TypeOK
  BY DEF RedeemInv, AuthInv
<1>2. proven' = proven /\ otps' = otps
  BY DEF Start, Refresh, Password, Anonymous, Verify, NewAccount, SendOtp, UpdateUser,
     LogoutGlobal, LogoutLocal, LogoutOthers, DeleteUser
<1>3. CASE Refresh(r) \/ Password(r) \/ Anonymous(r) \/ NewAccount(r) \/ SendOtp(r)
             \/ UpdateUser(r) \/ LogoutLocal(r) \/ LogoutOthers(r) \/ DeleteUser(r)
  <2>1. NotRedeeming(r)
    BY <1>1, <1>3, ControlFacts DEF Refresh, Password, Anonymous, NewAccount, SendOtp,
       UpdateUser, LogoutLocal, LogoutOthers, DeleteUser
  <2>. QED  BY <1>2, <2>1, OtherStepKeeps
<1>4. CASE Verify(r)
  <2>1. PICK op \in {"verify", "email_change"}, o \in otps :
          Begin(r, op, "confirm", o.user, o.id, o.email)
    BY <1>4 DEF Verify
  <2>2. PICK q : q = [op |-> op, pc |-> "confirm", user |-> o.user, ref |-> o.id,
                      email |-> o.email]
    OBVIOUS
  <2>3. req' = [req EXCEPT ![r] = q]
    BY <2>1, <2>2 DEF Begin
  <2>4. Redeeming(q)'
    BY <1>2, <2>2 DEF Redeeming, RedeemInv, OtpsDistinct, Redeems
  <2>. QED  BY <1>2, <2>3, <2>4, RowsLeft, RedeemKeeps
<1>5. CASE LogoutGlobal(r)
  <2>1. req' = req
    BY <1>5 DEF LogoutGlobal
  <2>. QED  BY <1>2, <2>1 DEF RedeemInv, OtpsDistinct, UsedUpTookEffect, Redeeming
<1>. QED  BY <1>3, <1>4, <1>5 DEF Start

LEMMA InsertRedeems ==
  ASSUME RedeemInv, AuthInv', NEW r \in Requests, InsertUser(r)
  PROVE  RedeemInv'
<1>1. req[r] \in Request /\ req \in [Requests -> Request] /\ TypeOK
  BY RequestFits DEF RedeemInv, AuthInv
<1>2. proven \subseteq proven' /\ otps' = otps
  BY DEF InsertUser
<1>3. CASE Done(r) \/ Goto(r, "create") \/ Goto(r, "mail")
  <2>1. NotRedeeming(r)
    BY <1>1, <1>3, ControlFacts DEF Steps
  <2>. QED  BY <1>2, <2>1, OtherStepKeeps
<1>4. CASE Goto(r, "confirm") /\ req[r].op = "signup"
  <2>1. PICK q : q = [req[r] EXCEPT !.pc = "confirm"]
    OBVIOUS
  <2>2. req' = [req EXCEPT ![r] = q] /\ q.pc = "confirm" /\ q.op = "signup"
    BY <1>1, <1>4, <2>1 DEF Goto, Request
  <2>3. Redeeming(q)'
    BY <2>2 DEF Redeeming, Redeems
  <2>. QED  BY <1>2, <2>2, <2>3, RowsLeft, RedeemKeeps
<1>. QED  BY <1>3, <1>4 DEF InsertUser

LEMMA ConfirmRedeems ==
  ASSUME RedeemInv, AuthInv', NEW r \in Requests, Confirm(r)
  PROVE  RedeemInv'
<1>1. req[r] \in Request /\ req \in [Requests -> Request] /\ TypeOK /\ Redeeming(req[r])
  BY RequestFits DEF RedeemInv, AuthInv
<1>2. proven \subseteq proven' /\ otps' = otps /\ req[r].pc = "confirm"
  BY DEF Confirm, At
<1>3. CASE Done(r) \/ Goto(r, "check")
  <2>1. NotRedeeming(r)
    BY <1>1, <1>3, ControlFacts DEF Steps
  <2>. QED  BY <1>2, <2>1, OtherStepKeeps
<1>4. CASE /\ Goto(r, "consume") /\ req[r].op # "signup"
           /\ proven' = proven \cup {<<req[r].user, req[r].email>>}
  <2>1. PICK q : q = [req[r] EXCEPT !.pc = "consume"]
    OBVIOUS
  <2>2. /\ req' = [req EXCEPT ![r] = q] /\ q.pc = "consume"
        /\ q.op = req[r].op /\ q.user = req[r].user /\ q.email = req[r].email
        /\ q.ref = req[r].ref
    BY <1>1, <1>4, <2>1 DEF Goto, Request
  <2>3. req[r].op \in Redeems
    BY <1>1, <1>2, <1>4 DEF Redeeming
  <2>4. Redeeming(q)'
    BY <1>1, <1>2, <1>4, <2>2, <2>3 DEF Redeeming
  <2>. QED  BY <1>2, <2>2, <2>4, RowsLeft, RedeemKeeps
<1>. QED  BY <1>3, <1>4 DEF Confirm

LEMMA ConsumeRedeems ==
  ASSUME RedeemInv, AuthInv', NEW r \in Requests, Consume(r)
  PROVE  RedeemInv'
<1>1. req[r] \in Request /\ req \in [Requests -> Request] /\ TypeOK /\ Redeeming(req[r])
  BY RequestFits DEF RedeemInv, AuthInv
<1>2. /\ req[r].pc = "consume" /\ proven' = proven /\ Goto(r, "check")
      /\ otps' = {IF o.id = req[r].ref THEN [o EXCEPT !.consumed = TRUE] ELSE o : o \in otps}
  BY DEF Consume, At, Untouched
<1>3. ASSUME NEW p \in otps'
      PROVE  \E o \in otps :
               /\ p.id = o.id /\ p.user = o.user /\ p.email = o.email
               /\ p.consumed => o.consumed \/ <<p.user, p.email>> \in proven
  <2>1. PICK o \in otps : p = IF o.id = req[r].ref THEN [o EXCEPT !.consumed = TRUE] ELSE o
    BY <1>2
  <2>2. o \in Otp
    BY <1>1 DEF TypeOK
  <2>3. p.id = o.id /\ p.user = o.user /\ p.email = o.email
    BY <2>1, <2>2 DEF Otp
  <2>4. CASE o.id = req[r].ref
    BY <1>1, <1>2, <2>3, <2>4 DEF Redeeming
  <2>5. CASE o.id # req[r].ref
    BY <2>1, <2>5
  <2>. QED  BY <2>3, <2>4, <2>5
<1>4. \A n : Redeemed(n)
  BY <1>3 DEF Redeemed
<1>5. PICK q : req' = [req EXCEPT ![r] = q] /\ q.pc \notin {"confirm", "consume"}
  BY <1>1, <1>2, ControlFacts DEF NotRedeeming, Steps
<1>6. Redeeming(q)'
  BY <1>5 DEF Redeeming
<1>. QED  BY <1>2, <1>4, <1>5, <1>6, RedeemKeeps

LEMMA MailRedeems ==
  ASSUME RedeemInv, AuthInv', NEW r \in Requests, Mail(r)
  PROVE  RedeemInv'
<1>1. PICK n : n = OtpRow(issued["otp"] + 1, req[r].user, req[r].email)
  OBVIOUS
<1>2. /\ otps' = otps \cup {n} /\ proven' = proven /\ Done(r)
      /\ n.id = issued["otp"] + 1 /\ ~n.consumed
  BY <1>1 DEF Mail, OtpRow
<1>3. Redeemed(n)
  BY <1>2 DEF Redeemed
<1>4. Redeeming(Idle)'
  BY DEF Redeeming, Idle
<1>. QED  BY <1>2, <1>3, <1>4, RedeemKeeps DEF Done

LEMMA OthersRedeem ==
  ASSUME RedeemInv, AuthInv', NEW r \in Requests,
         \/ CheckUser(r) \/ CreateSession(r) \/ Answer(r) \/ RevokeOne(r) \/ RevokeOthers(r)
         \/ Update(r) \/ SoftDelete(r) \/ HardDeleteUser(r) \/ HardDeleteSessions(r)
         \/ HardDeleteOtps(r) \/ Die(r)
  PROVE  RedeemInv'
<1>. USE DEF rows, Untouched
<1>1. req[r] \in Request /\ req \in [Requests -> Request] /\ TypeOK
  BY RequestFits DEF RedeemInv, AuthInv
<1>2. proven \subseteq proven' /\ otps' \subseteq otps
  BY DEF CheckUser, CreateSession, Answer, RevokeOne, RevokeOthers, Update, SoftDelete,
     HardDeleteUser, HardDeleteSessions, HardDeleteOtps, Die
<1>3. NotRedeeming(r)
  <2>1. CASE CreateSession(r)
    <3>1. PICK q : q = [req[r] EXCEPT !.pc = "answer", !.ref = issued["session"] + 1]
      OBVIOUS
    <3>2. req' = [req EXCEPT ![r] = q] /\ q.pc = "answer"
      BY <1>1, <2>1, <3>1 DEF CreateSession, Request
    <3>. QED  BY <3>2 DEF NotRedeeming
  <2>2. CASE ~CreateSession(r)
    BY <1>1, <2>2, ControlFacts DEF CheckUser, Answer, RevokeOne, RevokeOthers, Update,
       SoftDelete, HardDeleteUser, HardDeleteSessions, HardDeleteOtps, Die, Steps
  <2>. QED  BY <2>1, <2>2
<1>. QED  BY <1>2, <1>3, OtherStepKeeps

(* A one-time password that is used up has taken effect: the account it    *)
(* was made for has been confirmed, or has its address, whatever requests  *)
(* died on the way and whichever used the same password at the same time.  *)
THEOREM UsedUpHasTakenEffect == Spec => []UsedUpTookEffect
<1>1. Init => RedeemInv
  <2>1. Init => OtpsDistinct /\ UsedUpTookEffect /\ \A r \in Requests : Redeeming(req[r])
    BY DEF Init, Idle, OtpsDistinct, UsedUpTookEffect, Redeeming
  <2>. QED  BY <2>1, AuthInit DEF RedeemInv
<1>2. ASSUME RedeemInv, [Next]_vars  PROVE RedeemInv'
  <2>1. CASE UNCHANGED vars
    BY <1>2, <2>1 DEF vars, RedeemInv, AuthInv, TypeOK, Issued, GrantUsedUp, Shaped, Granted,
       OtpsDistinct, UsedUpTookEffect, Redeeming
  <2>2. ASSUME NEW r \in Requests, Start(r) \/ Continue(r) \/ Die(r)  PROVE RedeemInv'
    <3>1. AuthInv'
      BY <1>2, <2>2, AuthStep DEF RedeemInv
    <3>. QED  BY <1>2, <2>2, <3>1, StartRedeems, InsertRedeems, ConfirmRedeems, ConsumeRedeems,
              MailRedeems, OthersRedeem DEF Continue
  <2>. QED  BY <1>2, <2>1, <2>2 DEF Next
<1>3. RedeemInv => UsedUpTookEffect
  BY DEF RedeemInv
<1>. QED  BY <1>1, <1>2, <1>3, PTL DEF Spec
=============================================================================
