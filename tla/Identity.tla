------------------------------ MODULE Identity ------------------------------
(***************************************************************************)
(* Who a request is from: $Database.initAuth and JWTTokenHelper.  A token  *)
(* names its issuer.  The program's own tokens are signed with the key of  *)
(* the admin or of one user table; other issuers are the ones the settings *)
(* list, each with a mode that says how much of its tokens is believed.    *)
(* Signing is modelled by naming the key, `Own' is the program's issuer,   *)
(* "google" one whose tokens are checked by its service; all others are    *)
(* checked with a configured key.                                          *)
(***************************************************************************)
EXTENDS Integers, Sequences, Exchange

CONSTANT AuthTables  \* the tables with the auth extension

Own == "$db"
Modes == {"login", "partial", "full", "admin"}

(* What the settings list: an issuer, its mode and its clients, if any.    *)
Providers ==
  [issuer : {"acme"}, mode : Modes, clients : {{}, {"web"}, {"ios"}}]
  \cup [issuer : {"google", "supabase", Own}, mode : {"login", "partial", "full"},
        clients : {{}, {"web"}}]

ProviderLists ==
  {<<>>} \cup {<<p>> : p \in Providers}
  \cup {<<p, q>> : p, q \in {r \in Providers : r.issuer = "acme" /\ r.mode # "partial"}}

(* A token.  cid is the table it names, aud the audiences or roles;        *)
(* `service' is not signed at all but the ADMIN_SERVICE_TOKEN itself.      *)
Signed == [iss : {Own, "acme", "google", "supabase", "other"},
           key : AuthTables \cup {"admin", "acme", "google", "supabase"},
           cid : {"none", "users", "gone"}, admin : BOOLEAN, verified : BOOLEAN,
           aud : {{"web"}, {"ios"}, {"viewer"}, {"web", "superadmin"}}]

ServiceToken == [iss |-> Own, key |-> "service", cid |-> "none", admin |-> TRUE,
                 verified |-> TRUE, aud |-> {"superadmin"}]

(* Tokens of another issuer are signed with its key or with the program's. *)
Tokens ==
  {t \in Signed : t.iss # Own => t.key \in {"admin", t.iss}} \cup {ServiceToken}

IdentityAsked == [part : {"identity"}, providers : ProviderLists, token : Tokens]

-----------------------------------------------------------------------------
(* The constructor: a second provider of an issuer adds its clients to the *)
(* first; one without clients takes its place.                             *)
AddProvider(map, p) ==
  [i \in DOMAIN map \cup {p.issuer} |->
     IF i # p.issuer THEN map[i]
     ELSE IF i \in DOMAIN map /\ p.clients # {}
          THEN [map[i] EXCEPT !.clients = @ \cup p.clients]
          ELSE [mode |-> p.mode, clients |-> p.clients]]

issuerMap(providers) ==
  LET map[n \in 0 .. Len(providers)] ==
        IF n = 0 THEN [i \in {Own} |-> [mode |-> "login", clients |-> {}]]
        ELSE AddProvider(map[n - 1], providers[n])
  IN map[Len(providers)]

getBearerMode(map, iss) ==
  CASE iss = Own -> "admin"
    [] iss # Own /\ iss \in DOMAIN map -> map[iss].mode
    [] iss # Own /\ iss \notin DOMAIN map -> "login"

(* The service token stands for a token of the admin made on the spot.     *)
Presented(token) == IF token = ServiceToken THEN [token EXCEPT !.key = "admin"] ELSE token

(* The key an own token must be signed with: the admin's or its table's.   *)
SecretOf(token) == IF token.cid = "none" THEN "admin" ELSE token.cid

Audience(map, token) ==
  map[token.iss].clients = {} \/ map[token.iss].clients \cap token.aud # {}

Claims(token) ==
  [uid |-> TRUE, cid |-> token.cid, admin |-> token.admin, verified |-> token.verified,
   aud |-> token.aud, mail |-> TRUE]

Mail(verified) ==
  [uid |-> FALSE, cid |-> "none", admin |-> FALSE, verified |-> verified, aud |-> {}, mail |-> TRUE]

Rejected == [Mail(FALSE) EXCEPT !.mail = FALSE]

(* verifyGoogleToken: only the address is taken from the token.            *)
verifyGoogleToken(map, token) ==
  IF token.key = "google" /\ token.verified /\ Audience(map, token) THEN Mail(TRUE) ELSE Rejected

(* verifySupabaseToken: neither the audience nor email_verified is read.   *)
verifySupabaseToken(token) == IF token.key = "supabase" THEN Mail(TRUE) ELSE Rejected

(* verifyExternalToken: how much is believed depends on the mode.          *)
verifyExternalToken(map, token) ==
  CASE token.key # token.iss \/ ~Audience(map, token) -> Rejected
    [] token.key = token.iss /\ Audience(map, token) ->
         CASE map[token.iss].mode \in {"login", "partial"} -> Mail(token.verified)
           [] map[token.iss].mode = "full" -> [Claims(token) EXCEPT !.admin = FALSE]
           [] map[token.iss].mode = "admin" -> Claims(token)

decodeAuth(map, token) ==
  IF token.iss \notin DOMAIN map THEN Rejected
  ELSE CASE token.iss = "google" -> verifyGoogleToken(map, token)
         [] token.iss = "supabase" -> verifySupabaseToken(token)
         [] token.iss \notin {"google", "supabase", Own} -> verifyExternalToken(map, token)
         [] token.iss = Own -> IF token.key = SecretOf(token) THEN Claims(token) ELSE Rejected

-----------------------------------------------------------------------------
(* What a request without an identity has.                                 *)
Nobody == [uid |-> FALSE, cid |-> "none", email |-> FALSE, admin |-> FALSE,
           superadmin |-> FALSE, may |-> "rules"]

(* An admin without the editor's role only reads, one without any role     *)
(* does not even do that.                                                  *)
MayDo(aud) ==
  CASE aud \cap {"superadmin", "editor", "admin"} # {} -> "write"
    [] aud \cap {"superadmin", "editor", "admin"} = {} /\ "viewer" \in aud -> "read"
    [] OTHER -> "nothing"

Context(p) ==
  [uid |-> p.uid, cid |-> p.cid, email |-> p.mail /\ p.verified, admin |-> p.admin,
   superadmin |-> p.admin /\ "superadmin" \in p.aud,
   may |-> IF p.admin THEN MayDo(p.aud) ELSE "rules"]

(* Mutant: a user of a table may be an admin.                              *)
NobodysAdmin(p) == FALSE

(* A token of a table that claims to be an admin's is refused.             *)
TableAdmin(p) == p.cid # "none" /\ p.admin

initAuth(providers, token) ==
  LET map == issuerMap(providers)
      p == decodeAuth(map, token)
  IN CASE getBearerMode(map, token.iss) = "login" -> [status |-> 200, auth |-> Nobody]
       [] getBearerMode(map, token.iss) # "login" /\ token.cid \notin AuthTables \cup {"none"} ->
            [status |-> 400, auth |-> Nobody]
       [] OTHER ->
            CASE ~p.mail -> [status |-> 200, auth |-> Nobody]
              [] p.mail /\ TableAdmin(p) -> [status |-> 401, auth |-> Nobody]
              [] p.mail /\ ~TableAdmin(p) -> [status |-> 200, auth |-> Context(p)]

IdentityAnswer ==
  LET reply == initAuth(asked.providers, Presented(asked.token))
  IN [part |-> "identity", status |-> reply.status, auth |-> reply.auth]

-----------------------------------------------------------------------------
Listed(iss) == {i \in DOMAIN asked.providers : asked.providers[i].issuer = iss}

(* Whoever signed: the admin's key for an admin, the table's key for its   *)
(* users, and of the other issuers only what one of their providers says   *)
(* is to be believed (docs/config-reference.md, bearerMode).  An address   *)
(* counts only if the token says that it is verified; that a Supabase      *)
(* token need not say so is noted in a comment of verifySupabaseToken.      *)
IdentityIsProven ==
  Answered("identity") /\ answer.auth # Nobody =>
    LET t == Presented(asked.token)
        believed == {asked.providers[i].mode : i \in Listed(t.iss)}
    IN /\ answer.auth.email => t.verified \/ t.iss = "supabase"
       /\ t.iss = Own => /\ t.key = SecretOf(t)
                         /\ answer.auth.admin => t.key = "admin"
                         /\ answer.auth.cid = t.cid
       /\ t.iss # Own => /\ t.key = t.iss
                         /\ believed \ {"login"} # {}
                         /\ answer.auth.uid => believed \cap {"full", "admin"} # {}
                         /\ answer.auth.admin => t.admin /\ "admin" \in believed
=============================================================================
