--------------------------- MODULE Answers_proofs ---------------------------
(***************************************************************************)
(* Theorems about the parts that keep no state, asked anything: the runs   *)
(* ask them a bounded set of questions.                                    *)
(***************************************************************************)
EXTENDS Identity, ColumnLists, WellFoundedInduction, TLAPS

(***************************************************************************)
(* Every set of naturals has a least element.  Stated of a set, the        *)
(* minimal counterexample takes the place of induction.                    *)
(***************************************************************************)
LEMMA LeastNat ==
  ASSUME NEW S, S \subseteq Nat, S # {}
  PROVE  \E x \in S : \A y \in S : x <= y
<1>. DEFINE R == {p \in Nat \X Nat : p[1] < p[2]}
<1>1. IsWellFoundedOn(R, Nat)
  BY NatLessThanWellFounded, Zenon DEF OpToRel
<1>2. \E x \in S : \A y \in S : <<y, x>> \notin R
  <2>. HIDE DEF R
  <2>. QED
    BY <1>1, WFMin, Zenon
<1>3. \A x, y \in Nat : y < x => <<y, x>> \in R
  OBVIOUS
<1>. HIDE DEF R
<1>4. PICK x \in S : \A y \in S : <<y, x>> \notin R
  BY <1>2
<1>5. ASSUME NEW y \in S  PROVE x <= y
  <2>1. x \in Nat /\ y \in Nat
    OBVIOUS
  <2>2. ~ (y < x)
    BY <1>3, <1>4, <2>1, Zenon
  <2>. QED
    BY <2>1, <2>2
<1>. QED
  BY <1>5

-----------------------------------------------------------------------------
(***************************************************************************)
(* Identity: any list of providers, of any issuers, and any token.         *)
(***************************************************************************)
AnyProvider == [issuer : STRING, mode : Modes, clients : SUBSET STRING]

AnyToken == [iss : STRING, key : STRING \cup {"admin"}, cid : STRING, admin : BOOLEAN,
             verified : BOOLEAN, aud : SUBSET STRING]

AnyIdentityAsked == [part : {"identity"}, providers : Seq(AnyProvider), token : AnyToken]

IdentitySpec ==
  /\ asked \in AnyIdentityAsked /\ answer = NotYet
  /\ [][Serve("identity", IdentityAnswer)]_exchangeVars

(* The settings after the first n providers, and the way the constructor   *)
(* gets there.                                                             *)
Built(map, providers, n) ==
  map = [k \in 0 .. n |-> IF k = 0 THEN [i \in {Own} |-> [mode |-> "login", clients |-> {}]]
                          ELSE AddProvider(map[k - 1], providers[k])]

LEMMA CanBeBuilt ==
  ASSUME NEW providers, NEW n \in Nat
  PROVE  \E map : Built(map, providers, n)
<1>. DEFINE S == {k \in Nat : ~ \E map : Built(map, providers, k)}
<1>1. SUFFICES ASSUME S # {}  PROVE FALSE
  OBVIOUS
<1>2. PICK k \in S : \A j \in S : k <= j
  BY <1>1, LeastNat
<1>3. CASE k = 0
  <2>. DEFINE map == [m \in 0 .. 0 |-> [i \in {Own} |-> [mode |-> "login", clients |-> {}]]]
  <2>1. Built(map, providers, 0)
    BY DEF Built
  <2>. QED
    BY <1>2, <1>3, <2>1
<1>4. CASE k # 0
  <2>1. k \in Nat /\ k - 1 \in Nat /\ k - 1 \notin S
    BY <1>2, <1>4
  <2>2. PICK map : Built(map, providers, k - 1)
    BY <2>1
  <2>. DEFINE next == [m \in 0 .. k |-> IF m = k THEN AddProvider(map[k - 1], providers[k]) ELSE map[m]]
  <2>3. Built(next, providers, k)
    <3>1. ASSUME NEW m \in 0 .. k
          PROVE  next[m] = IF m = 0 THEN [i \in {Own} |-> [mode |-> "login", clients |-> {}]]
                           ELSE AddProvider(next[m - 1], providers[m])
      <4>1. CASE m = k
        BY <1>4, <2>1, <4>1
      <4>2. CASE m # k
        <5>1. m \in 0 .. (k - 1) /\ next[m] = map[m]
          BY <2>1, <4>2
        <5>2. map[m] = IF m = 0 THEN [i \in {Own} |-> [mode |-> "login", clients |-> {}]]
                       ELSE AddProvider(map[m - 1], providers[m])
          BY <2>2, <5>1 DEF Built
        <5>3. m # 0 => next[m - 1] = map[m - 1]
          BY <2>1, <4>2
        <5>. QED
          BY <5>1, <5>2, <5>3
      <4>. QED
        BY <4>1, <4>2
    <3>2. next = [m \in 0 .. k |-> next[m]]
      OBVIOUS
    <3>. HIDE DEF next
    <3>3. next = [m \in 0 .. k |-> IF m = 0 THEN [i \in {Own} |-> [mode |-> "login", clients |-> {}]]
                                   ELSE AddProvider(next[m - 1], providers[m])]
      BY <3>1, <3>2
    <3>. QED
      BY <3>3 DEF Built
  <2>. QED
    BY <1>2, <2>3
<1>. QED
  BY <1>3, <1>4

(* An entry of the settings has the mode of a provider that is listed.     *)
Setting == [mode : Modes, clients : SUBSET STRING]

Supported(map, providers, n) ==
  /\ Own \in DOMAIN map
  /\ \A i \in DOMAIN map :
       /\ map[i] \in Setting
       /\ i # Own => \E k \in 1 .. n : providers[k].issuer = i /\ map[i].mode = providers[k].mode

LEMMA AddSupported ==
  ASSUME NEW providers \in Seq(AnyProvider), NEW n \in Nat, n + 1 <= Len(providers),
         NEW map, Supported(map, providers, n)
  PROVE  Supported(AddProvider(map, providers[n + 1]), providers, n + 1)
<1>. DEFINE p == providers[n + 1]
            new == AddProvider(map, p)
<1>0. p \in AnyProvider
  OBVIOUS
<1>1. DOMAIN new = DOMAIN map \cup {p.issuer}
  BY DEF AddProvider
<1>2. ASSUME NEW i \in DOMAIN new
      PROVE  /\ new[i] \in Setting
             /\ i # Own => \E k \in 1 .. (n + 1) :
                             providers[k].issuer = i /\ new[i].mode = providers[k].mode
  <2>1. CASE i \in DOMAIN map /\ new[i] \in Setting /\ new[i].mode = map[i].mode
    <3>1. CASE i # Own
      <4>1. PICK k \in 1 .. n : providers[k].issuer = i /\ map[i].mode = providers[k].mode
        BY <2>1, <3>1 DEF Supported
      <4>. QED
        BY <2>1, <4>1
    <3>. QED
      BY <2>1, <3>1
  <2>2. CASE i = p.issuer /\ new[i] = [mode |-> p.mode, clients |-> p.clients]
    BY <1>0, <2>2 DEF AnyProvider, Setting
  <2>3. \/ i \in DOMAIN map /\ new[i] = map[i]
        \/ i \in DOMAIN map /\ new[i] = [map[i] EXCEPT !.clients = @ \cup p.clients]
        \/ i = p.issuer /\ new[i] = [mode |-> p.mode, clients |-> p.clients]
    BY <1>1, <1>2 DEF AddProvider
  <2>4. i \in DOMAIN map => map[i] \in Setting
    BY DEF Supported
  <2>5. i \in DOMAIN map /\ new[i] = [map[i] EXCEPT !.clients = @ \cup p.clients]
        => new[i] \in Setting /\ new[i].mode = map[i].mode
    BY <1>0, <2>4 DEF AnyProvider, Setting
  <2>. QED
    BY <2>1, <2>2, <2>3, <2>4, <2>5
<1>. HIDE DEF new
<1>3. Own \in DOMAIN new
  BY <1>1 DEF Supported
<1>4. Supported(new, providers, n + 1)
  BY <1>2, <1>3 DEF Supported
<1>. QED
  BY <1>4 DEF new

(* However many providers are listed.                                      *)
LEMMA BuiltSupported ==
  ASSUME NEW providers \in Seq(AnyProvider), NEW map, Built(map, providers, Len(providers))
  PROVE  \A n \in 0 .. Len(providers) : Supported(map[n], providers, n)
<1>. DEFINE S == {n \in 0 .. Len(providers) : ~ Supported(map[n], providers, n)}
<1>0. Len(providers) \in Nat
  OBVIOUS
<1>1. SUFFICES ASSUME S # {}  PROVE FALSE
  OBVIOUS
<1>2. PICK n \in S : \A j \in S : n <= j
  <2>1. S \subseteq Nat
    BY <1>0
  <2>. HIDE DEF S
  <2>. QED
    BY <1>1, <2>1, LeastNat
<1>3. CASE n = 0
  <2>1. map[0] = [i \in {Own} |-> [mode |-> "login", clients |-> {}]]
    BY <1>0 DEF Built
  <2>2. Supported(map[0], providers, 0)
    BY <2>1 DEF Supported, Setting, Modes
  <2>. QED
    BY <1>2, <1>3, <2>2
<1>4. CASE n # 0
  <2>1. n \in 1 .. Len(providers) /\ n - 1 \in Nat /\ n - 1 \in 0 .. Len(providers)
    BY <1>0, <1>2, <1>4
  <2>2. Supported(map[n - 1], providers, n - 1)
    BY <1>2, <2>1
  <2>3. map[n] = AddProvider(map[n - 1], providers[n])
    BY <1>0, <1>4, <2>1 DEF Built
  <2>. DEFINE m == n - 1
  <2>4. m \in Nat /\ m + 1 <= Len(providers) /\ m + 1 = n /\ Supported(map[m], providers, m)
    BY <1>0, <2>1, <2>2
  <2>. HIDE DEF m
  <2>5. Supported(AddProvider(map[m], providers[m + 1]), providers, m + 1)
    BY <2>4, AddSupported
  <2>6. Supported(map[n], providers, n)
    BY <2>3, <2>4, <2>5 DEF m
  <2>. QED
    BY <1>2, <2>6
<1>. QED
  BY <1>3, <1>4

LEMMA IssuersSupported ==
  ASSUME NEW providers \in Seq(AnyProvider)
  PROVE  Supported(issuerMap(providers), providers, Len(providers))
<1>. DEFINE Step(map, k) == IF k = 0 THEN [i \in {Own} |-> [mode |-> "login", clients |-> {}]]
                            ELSE AddProvider(map[k - 1], providers[k])
            map == CHOOSE map : map = [k \in 0 .. Len(providers) |-> Step(map, k)]
<1>1. Len(providers) \in Nat
  OBVIOUS
<1>2. \E other : other = [k \in 0 .. Len(providers) |-> Step(other, k)]
  BY <1>1, CanBeBuilt DEF Built
<1>3. map = [k \in 0 .. Len(providers) |-> Step(map, k)]
  BY <1>2
<1>4. Built(map, providers, Len(providers))
  BY <1>3 DEF Built
<1>5. issuerMap(providers) = map[Len(providers)]
  BY DEF issuerMap
<1>. HIDE DEF map
<1>. QED
  BY <1>1, <1>4, <1>5, BuiltSupported
(* What is taken from a token was signed, and is what the settings believe *)
(* of its issuer.                                                          *)
Payload == [uid : BOOLEAN, cid : STRING \cup {"none"}, admin : BOOLEAN, verified : BOOLEAN,
            aud : SUBSET STRING, mail : BOOLEAN]

LEMMA Decoded ==
  ASSUME NEW map, NEW token \in AnyToken,
         \A i \in DOMAIN map : map[i] \in Setting,
         NEW p, p = decodeAuth(map, token), p.mail
  PROVE  /\ p \in Payload
         /\ token.iss \in DOMAIN map
         /\ p.verified => token.verified \/ token.iss = "supabase"
         /\ token.iss = Own => token.key = SecretOf(token) /\ p = Claims(token)
         /\ token.iss # Own => /\ token.key = token.iss
                               /\ p.uid => map[token.iss].mode \in {"full", "admin"}
                               /\ p.admin => map[token.iss].mode = "admin" /\ token.admin
<1>. USE DEF Mail, Claims, Rejected, Own
<1>1. /\ Rejected.mail = FALSE
      /\ Claims(token) \in Payload /\ Mail(token.verified) \in Payload /\ Mail(TRUE) \in Payload
      /\ Claims(token).verified = token.verified /\ Claims(token).admin = token.admin
      /\ \A v \in BOOLEAN : Mail(v).verified = v /\ Mail(v).uid = FALSE /\ Mail(v).admin = FALSE
  <2>1. Rejected.mail = FALSE
    OBVIOUS
  <2>2. token.admin \in BOOLEAN /\ token.verified \in BOOLEAN /\ token.cid \in STRING
        /\ token.aud \in SUBSET STRING
    BY DEF AnyToken
  <2>3. Claims(token) \in Payload
    BY <2>2 DEF Payload
  <2>4. \A v \in BOOLEAN : Mail(v) \in Payload
    BY DEF Payload
  <2>5. Claims(token).verified = token.verified /\ Claims(token).admin = token.admin
    OBVIOUS
  <2>6. \A v \in BOOLEAN : Mail(v).verified = v /\ Mail(v).uid = FALSE /\ Mail(v).admin = FALSE
    OBVIOUS
  <2>. QED
    BY <2>1, <2>2, <2>3, <2>4, <2>5, <2>6
<1>2. token.iss \in DOMAIN map
  BY DEF decodeAuth
<1>3. map[token.iss].mode \in Modes
  BY <1>2 DEF Setting
<1>4. CASE token.iss = "google"
  <2>1. p = verifyGoogleToken(map, token)
    BY <1>2, <1>4 DEF decodeAuth
  <2>2. p = Mail(TRUE) /\ token.key = "google" /\ token.verified
    BY <2>1 DEF verifyGoogleToken
  <2>. QED
    BY <1>1, <1>2, <1>4, <2>2
<1>5. CASE token.iss = "supabase"
  <2>1. p = verifySupabaseToken(token)
    BY <1>2, <1>5 DEF decodeAuth
  <2>2. p = Mail(TRUE) /\ token.key = "supabase"
    BY <2>1 DEF verifySupabaseToken
  <2>. QED
    BY <1>1, <1>2, <1>5, <2>2
<1>6. CASE token.iss = Own
  <2>1. token.key = SecretOf(token) /\ p = Claims(token)
    BY <1>2, <1>6 DEF decodeAuth
  <2>. QED
    BY <1>1, <1>2, <1>6, <2>1
<1>7. CASE token.iss \notin {"google", "supabase", Own}
  <2>1. p = verifyExternalToken(map, token)
    BY <1>2, <1>7 DEF decodeAuth
  <2>2. token.key = token.iss /\ Audience(map, token)
    BY <2>1 DEF verifyExternalToken
  <2>3. CASE map[token.iss].mode \in {"login", "partial"}
    <3>1. p = Mail(token.verified)
      BY <2>1, <2>2, <2>3 DEF verifyExternalToken
    <3>. QED
      BY <1>1, <1>2, <1>7, <2>2, <3>1 DEF AnyToken
  <2>4. CASE map[token.iss].mode = "full"
    <3>1. p = [Claims(token) EXCEPT !.admin = FALSE]
      BY <2>1, <2>2, <2>4 DEF verifyExternalToken
    <3>2. p \in Payload /\ ~p.admin /\ p.verified = token.verified
      BY <1>1, <3>1 DEF Payload
    <3>. QED
      BY <1>2, <1>7, <2>2, <2>4, <3>2
  <2>5. CASE map[token.iss].mode = "admin"
    <3>1. p = Claims(token)
      BY <2>1, <2>2, <2>5 DEF verifyExternalToken
    <3>. QED
      BY <1>1, <1>2, <1>7, <2>2, <2>5, <3>1
  <2>. QED
    BY <1>3, <2>3, <2>4, <2>5 DEF Modes
<1>. QED
  BY <1>4, <1>5, <1>6, <1>7

(* Who has an identity presented a token that was believed.                *)
LEMMA Identified ==
  ASSUME NEW providers, NEW token, initAuth(providers, token).auth # Nobody
  PROVE  LET map == issuerMap(providers)
             p == decodeAuth(map, token)
         IN /\ getBearerMode(map, token.iss) # "login"
            /\ p.mail /\ ~TableAdmin(p)
            /\ initAuth(providers, token).auth = Context(p)
<1>. DEFINE map == issuerMap(providers)
            p == decodeAuth(map, token)
<1>. HIDE DEF map
<1>1. initAuth(providers, token) =
        CASE getBearerMode(map, token.iss) = "login" -> [status |-> 200, auth |-> Nobody]
          [] getBearerMode(map, token.iss) # "login" /\ token.cid \notin AuthTables \cup {"none"} ->
               [status |-> 400, auth |-> Nobody]
          [] OTHER ->
               CASE ~p.mail -> [status |-> 200, auth |-> Nobody]
                 [] p.mail /\ TableAdmin(p) -> [status |-> 401, auth |-> Nobody]
                 [] p.mail /\ ~TableAdmin(p) -> [status |-> 200, auth |-> Context(p)]
  BY DEF initAuth, map
<1>. QED
  BY <1>1 DEF map

LEMMA AnswerIsProven ==
  ASSUME asked \in AnyIdentityAsked, answer = IdentityAnswer
  PROVE  IdentityIsProven
<1>. DEFINE t == Presented(asked.token)
            map == issuerMap(asked.providers)
            p == decodeAuth(map, t)
            believed == {asked.providers[i].mode : i \in Listed(t.iss)}
<1>1. t \in AnyToken /\ asked.providers \in Seq(AnyProvider)
  <2>1. asked.token \in AnyToken /\ asked.providers \in Seq(AnyProvider)
    BY DEF AnyIdentityAsked
  <2>2. \A token \in AnyToken : [token EXCEPT !.key = "admin"] \in AnyToken
    BY DEF AnyToken
  <2>. QED
    BY <2>1, <2>2 DEF Presented
<1>2. Supported(map, asked.providers, Len(asked.providers))
  BY <1>1, IssuersSupported
<1>3. answer.auth = initAuth(asked.providers, t).auth
  BY DEF IdentityAnswer
<1>4. SUFFICES ASSUME answer.auth # Nobody
               PROVE  /\ answer.auth.email => t.verified \/ t.iss = "supabase"
                      /\ t.iss = Own => /\ t.key = SecretOf(t)
                                        /\ answer.auth.admin => t.key = "admin"
                                        /\ answer.auth.cid = t.cid
                      /\ t.iss # Own => /\ t.key = t.iss
                                        /\ believed \ {"login"} # {}
                                        /\ answer.auth.uid => believed \cap {"full", "admin"} # {}
                                        /\ answer.auth.admin => t.admin /\ "admin" \in believed
  BY DEF IdentityIsProven
<1>5. /\ getBearerMode(map, t.iss) # "login" /\ p.mail /\ ~TableAdmin(p)
      /\ answer.auth = Context(p)
  BY <1>3, <1>4, Identified
<1>. HIDE DEF t, map
<1>6. \A i \in DOMAIN map : map[i] \in Setting
  BY <1>2 DEF Supported
<1>7. /\ p \in Payload
      /\ t.iss \in DOMAIN map
      /\ p.verified => t.verified \/ t.iss = "supabase"
      /\ t.iss = Own => t.key = SecretOf(t) /\ p = Claims(t)
      /\ t.iss # Own => /\ t.key = t.iss
                        /\ p.uid => map[t.iss].mode \in {"full", "admin"}
                        /\ p.admin => map[t.iss].mode = "admin" /\ t.admin
  BY <1>1, <1>5, <1>6, Decoded
<1>. HIDE DEF p
<1>8. /\ answer.auth.email => p.verified
      /\ answer.auth.admin = p.admin /\ answer.auth.uid = p.uid /\ answer.auth.cid = p.cid
  <2>1. p.uid \in BOOLEAN /\ p.admin \in BOOLEAN /\ p.mail \in BOOLEAN /\ p.verified \in BOOLEAN
    BY <1>7 DEF Payload
  <2>2. /\ answer.auth.email = (p.mail /\ p.verified)
        /\ answer.auth.admin = p.admin /\ answer.auth.uid = p.uid /\ answer.auth.cid = p.cid
    BY <1>5 DEF Context
  <2>. QED
    BY <2>1, <2>2
<1>9. t.iss = Own => /\ answer.auth.admin => t.key = "admin"
                     /\ answer.auth.cid = t.cid
  BY <1>5, <1>7, <1>8 DEF TableAdmin, SecretOf, Claims
<1>10. t.iss # Own => map[t.iss].mode \in believed /\ map[t.iss].mode # "login"
  <2>1. SUFFICES ASSUME t.iss # Own
                 PROVE  map[t.iss].mode \in believed /\ map[t.iss].mode # "login"
    OBVIOUS
  <2>2. PICK k \in 1 .. Len(asked.providers) :
               asked.providers[k].issuer = t.iss /\ map[t.iss].mode = asked.providers[k].mode
    BY <1>2, <1>7, <2>1 DEF Supported
  <2>3. k \in Listed(t.iss)
    BY <1>1, <2>2 DEF Listed
  <2>4. map[t.iss].mode # "login"
    BY <1>5, <1>7, <2>1 DEF getBearerMode
  <2>. QED
    BY <2>2, <2>3, <2>4
<1>. HIDE DEF believed
<1>. QED
  BY <1>7, <1>8, <1>9, <1>10

(* Whatever providers are listed and whatever token is presented, a        *)
(* request has the identity that was signed, and no more of it than the    *)
(* settings believe of its issuer.                                         *)
THEOREM IdentitiesProven == IdentitySpec => []IdentityIsProven
<1>. DEFINE Inv == asked \in AnyIdentityAsked /\ (answer = NotYet \/ answer = IdentityAnswer)
<1>1. asked \in AnyIdentityAsked /\ answer = NotYet => Inv
  OBVIOUS
<1>2. Inv /\ [Serve("identity", IdentityAnswer)]_exchangeVars => Inv'
  <2>1. Serve("identity", IdentityAnswer) => asked' = asked /\ answer' = IdentityAnswer
    BY DEF Serve
  <2>2. asked' = asked => IdentityAnswer' = IdentityAnswer
    BY DEF IdentityAnswer
  <2>. QED
    BY <2>1, <2>2 DEF exchangeVars
<1>3. Inv => IdentityIsProven
  BY AnswerIsProven DEF IdentityIsProven, Answered
<1>. QED
  BY <1>1, <1>2, <1>3, PTL DEF IdentitySpec
-----------------------------------------------------------------------------
(***************************************************************************)
(* ColumnLists: lists of any length, of any entries, on any table rules.   *)
(***************************************************************************)
Leaf ==
  {Star, Count, Literal} \cup [i : {"name", "lower"}, c : STRING]
  \cup [i : {"of"}, t : STRING, c : STRING] \cup [i : {"match"}, of : STRING]

Nested == Leaf \cup [i : {"expand"}, of : STRING, args : Seq(Leaf)]
Argument == Nested \cup [i : {"as"}, x : Nested, as : STRING]
Unnamed == Leaf \cup [i : {"expand"}, of : STRING, args : Seq(Argument)]
AnyEntry == Unnamed \cup [i : {"as"}, x : Unnamed, as : STRING]

AnyReading(op, Item) ==
  [part : {"columns"}, op : {op}, admin : BOOLEAN, wildcard : BOOLEAN,
   hidden : SUBSET (STRING \X STRING), fts : SUBSET STRING,
   list : Seq(Item), order : Seq(Leaf), where : Seq(Leaf)]

ColumnName == STRING \cup {"id"}

AnyWriting ==
  [part : {"columns"}, op : Inserts \cup {"update", "edit"}, skip : BOOLEAN, autoSetUid : BOOLEAN,
   noInsert : SUBSET STRING, noUpdate : SUBSET STRING, rows : Seq(SUBSET ColumnName) \ {<<>>}]

AnyColumnsAsked ==
  AnyReading("select", AnyEntry) \cup AnyReading("returning", AnyEntry)
  \cup AnyReading("action", {Star} \cup [i : {"name"}, c : STRING]) \cup AnyWriting

ColumnsSpec ==
  /\ asked \in AnyColumnsAsked /\ answer = NotYet
  /\ [][Serve("columns", ColumnsAnswer)]_exchangeVars

-----------------------------------------------------------------------------
Kinds == {"name", "of", "lower", "count", "literal", "expand", "*", "match", "as"}

LEMMA EntryKinds ==
  /\ \A x \in Leaf : x.i \in Kinds
  /\ \A x \in Argument : Bare(x).i \in Kinds
  /\ \A x \in AnyEntry :
       /\ Bare(x).i \in Kinds
       /\ Bare(x).i = "expand" => Bare(x).args \in Seq(Argument)
<1>1. \A x \in Leaf : x.i \in Kinds \ {"as", "expand"}
  BY DEF Leaf, Kinds, Star, Count, Literal
<1>2. \A x \in Nested : x.i \in Kinds \ {"as"}
  BY <1>1 DEF Nested, Kinds
<1>3. \A x \in Argument : Bare(x).i \in Kinds
  BY <1>2 DEF Argument, Bare
<1>4. \A x \in Unnamed : x.i \in Kinds \ {"as"} /\ (x.i = "expand" => x.args \in Seq(Argument))
  BY <1>1 DEF Unnamed, Kinds
<1>5. \A x \in AnyEntry :
        /\ Bare(x).i \in Kinds
        /\ Bare(x).i = "expand" => Bare(x).args \in Seq(Argument)
  BY <1>4 DEF AnyEntry, Bare
<1>. QED
  BY <1>1, <1>3, <1>5

(* What a caller who is no admin is shown is not hidden.                   *)
Clean(a, p) == p.shown \cap a.hidden = {}

LEMMA SelectedFields ==
  /\ \A shown, alias : Selected(shown, alias).shown = shown
  /\ Bad.shown = {}
BY DEF Selected, Bad

LEMMA IdentClean ==
  ASSUME NEW a, ~a.admin, NEW table, NEW c
  PROVE  Clean(a, ident(a, table, c))
BY SelectedFields DEF Clean, ident, Visible

LEMMA EntryClean ==
  ASSUME NEW a, ~a.admin, NEW table, NEW x, x.i \in Kinds
  PROVE  Clean(a, EntryToSql(a, table, x))
<1>. DEFINE p == ident(a, table, x.c)
<1>1. Clean(a, p) /\ Clean(a, Bad) /\ Clean(a, Selected({}, <<"count">>))
      /\ Clean(a, Selected(p.shown, <<"lower", p.alias>>))
  BY IdentClean, SelectedFields DEF Clean
<1>2. EntryToSql(a, table, x) \in {p, Bad, Selected({}, <<"count">>), Selected(p.shown, <<"lower", p.alias>>)}
  BY DEF EntryToSql, Kinds
<1>. QED
  BY <1>1, <1>2

LEMMA RenamedClean ==
  ASSUME NEW a, NEW x, NEW p, Clean(a, p)
  PROVE  Clean(a, Renamed(x, p))
BY SelectedFields DEF Clean, Renamed

LEMMA ExpansionClean ==
  ASSUME NEW a, ~a.admin, NEW x, x.args \in Seq(Argument)
  PROVE  Clean(a, Expansion(a, x))
<1>. DEFINE by == {c \in Visible(a, "t") \cap DOMAIN foreignKey :
                     IF x.of \in DOMAIN ColumnsOf THEN foreignKey[c][1] = x.of ELSE c = x.of}
            table == foreignKey[CHOOSE c \in by : TRUE][1]
            cols == IF x.args = <<>> THEN [c \in Visible(a, table) |-> ident(a, table, c)]
                    ELSE [i \in DOMAIN x.args |-> Entry(a, table, x.args[i])]
<1>1. Expansion(a, x) \in {Bad, Selected(Shown(Range(cols)), <<"as", x.of>>)}
  BY DEF Expansion
<1>2. ASSUME NEW p \in Range(cols)  PROVE Clean(a, p)
  <2>1. CASE x.args = <<>>
    BY <1>2, <2>1, IdentClean DEF Range
  <2>2. CASE x.args # <<>>
    <3>1. PICK i \in DOMAIN x.args : p = Entry(a, table, x.args[i])
      BY <1>2, <2>2 DEF Range
    <3>2. Bare(x.args[i]).i \in Kinds
      BY <3>1, EntryKinds
    <3>. QED
      BY <3>1, <3>2, EntryClean, RenamedClean DEF Entry
  <2>. QED
    BY <2>1, <2>2
<1>. HIDE DEF cols
<1>3. Clean(a, Selected(Shown(Range(cols)), <<"as", x.of>>))
  BY <1>2, SelectedFields DEF Clean, Shown
<1>4. Clean(a, Bad)
  BY SelectedFields DEF Clean
<1>. QED
  BY <1>1, <1>3, <1>4
LEMMA ListClean ==
  ASSUME NEW a, ~a.admin, NEW list \in Seq(AnyEntry), NEW allowExpand \in BOOLEAN
  PROVE  \A p \in Range(parseColumnList(a, list, allowExpand)) : Clean(a, p)
<1>. SUFFICES ASSUME NEW p \in Range(parseColumnList(a, list, allowExpand))
              PROVE  Clean(a, p)
  OBVIOUS
<1>1. PICK i \in DOMAIN list :
             p = IF allowExpand /\ Bare(list[i]).i = "expand"
                 THEN Renamed(list[i], Expansion(a, Bare(list[i]))) ELSE Entry(a, "t", list[i])
  BY DEF Range, parseColumnList
<1>2. /\ Bare(list[i]).i \in Kinds
      /\ Bare(list[i]).i = "expand" => Bare(list[i]).args \in Seq(Argument)
  BY EntryKinds
<1>3. CASE allowExpand /\ Bare(list[i]).i = "expand"
  BY <1>1, <1>2, <1>3, ExpansionClean, RenamedClean
<1>4. CASE ~(allowExpand /\ Bare(list[i]).i = "expand")
  BY <1>1, <1>2, <1>4, EntryClean, RenamedClean DEF Entry
<1>. QED
  BY <1>3, <1>4

(* Only * that the table lets through shows what is hidden.                *)
LEMMA WildcardClean ==
  ASSUME NEW a, ~a.admin, a.wildcard \in BOOLEAN, NEW list \in Seq(AnyEntry), NEW cols,
         \A p \in Range(cols) : Clean(a, p),
         ~(a.wildcard /\ Star \in ToSet(list))
  PROVE  \A p \in checkColsWildcard(a, list, cols) : Clean(a, p)
<1>1. \A p \in Expanded(a) : ~a.wildcard => Clean(a, p)
  <2>1. SUFFICES ASSUME ~a.wildcard, NEW p \in Expanded(a)  PROVE Clean(a, p)
    OBVIOUS
  <2>2. PICK c \in Visible(a, "t") : p = Selected({<<"t", c>>}, <<"field", c>>)
    BY <2>1 DEF Expanded
  <2>3. <<"t", c>> \notin a.hidden
    BY DEF Visible
  <2>. QED
    BY <2>2, <2>3, SelectedFields DEF Clean
<1>2. Clean(a, Bad)
  BY SelectedFields DEF Clean
<1>. QED
  BY <1>1, <1>2 DEF checkColsWildcard

LEMMA FilterClean ==
  ASSUME NEW a, ~a.admin, NEW x \in Leaf
  PROVE  \/ Clean(a, FilterColumn(a, x))
         \/ x = Match("t") /\ FilterColumn(a, x).shown = {"t"} \X a.fts
<1>1. CASE x.i # "match"
  <2>1. FilterColumn(a, x) = EntryToSql(a, "t", x)
    BY <1>1 DEF FilterColumn, Match
  <2>. QED
    BY <2>1, EntryKinds, EntryClean
<1>2. CASE x.i = "match"
  <2>1. x \in [i : {"match"}, of : STRING]
    BY <1>2 DEF Leaf, Star, Count, Literal
  <2>2. CASE x.of = "t"
    <3>1. x = Match("t")
      BY <2>1, <2>2 DEF Match
    <3>2. FilterColumn(a, x) \in {Bad, Selected({"t"} \X a.fts, <<"match">>)}
      BY <1>2, <3>1 DEF FilterColumn, Match
    <3>. QED
      BY <3>1, <3>2, SelectedFields DEF Clean
  <2>3. CASE x.of # "t"
    <3>1. x # Match("t")
      BY <2>3 DEF Match
    <3>2. FilterColumn(a, x) \in {Bad, ident(a, "t", x.of)}
      BY <1>2, <2>3, <3>1 DEF FilterColumn
    <3>. QED
      BY <3>2, IdentClean, SelectedFields DEF Clean
  <2>. QED
    BY <2>2, <2>3
<1>. QED
  BY <1>1, <1>2

LEMMA SelectKeepsHidden ==
  ASSUME NEW a \in AnyReading("select", AnyEntry), ~a.admin, NEW reply, reply = SelectColumns(a),
         NEW c \in (reply.shown \cup reply.used) \cap a.hidden
  PROVE  \/ a.wildcard /\ (Star \in ToSet(a.list) \/ a.list = <<>>)
         \/ Whole("t") \subseteq a.hidden
         \/ Match("t") \in ToSet(a.where) /\ c \notin reply.shown /\ c[2] \in a.fts
<1>. DEFINE list == IF a.list = <<>> THEN <<Star>> ELSE a.list
            asks == parseColumnList(a, list, TRUE)
            cols == checkColsWildcard(a, list, asks)
            used == parseColumnListOrder(a, a.order) \cup {FilterColumn(a, x) : x \in ToSet(a.where)}
<1>0. /\ a.wildcard \in BOOLEAN /\ a.admin \in BOOLEAN /\ a.hidden \subseteq STRING \X STRING
      /\ a.list \in Seq(AnyEntry) /\ a.order \in Seq(Leaf) /\ a.where \in Seq(Leaf)
  BY DEF AnyReading
<1>1. /\ list \in Seq(AnyEntry)
      /\ Star \in ToSet(list) => Star \in ToSet(a.list) \/ a.list = <<>>
      /\ list # <<>>
  <2>1. Star \in AnyEntry
    BY DEF AnyEntry, Unnamed, Leaf
  <2>. QED
    BY <1>0, <2>1 DEF ToSet
<1>2. SUFFICES ASSUME ~(a.wildcard /\ Star \in ToSet(list)), ~(Whole("t") \subseteq a.hidden)
               PROVE  Match("t") \in ToSet(a.where) /\ c \notin reply.shown /\ c[2] \in a.fts
  BY <1>1
<1>3. /\ reply.shown \subseteq (IF cols = {} THEN Whole("t") ELSE Shown(cols))
      /\ reply.used \subseteq Shown(used)
  BY DEF SelectColumns, ReadAnswer
<1>4. \A p \in cols : Clean(a, p)
  <2>. HIDE DEF list
  <2>1. \A p \in Range(asks) : Clean(a, p)
    BY <1>1, ListClean
  <2>. HIDE DEF asks
  <2>. QED
    BY <1>0, <1>1, <1>2, <2>1, WildcardClean
<1>5. cols # {}
  <2>1. SUFFICES ASSUME cols = {}  PROVE FALSE
    OBVIOUS
  <2>2. Range(asks) = {} /\ (Star \in ToSet(list) => Expanded(a) = {})
    BY <2>1 DEF checkColsWildcard
  <2>3. DOMAIN asks = {}
    BY <2>2 DEF Range
  <2>4. DOMAIN asks = {k \in DOMAIN list : list[k] # Star}
    BY DEF parseColumnList
  <2>. HIDE DEF list, asks
  <2>5. 1 \in DOMAIN list
    BY <1>1
  <2>6. list[1] = Star
    BY <2>3, <2>4, <2>5
  <2>7. Star \in ToSet(list)
    BY <2>5, <2>6 DEF ToSet
  <2>8. Visible(a, "t") = {}
    <3>1. ~a.wildcard /\ Expanded(a) = {}
      BY <1>2, <2>2, <2>7
    <3>2. \A d \in Visible(a, "t") : Selected({<<"t", d>>}, <<"field", d>>) \in Expanded(a)
      BY <3>1 DEF Expanded
    <3>. QED
      BY <3>1, <3>2
  <2>. QED
    BY <1>2, <2>8 DEF Visible, Whole
<1>. HIDE DEF cols
<1>6. c \notin reply.shown
  BY <1>3, <1>4, <1>5 DEF Shown, Clean
<1>7. PICK p \in used : c \in p.shown
  BY <1>3, <1>6 DEF Shown
<1>8. ~Clean(a, p)
  BY <1>7 DEF Clean
<1>9. p \notin parseColumnListOrder(a, a.order)
  BY <1>8, IdentClean, SelectedFields DEF parseColumnListOrder, Clean
<1>10. PICK x \in ToSet(a.where) : p = FilterColumn(a, x)
  BY <1>7, <1>9
<1>11. x \in Leaf
  BY <1>0, <1>10 DEF ToSet
<1>12. x = Match("t") /\ p.shown = {"t"} \X a.fts
  BY <1>8, <1>10, <1>11, FilterClean
<1>. QED
  BY <1>6, <1>7, <1>10, <1>12

LEMMA ReturningKeepsHidden ==
  ASSUME NEW a \in AnyReading("returning", AnyEntry), ~a.admin,
         NEW reply, reply = ReturningColumns(a),
         NEW c \in (reply.shown \cup reply.used) \cap a.hidden
  PROVE  a.wildcard /\ Star \in ToSet(a.list)
<1>. DEFINE asks == parseColumnList(a, a.list, FALSE)
            cols == checkColsWildcard(a, a.list, asks)
<1>0. a.wildcard \in BOOLEAN /\ a.list \in Seq(AnyEntry)
  BY DEF AnyReading
<1>1. reply.shown \subseteq Shown(cols) /\ reply.used = {}
  BY DEF ReturningColumns, ReadAnswer
<1>2. SUFFICES ASSUME ~(a.wildcard /\ Star \in ToSet(a.list))  PROVE FALSE
  OBVIOUS
<1>3. \A p \in cols : Clean(a, p)
  <2>1. \A p \in Range(asks) : Clean(a, p)
    BY <1>0, ListClean
  <2>. HIDE DEF asks
  <2>. QED
    BY <1>0, <1>2, <2>1, WildcardClean
<1>. HIDE DEF cols
<1>. QED
  BY <1>1, <1>3 DEF Shown, Clean

LEMMA ActionKeepsHidden ==
  ASSUME NEW a \in AnyReading("action", {Star} \cup [i : {"name"}, c : STRING]), ~a.admin,
         NEW reply, reply = ActionColumns(a),
         NEW c \in (reply.shown \cup reply.used) \cap a.hidden
  PROVE  Name(c[2]) \in ToSet(a.list)
<1>1. PICK x \in ToSet(a.list) :
             c \in (IF x = Star THEN {"t"} \X Visible(a, "t") ELSE {<<"t", x.c>>})
  BY DEF ActionColumns, ReadAnswer
<1>2. x # Star
  BY <1>1 DEF Visible
<1>3. x \in [i : {"name"}, c : STRING]
  BY <1>1, <1>2 DEF AnyReading, ToSet
<1>4. x = Name(x.c) /\ c[2] = x.c
  BY <1>1, <1>2, <1>3 DEF Name
<1>. QED
  BY <1>1, <1>4
-----------------------------------------------------------------------------
LEMMA WriteFields ==
  ASSUME NEW status, NEW written, WriteAnswer(status, written).ok
  PROVE  status = 200 /\ WriteAnswer(status, written).written = written
BY DEF WriteAnswer

(* In one batch all rows have the columns of the first, which was checked. *)
LEMMA InsertKeepsClosed ==
  ASSUME NEW a \in AnyWriting, NEW given \in Seq(SUBSET ColumnName) \ {<<>>}, Len(given) <= batchSize,
         ~a.skip, NEW reply, reply = InsertColumns(a, given), reply.ok
  PROVE  reply.written \cap a.noInsert \subseteq (IF a.autoSetUid THEN {"id"} ELSE {})
<1>. DEFINE rows == [i \in DOMAIN given |-> IF a.autoSetUid THEN given[i] \cup {"id"} ELSE given[i]]
            status == IF ~a.skip /\ given[1] \cap a.noInsert # {} THEN 403
                      ELSE IF ~(rows[1] \subseteq ColumnsOf["t"]) THEN 400
                      ELSE IF ~SameKeys(rows) THEN 500
                      ELSE IF \E i \in DOMAIN rows : ~(rows[i] \subseteq ColumnsOf["t"]) THEN 400 ELSE 200
<1>0. /\ Len(given) \in Nat \ {0} /\ DOMAIN given = 1 .. Len(given)
      /\ a.autoSetUid \in BOOLEAN
  BY DEF AnyWriting
<1>1. reply = WriteAnswer(status, UNION ToSet(given))
  BY DEF InsertColumns
<1>2. status = 200 /\ reply.written = UNION ToSet(given)
  <2>. HIDE DEF status
  <2>. QED
    BY <1>1, WriteFields
<1>3. given[1] \cap a.noInsert = {} /\ SameKeys(rows)
  BY <1>2
<1>4. ASSUME NEW i \in DOMAIN given  PROVE given[i] \subseteq given[1] \cup (IF a.autoSetUid THEN {"id"} ELSE {})
  <2>1. i \in 1 .. 5 /\ 1 \in DOMAIN given
    BY <1>0 DEF batchSize
  <2>2. BatchOf(i) = 0 /\ BatchOf(1) = 0
    BY <2>1 DEF BatchOf, batchSize
  <2>3. rows[i] = rows[1]
    BY <1>3, <2>1, <2>2 DEF SameKeys
  <2>. QED
    BY <2>1, <2>3
<1>5. \A c \in reply.written : \E i \in DOMAIN given : c \in given[i]
  BY <1>2 DEF ToSet
<1>. QED
  BY <1>3, <1>4, <1>5

LEMMA UpdateKeepsClosed ==
  ASSUME NEW a, ~a.skip, NEW reply, reply = UpdateColumns(a), reply.ok
  PROVE  reply.written \cap a.noUpdate = {}
<1>. DEFINE set == a.rows[1]
            status == IF set = {} THEN 400
                      ELSE IF ~a.skip /\ set \cap a.noUpdate # {} THEN 403
                      ELSE IF ~(set \subseteq ColumnsOf["t"]) THEN 400 ELSE 200
<1>1. reply = WriteAnswer(status, set)
  BY DEF UpdateColumns
<1>2. status = 200 /\ reply.written = set
  <2>. HIDE DEF status
  <2>. QED
    BY <1>1, WriteFields
<1>3. set \cap a.noUpdate = {}
  BY <1>2
<1>. QED
  BY <1>2, <1>3

-----------------------------------------------------------------------------
LEMMA AnswerHides ==
  ASSUME asked \in AnyColumnsAsked, answer = ColumnsAnswer
  PROVE  HiddenStaysHidden
<1>1. SUFFICES ASSUME asked.op \in Reads, ~asked.admin,
                      NEW c \in (answer.shown \cup answer.used) \cap asked.hidden
               PROVE  \/ asked.wildcard /\ (Star \in ToSet(asked.list)
                                            \/ (asked.op = "select" /\ asked.list = <<>>))
                      \/ Whole("t") \subseteq asked.hidden /\ asked.op = "select"
                      \/ Match("t") \in ToSet(asked.where) /\ c \notin answer.shown /\ c[2] \in asked.fts
                      \/ asked.op = "action" /\ Name(c[2]) \in ToSet(asked.list)
  BY DEF HiddenStaysHidden
<1>2. CASE asked.op = "select"
  <2>1. asked \in AnyReading("select", AnyEntry)
    BY <1>2 DEF AnyColumnsAsked, AnyReading, AnyWriting, Inserts
  <2>2. answer = SelectColumns(asked)
    BY <1>2 DEF ColumnsAnswer
  <2>. QED
    BY <1>1, <1>2, <2>1, <2>2, SelectKeepsHidden
<1>3. CASE asked.op = "returning"
  <2>1. asked \in AnyReading("returning", AnyEntry)
    BY <1>3 DEF AnyColumnsAsked, AnyReading, AnyWriting, Inserts
  <2>2. answer = ReturningColumns(asked)
    BY <1>3 DEF ColumnsAnswer
  <2>. QED
    BY <1>1, <2>1, <2>2, ReturningKeepsHidden
<1>4. CASE asked.op = "action"
  <2>1. asked \in AnyReading("action", {Star} \cup [i : {"name"}, c : STRING])
    BY <1>4 DEF AnyColumnsAsked, AnyReading, AnyWriting, Inserts
  <2>2. answer = ActionColumns(asked)
    BY <1>4 DEF ColumnsAnswer
  <2>. QED
    BY <1>1, <1>4, <2>1, <2>2, ActionKeepsHidden
<1>. QED
  BY <1>1, <1>2, <1>3, <1>4 DEF Reads

LEMMA AnswerCloses ==
  ASSUME asked \in AnyColumnsAsked, answer = ColumnsAnswer
  PROVE  ClosedStaysClosed
<1>1. SUFFICES ASSUME answer.ok, asked.op \notin Reads, ~asked.skip
               PROVE  /\ asked.op \in Inserts /\ Len(asked.rows) <= batchSize =>
                           answer.written \cap asked.noInsert
                             \subseteq (IF asked.autoSetUid THEN {"id"} ELSE {})
                      /\ asked.op \notin Inserts => answer.written \cap asked.noUpdate = {}
  BY DEF ClosedStaysClosed
<1>2. asked \in AnyWriting
  BY <1>1 DEF AnyColumnsAsked, AnyReading, Reads
<1>3. asked.rows \in Seq(SUBSET ColumnName) \ {<<>>} /\ asked.op \in Inserts \cup {"update", "edit"}
  BY <1>2 DEF AnyWriting
<1>4. CASE asked.op = "insert"
  <2>1. answer = InsertColumns(asked, asked.rows)
    BY <1>4 DEF ColumnsAnswer
  <2>. QED
    BY <1>1, <1>2, <1>3, <1>4, <2>1, InsertKeepsClosed DEF Inserts
<1>5. CASE asked.op = "replace"
  <2>1. answer = InsertColumns(asked, <<asked.rows[1] \cup {"id"}>>)
    BY <1>5 DEF ColumnsAnswer
  <2>2. asked.rows[1] \cup {"id"} \in SUBSET ColumnName
    BY <1>3 DEF ColumnName
  <2>3. /\ <<asked.rows[1] \cup {"id"}>> \in Seq(SUBSET ColumnName) \ {<<>>}
        /\ Len(<<asked.rows[1] \cup {"id"}>>) <= batchSize
    BY <2>2 DEF batchSize
  <2>. QED
    BY <1>1, <1>2, <1>5, <2>1, <2>3, InsertKeepsClosed DEF Inserts
<1>6. CASE asked.op \in {"update", "edit"}
  <2>1. answer = UpdateColumns(asked)
    BY <1>6 DEF ColumnsAnswer
  <2>. QED
    BY <1>1, <1>6, <2>1, UpdateKeepsClosed DEF Inserts
<1>. QED
  BY <1>3, <1>4, <1>5, <1>6 DEF Inserts

(* Whatever columns are hidden or closed, and whatever lists, conditions   *)
(* and rows a caller sends: it is shown, filters by and writes only what   *)
(* is open to it, but for the exceptions that the property names.          *)
THEOREM ColumnsClosed == ColumnsSpec => []ColumnsKept
<1>. DEFINE Inv == asked \in AnyColumnsAsked /\ (answer = NotYet \/ answer = ColumnsAnswer)
<1>1. asked \in AnyColumnsAsked /\ answer = NotYet => Inv
  OBVIOUS
<1>2. Inv /\ [Serve("columns", ColumnsAnswer)]_exchangeVars => Inv'
  <2>1. Serve("columns", ColumnsAnswer) => asked' = asked /\ answer' = ColumnsAnswer
    BY DEF Serve
  <2>2. asked' = asked => ColumnsAnswer' = ColumnsAnswer
    BY DEF ColumnsAnswer
  <2>. QED
    BY <2>1, <2>2 DEF exchangeVars
<1>3. Inv => ColumnsKept
  BY AnswerHides, AnswerCloses DEF ColumnsKept, HiddenStaysHidden, ClosedStaysClosed, Answered
<1>. QED
  BY <1>1, <1>2, <1>3, PTL DEF ColumnsSpec
=============================================================================
