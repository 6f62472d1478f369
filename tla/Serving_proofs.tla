--------------------------- MODULE Serving_proofs ---------------------------
(***************************************************************************)
(* Theorems about four small parts that keep state between requests or     *)
(* polls: the seeding of the example backend, the login of the command     *)
(* line at the platform, the log tail, and the rate limiter.  They share   *)
(* nothing; each section is about one of them, for any number of isolates, *)
(* commands, users, events and overlapping requests, and for every limit,  *)
(* window and lockout longer than the window.                              *)
(***************************************************************************)
EXTENDS Seeding, PlatformLogin, LogTail, RateLimiter,
        FiniteSetTheorems, SequenceTheorems, WellFoundedInduction, TLAPS

-----------------------------------------------------------------------------
(* Seeding.                                                                *)

(* A request past its first statement knows that the tasks table exists,   *)
(* and a request that seeds runs in an isolate.                            *)
SeedersInform ==
  \A v \in Visits :
    /\ visit[v].step \in {"table", "count", "insert"} => tasks
    /\ visit[v].step # "away" => visit[v].isolate \in Isolates

SeedingInv == SeedingTypeOK /\ SeedersInform /\ FlagMeansSeeded

LEMMA SeedingStarts == SeedingInit => SeedingInv
<1>. SUFFICES ASSUME SeedingInit  PROVE SeedingInv
  OBVIOUS
<1>1. SeedingTypeOK /\ SeedersInform
  BY DEF SeedingInit, SeedingTypeOK, SeedersInform, Away
<1>2. FlagMeansSeeded
  BY DEF SeedingInit, FlagMeansSeeded
<1>. QED  BY <1>1, <1>2 DEF SeedingInv

(* The shape of a request that changes its step, and of the others.        *)
LEMMA VisitFacts ==
  ASSUME SeedingTypeOK, NEW v \in Visits
  PROVE  /\ \A step \in {"away", "tasks", "table", "count", "insert", "serve"} :
              Continue(v, step) =>
                /\ visit'[v].isolate = visit[v].isolate /\ visit'[v].step = step
                /\ \A w \in Visits : w # v => visit'[w] = visit[w]
                /\ visit' \in [Visits -> [isolate : Isolates \cup {NoIsolate},
                     step : {"away", "tasks", "table", "count", "insert", "serve"}]]
         /\ visit' = [visit EXCEPT ![v] = Away] =>
                /\ visit'[v].isolate = NoIsolate /\ visit'[v].step = "away"
                /\ \A w \in Visits : w # v => visit'[w] = visit[w]
                /\ visit' \in [Visits -> [isolate : Isolates \cup {NoIsolate},
                     step : {"away", "tasks", "table", "count", "insert", "serve"}]]
BY DEF SeedingTypeOK, Continue, Away

LEMMA VisitKeeps ==
  ASSUME SeedingInv, NEW v \in Visits, NEW i \in Isolates, Visit(v, i)
  PROVE  SeedingInv'
<1>. DEFINE new == [isolate |-> i, step |-> IF seeded[i] THEN "serve" ELSE "tasks"]
<1>1. /\ visit' = [visit EXCEPT ![v] = new] /\ visit[v].step = "away"
      /\ seeded' = [seeded EXCEPT ![i] = TRUE]
      /\ UNCHANGED <<tasks, policies, cut>>
  BY DEF Visit
<1>2. /\ SeedingTypeOK /\ SeedersInform
      /\ visit \in [Visits -> [isolate : Isolates \cup {NoIsolate},
                     step : {"away", "tasks", "table", "count", "insert", "serve"}]]
      /\ seeded \in [Isolates -> BOOLEAN]
  BY DEF SeedingInv, SeedingTypeOK
<1>3. /\ visit'[v].isolate = i /\ visit'[v].step = IF seeded[i] THEN "serve" ELSE "tasks"
      /\ \A w \in Visits : w # v => visit'[w] = visit[w]
      /\ visit' \in [Visits -> [isolate : Isolates \cup {NoIsolate},
                     step : {"away", "tasks", "table", "count", "insert", "serve"}]]
  BY <1>1, <1>2
<1>4. SeedingTypeOK'
  BY <1>1, <1>2, <1>3 DEF SeedingTypeOK
<1>5. SeedersInform'
  BY <1>1, <1>2, <1>3 DEF SeedersInform
<1>6. ASSUME NEW j \in Isolates, seeded'[j], ~Seeds(j)', j \notin cut'
      PROVE  tasks' /\ policies' = "stored"
  <2>1. Seeds(j) => Seeds(j)'
    BY <1>1, <1>3 DEF Seeds
  <2>2. CASE j = i /\ ~seeded[i]
    BY <1>3, <1>6, <2>2 DEF Seeds
  <2>3. CASE j # i \/ seeded[i]
    <3>1. seeded[j]
      BY <1>1, <1>2, <1>6, <2>3
    <3>. QED  BY <1>1, <1>6, <2>1, <3>1 DEF SeedingInv, FlagMeansSeeded
  <2>. QED  BY <2>2, <2>3
<1>. QED  BY <1>4, <1>5, <1>6 DEF SeedingInv, FlagMeansSeeded

(* A request that seeds goes on to another statement.                      *)
LEMMA SeedingGoesOn ==
  ASSUME SeedingInv, NEW v \in Visits, NEW step \in {"table", "count", "insert"},
         visit[v].step \in {"tasks", "table", "count"}, Continue(v, step),
         tasks', policies' \in {"none", "empty", "stored"}, tasks' \in BOOLEAN,
         policies = "stored" => policies' = "stored", UNCHANGED <<seeded, cut>>
  PROVE  SeedingInv'
<1>1. /\ visit'[v].isolate = visit[v].isolate /\ visit'[v].step = step
      /\ \A w \in Visits : w # v => visit'[w] = visit[w]
      /\ visit' \in [Visits -> [isolate : Isolates \cup {NoIsolate},
             step : {"away", "tasks", "table", "count", "insert", "serve"}]]
  BY VisitFacts DEF SeedingInv
<1>2. SeedingTypeOK'
  BY <1>1 DEF SeedingInv, SeedingTypeOK
<1>3. SeedersInform'
  BY <1>1 DEF SeedingInv, SeedersInform
<1>4. \A i \in Isolates : Seeds(i) => Seeds(i)'
  BY <1>1 DEF Seeds
<1>5. FlagMeansSeeded'
  BY <1>4 DEF SeedingInv, FlagMeansSeeded
<1>. QED  BY <1>2, <1>3, <1>5 DEF SeedingInv

(* A request is done with seeding: everything is there, or the flag of its *)
(* isolate goes down.                                                      *)
LEMMA SeedingEnds ==
  ASSUME SeedingInv, NEW v \in Visits, visit[v].step \notin {"away", "serve"},
         Continue(v, "serve"), tasks' = tasks, cut' = cut,
         policies' \in {"none", "empty", "stored"},
         policies = "stored" => policies' = "stored",
         \/ tasks' /\ policies' = "stored" /\ seeded' = seeded
         \/ SeedError(v)
  PROVE  SeedingInv'
<1>1. /\ visit'[v].isolate = visit[v].isolate /\ visit'[v].step = "serve"
      /\ \A w \in Visits : w # v => visit'[w] = visit[w]
      /\ visit' \in [Visits -> [isolate : Isolates \cup {NoIsolate},
             step : {"away", "tasks", "table", "count", "insert", "serve"}]]
  BY VisitFacts DEF SeedingInv
<1>2. seeded \in [Isolates -> BOOLEAN] /\ seeded' \in [Isolates -> BOOLEAN]
  BY DEF SeedingInv, SeedingTypeOK, SeedError
<1>3. SeedingTypeOK'
  BY <1>1, <1>2 DEF SeedingInv, SeedingTypeOK
<1>4. SeedersInform'
  BY <1>1 DEF SeedingInv, SeedersInform
<1>5. CASE tasks' /\ policies' = "stored"
  BY <1>3, <1>4, <1>5 DEF SeedingInv, FlagMeansSeeded
<1>6. CASE SeedError(v)
  <2>1. ASSUME NEW i \in Isolates, seeded'[i], ~Seeds(i)', i \notin cut
        PROVE  tasks' /\ policies' = "stored"
    <3>1. i # visit[v].isolate /\ seeded[i]
      BY <1>2, <1>6, <2>1 DEF SeedError
    <3>2. ~Seeds(i)
      BY <1>1, <2>1, <3>1 DEF Seeds
    <3>. QED  BY <2>1, <3>1, <3>2 DEF SeedingInv, FlagMeansSeeded
  <2>. QED  BY <1>3, <1>4, <2>1 DEF SeedingInv, FlagMeansSeeded
<1>. QED  BY <1>5, <1>6

LEMMA SeedingStep ==
  ASSUME SeedingInv, [SeedingNext]_seedingVars
  PROVE  SeedingInv'
<1>1. SeedingTypeOK /\ SeedersInform
  BY DEF SeedingInv
<1>2. ASSUME NEW v \in Visits, CreateTasks(v) \/ CreatePolicyTable(v) \/ CountPolicies(v)
                                 \/ InsertPolicies(v) \/ StatementFails(v)
      PROVE  SeedingInv'
  <2>1. CASE CreateTasks(v)
    BY <1>1, <2>1, SeedingGoesOn DEF CreateTasks, SeedingTypeOK
  <2>2. CASE CreatePolicyTable(v)
    BY <1>1, <2>2, SeedingGoesOn DEF CreatePolicyTable, SeedingTypeOK, SeedersInform
  <2>3. CASE CountPolicies(v) /\ policies = "stored"
    BY <1>1, <2>3, SeedingEnds DEF CountPolicies, SeedersInform
  <2>4. CASE CountPolicies(v) /\ policies # "stored"
    BY <1>1, <2>4, SeedingGoesOn DEF CountPolicies, SeedersInform, SeedingTypeOK
  <2>5. CASE InsertPolicies(v)
    BY <1>1, <2>5, SeedingEnds DEF InsertPolicies, SeedersInform
  <2>6. CASE StatementFails(v)
    BY <1>1, <2>6, SeedingEnds DEF StatementFails, SeedingTypeOK
  <2>. QED  BY <1>2, <2>1, <2>2, <2>3, <2>4, <2>5, <2>6
<1>3. ASSUME NEW v \in Visits, CutOff(v) \/ Leave(v)  PROVE SeedingInv'
  <2>1. /\ visit' = [visit EXCEPT ![v] = Away] /\ UNCHANGED <<seeded, tasks, policies>>
        /\ cut \subseteq cut'
    BY <1>3 DEF CutOff, Leave
  <2>2. /\ visit'[v].isolate = NoIsolate /\ visit'[v].step = "away"
        /\ \A w \in Visits : w # v => visit'[w] = visit[w]
        /\ visit' \in [Visits -> [isolate : Isolates \cup {NoIsolate},
               step : {"away", "tasks", "table", "count", "insert", "serve"}]]
    BY <1>1, <2>1, VisitFacts
  <2>3. cut' \subseteq Isolates
    BY <1>1, <1>3 DEF CutOff, Leave, SeedingTypeOK, SeedersInform
  <2>4. SeedingTypeOK'
    BY <1>1, <2>1, <2>2, <2>3 DEF SeedingTypeOK
  <2>5. SeedersInform'
    BY <1>1, <2>1, <2>2 DEF SeedersInform
  <2>6. ASSUME NEW i \in Isolates, seeded[i], ~Seeds(i)', i \notin cut'
        PROVE  tasks /\ policies = "stored"
    <3>1. ~Seeds(i)
      BY <1>3, <2>2, <2>6 DEF Seeds, CutOff, Leave
    <3>. QED  BY <2>1, <2>6, <3>1 DEF SeedingInv, FlagMeansSeeded
  <2>. QED  BY <2>1, <2>4, <2>5, <2>6 DEF SeedingInv, FlagMeansSeeded
<1>4. ASSUME NEW i \in Isolates, Recycle(i)  PROVE SeedingInv'
  <2>1. /\ seeded' = [seeded EXCEPT ![i] = FALSE] /\ cut' = cut \ {i}
        /\ UNCHANGED <<tasks, policies, visit>> /\ seeded \in [Isolates -> BOOLEAN]
    BY <1>1, <1>4 DEF Recycle, SeedingTypeOK
  <2>2. SeedingTypeOK' /\ SeedersInform'
    BY <1>1, <2>1 DEF SeedingTypeOK, SeedersInform
  <2>3. \A j \in Isolates : Seeds(j)' <=> Seeds(j)
    BY <2>1 DEF Seeds
  <2>4. FlagMeansSeeded'
    BY <2>1, <2>3 DEF SeedingInv, FlagMeansSeeded
  <2>. QED  BY <2>2, <2>4 DEF SeedingInv
<1>5. CASE UNCHANGED seedingVars
  BY <1>5 DEF seedingVars, SeedingInv, SeedingTypeOK, SeedersInform, FlagMeansSeeded, Seeds
<1>. QED  BY <1>2, <1>3, <1>4, <1>5, VisitKeeps DEF SeedingNext

(* The variables of the seeding keep their types.                          *)
THEOREM SeedingTypeCorrect == SeedingSpec => []SeedingTypeOK
<1>1. SeedingInv => SeedingTypeOK
  BY DEF SeedingInv
<1>. QED  BY <1>1, SeedingStarts, SeedingStep, PTL DEF SeedingSpec

(* An isolate whose flag is up, in which nothing seeds and no seeding was  *)
(* cut off, has its tables and policies, whatever failed on the way there  *)
(* and whichever other isolates seeded the same database.                  *)
THEOREM FlagsMeanSeeded == SeedingSpec => []FlagMeansSeeded
<1>1. SeedingInv => FlagMeansSeeded
  BY DEF SeedingInv
<1>. QED  BY <1>1, SeedingStarts, SeedingStep, PTL DEF SeedingSpec

-----------------------------------------------------------------------------
(* The login at the platform.                                              *)

Genuine(ss, x) ==
  x \in Login /\ x.session <= Len(ss) /\ x.refresh <= ss[x.session].refresh

(* The refresh token is the one the platform gave out last.                *)
Latest(ss, x) == x.refresh = ss[x.session].refresh

(* Every login in the file or in the memory of a command was given out for *)
(* a session of the platform.                                              *)
LoginsGenuine ==
  /\ file # NoLogin => Genuine(sessions, file)
  /\ \A c \in Commands :
       /\ cmd[c].at # "idle" => Held(c) # NoLogin
       /\ Held(c) # NoLogin => Genuine(sessions, Held(c))
       /\ cmd[c].at = "renewed" => Held(c).refresh >= 1

(* A command about to write the file holds the latest token of its         *)
(* session, and holds it alone.                                            *)
Behind(ss, x, login) ==
  x # NoLogin /\ x.session = login.session => ~Latest(ss, x)

SavesLatest ==
  \A c \in Commands : cmd[c].at \in {"answered", "renewed", "confirmed"} =>
    /\ Latest(sessions, Held(c))
    /\ Behind(sessions, file, Held(c))
    /\ \A d \in Commands : d # c => Behind(sessions, Held(d), Held(c))

(* If the token in the file was replaced, the command that replaced it has *)
(* yet to save the new one, or it is lost.                                 *)
FileRenews ==
  file # NoLogin =>
    \/ file.session \in forgotten
    \/ Latest(sessions, file)
    \/ \E c \in Commands : /\ cmd[c].at \in {"renewed", "prompt", "confirmed"}
                           /\ Held(c).session = file.session
                           /\ Latest(sessions, Held(c))

LoginInv == LoginTypeOK /\ LoginsGenuine /\ SavesLatest /\ FileRenews

LEMMA LoginStarts == LoginInit => LoginInv
<1>. SUFFICES ASSUME LoginInit  PROVE LoginInv
  OBVIOUS
<1>1. LoginTypeOK
  BY PlatformAssumption DEF LoginInit, LoginTypeOK, Steps
<1>2. LoginsGenuine /\ SavesLatest /\ FileRenews
  BY DEF LoginInit, LoginsGenuine, SavesLatest, FileRenews, Held
<1>. QED  BY <1>1, <1>2 DEF LoginInv

LEMMA SavedRenews == LoginInv => SavedLoginRenews
<1>. SUFFICES ASSUME LoginInv, file # NoLogin, file.session \notin forgotten,
                     ~Latest(sessions, file)
              PROVE  \E c \in Commands : OnlyHere(c) /\ Held(c).session = file.session
  BY DEF SavedLoginRenews, Latest
<1>1. PICK c \in Commands : /\ cmd[c].at \in {"renewed", "prompt", "confirmed"}
                            /\ Held(c).session = file.session
                            /\ Latest(sessions, Held(c))
  BY DEF LoginInv, FileRenews
<1>2. Held(c) # NoLogin /\ Held(c) # file
  BY <1>1 DEF LoginInv, LoginsGenuine
<1>. QED  BY <1>1, <1>2 DEF OnlyHere, Latest

(* What a command does next and holds, and the others.                     *)
LEMMA GoFacts ==
  ASSUME LoginTypeOK, NEW c \in Commands, NEW at \in Steps,
         NEW x \in Login \cup {NoLogin}, Go(c, at, x)
  PROVE  /\ cmd'[c].at = at /\ Held(c)' = x
         /\ \A d \in Commands : d # c => cmd'[d] = cmd[d] /\ Held(d)' = Held(d)
         /\ cmd' \in [Commands -> [at : Steps, held : Login \cup {NoLogin}]]
BY DEF LoginTypeOK, Go, Held

(* A command goes on with the login it held or with the file, or stops.    *)
LEMMA MoveKeeps ==
  ASSUME LoginInv, NEW c \in Commands, NEW at \in Steps, NEW x, Go(c, at, x),
         at \notin {"answered", "renewed", "confirmed"},
         x \in {NoLogin, file, Held(c)}, at # "idle" => x # NoLogin,
         UNCHANGED <<file, sessions, verified>>,
         forgotten \subseteq forgotten', forgotten' \subseteq Ids,
         interrupts' \in 0 .. MaxInterrupts,
         cmd[c].at \in {"renewed", "prompt", "confirmed"} /\ OnlyHere(c)
           => Held(c).session \in forgotten'
  PROVE  LoginInv'
<1>1. LoginTypeOK /\ LoginsGenuine /\ SavesLatest /\ FileRenews
  BY DEF LoginInv
<1>2. x \in Login \cup {NoLogin}
  BY <1>1 DEF LoginTypeOK, Held
<1>3. /\ cmd'[c].at = at /\ Held(c)' = x
      /\ \A d \in Commands : d # c => cmd'[d] = cmd[d] /\ Held(d)' = Held(d)
      /\ cmd' \in [Commands -> [at : Steps, held : Login \cup {NoLogin}]]
  BY <1>1, <1>2, GoFacts
<1>4. LoginTypeOK'
  BY <1>1, <1>3 DEF LoginTypeOK
<1>5. LoginsGenuine'
  BY <1>1, <1>3 DEF LoginsGenuine
<1>6. SavesLatest'
  <2>. SUFFICES ASSUME NEW d \in Commands, cmd'[d].at \in {"answered", "renewed", "confirmed"}
                PROVE  /\ Latest(sessions, Held(d)')
                       /\ Behind(sessions, file, Held(d)')
                       /\ \A e \in Commands : e # d => Behind(sessions, Held(e)', Held(d)')
    BY DEF SavesLatest, Behind
  <2>1. d # c /\ Held(d)' = Held(d) /\ cmd'[d] = cmd[d]
    BY <1>3
  <2>2. /\ Latest(sessions, Held(d)) /\ Behind(sessions, file, Held(d))
        /\ \A e \in Commands : e # d => Behind(sessions, Held(e), Held(d))
    BY <1>1, <2>1 DEF SavesLatest
  <2>3. Behind(sessions, x, Held(d))
    BY <2>1, <2>2 DEF Behind
  <2>. QED  BY <1>3, <2>1, <2>2, <2>3
<1>7. FileRenews'
  <2>. SUFFICES ASSUME file # NoLogin, file.session \notin forgotten', ~Latest(sessions, file)
                PROVE  \E d \in Commands : /\ cmd'[d].at \in {"renewed", "prompt", "confirmed"}
                                           /\ Held(d)'.session = file.session
                                           /\ Latest(sessions, Held(d)')
    BY DEF FileRenews
  <2>1. PICK d \in Commands : /\ cmd[d].at \in {"renewed", "prompt", "confirmed"}
                              /\ Held(d).session = file.session
                              /\ Latest(sessions, Held(d))
    BY <1>1 DEF FileRenews
  <2>2. d # c
    <3>1. CASE d = c
      <4>1. Held(c) # NoLogin /\ Held(c) # file
        BY <1>1, <2>1, <3>1 DEF LoginsGenuine
      <4>2. OnlyHere(c)
        BY <2>1, <3>1, <4>1 DEF OnlyHere, Latest
      <4>. QED  BY <2>1, <3>1, <4>2
    <3>. QED  BY <3>1
  <2>. QED  BY <1>3, <2>1, <2>2
<1>. QED  BY <1>4, <1>5, <1>6, <1>7 DEF LoginInv

(* A command writes the login it holds into the file.                      *)
LEMMA SaveKeeps ==
  ASSUME LoginInv, NEW c \in Commands, NEW at \in Steps, NEW x, Go(c, at, x),
         cmd[c].at \in {"answered", "renewed", "confirmed"}, file' = Held(c),
         at \notin {"answered", "renewed", "confirmed"},
         x = NoLogin \/ (x \in Login /\ x.session = Held(c).session
                                     /\ x.refresh <= Held(c).refresh),
         at # "idle" => x # NoLogin,
         UNCHANGED <<sessions, verified, forgotten, interrupts>>
  PROVE  LoginInv'
<1>1. LoginTypeOK /\ LoginsGenuine /\ SavesLatest
  BY DEF LoginInv
<1>2. x \in Login \cup {NoLogin}
  OBVIOUS
<1>3. /\ cmd'[c].at = at /\ Held(c)' = x
      /\ \A d \in Commands : d # c => cmd'[d] = cmd[d] /\ Held(d)' = Held(d)
      /\ cmd' \in [Commands -> [at : Steps, held : Login \cup {NoLogin}]]
  BY <1>1, <1>2, GoFacts
<1>4. Held(c) # NoLogin /\ Genuine(sessions, Held(c)) /\ Latest(sessions, Held(c))
  BY <1>1 DEF LoginsGenuine, SavesLatest
<1>5. LoginTypeOK'
  BY <1>1, <1>3, <1>4 DEF LoginTypeOK, Genuine
<1>6. x # NoLogin => Genuine(sessions, x)
  BY <1>1, <1>4 DEF Genuine, Latest, Login
<1>7. LoginsGenuine'
  BY <1>1, <1>3, <1>4, <1>6 DEF LoginsGenuine
<1>8. SavesLatest'
  <2>. SUFFICES ASSUME NEW d \in Commands, cmd'[d].at \in {"answered", "renewed", "confirmed"}
                PROVE  /\ Latest(sessions, Held(d)')
                       /\ Behind(sessions, file', Held(d)')
                       /\ \A e \in Commands : e # d => Behind(sessions, Held(e)', Held(d)')
    BY DEF SavesLatest, Behind
  <2>1. d # c /\ Held(d)' = Held(d) /\ cmd'[d] = cmd[d]
    BY <1>3
  <2>2. /\ Latest(sessions, Held(d))
        /\ \A e \in Commands : e # d => Behind(sessions, Held(e), Held(d))
    BY <1>1, <2>1 DEF SavesLatest
  <2>3. Held(c).session # Held(d).session
    BY <1>4, <2>1, <2>2 DEF Behind
  <2>4. Behind(sessions, file', Held(d)) /\ Behind(sessions, x, Held(d))
    BY <2>3 DEF Behind
  <2>. QED  BY <1>3, <2>1, <2>2, <2>4
<1>9. FileRenews'
  BY <1>4 DEF FileRenews
<1>. QED  BY <1>5, <1>7, <1>8, <1>9 DEF LoginInv

(* A session more: the logins there are stay as current as they were.      *)
LEMMA SignInKeeps ==
  ASSUME LoginInv, NEW c \in Commands, NEW u \in Users, SignIn(c, u)
  PROVE  LoginInv'
<1>. DEFINE n == Len(sessions) + 1
            x == [user |-> u, session |-> n, refresh |-> 0, verified |-> u \in verified]
<1>1. LoginTypeOK /\ LoginsGenuine /\ SavesLatest /\ FileRenews
  BY DEF LoginInv
<1>2. /\ cmd[c].at = "idle" /\ Len(sessions) < MaxSessions
      /\ sessions' = Append(sessions, [user |-> u, refresh |-> 0])
      /\ Go(c, "answered", x) /\ UNCHANGED <<file, verified, forgotten, interrupts>>
  BY DEF SignIn
<1>3. /\ sessions \in Seq([user : Users, refresh : 0 .. MaxRenewals])
      /\ [user |-> u, refresh |-> 0] \in [user : Users, refresh : 0 .. MaxRenewals]
  BY <1>1, PlatformAssumption DEF LoginTypeOK
<1>4. /\ sessions' \in Seq([user : Users, refresh : 0 .. MaxRenewals])
      /\ Len(sessions) \in Nat /\ Len(sessions') = n /\ sessions'[n].refresh = 0
      /\ \A i \in 1 .. Len(sessions) : sessions'[i] = sessions[i]
  BY <1>2, <1>3
<1>5. x \in Login /\ x.session = n /\ x.refresh = 0
  BY <1>2, <1>4, PlatformAssumption DEF Login, Ids
<1>6. x # NoLogin
  <2>1. x \in [user : Users, session : Nat, refresh : Nat, verified : BOOLEAN]
    BY <1>4, <1>5
  <2>. QED  BY <2>1, PlatformAssumption
<1>. HIDE DEF x, n
<1>7. /\ cmd'[c].at = "answered" /\ Held(c)' = x
      /\ \A d \in Commands : d # c => cmd'[d] = cmd[d] /\ Held(d)' = Held(d)
      /\ cmd' \in [Commands -> [at : Steps, held : Login \cup {NoLogin}]]
  BY <1>1, <1>2, <1>5, GoFacts DEF Steps
<1>8. ASSUME NEW y, Genuine(sessions, y)
      PROVE  /\ Genuine(sessions', y) /\ y.session # n
             /\ Latest(sessions', y) <=> Latest(sessions, y)
  <2>1. y.session \in 1 .. Len(sessions)
    BY <1>4, <1>8 DEF Genuine, Login, Ids
  <2>2. sessions'[y.session] = sessions[y.session] /\ y.session <= n /\ y.session # n
    BY <1>4, <2>1 DEF n
  <2>. QED  BY <1>4, <1>8, <2>2 DEF Genuine, Latest
<1>9. Genuine(sessions', x) /\ Latest(sessions', x)
  BY <1>4, <1>5 DEF Genuine, Latest, n
<1>10. LoginTypeOK'
  BY <1>1, <1>2, <1>4, <1>7 DEF LoginTypeOK
<1>11. LoginsGenuine'
  BY <1>1, <1>2, <1>6, <1>7, <1>8, <1>9 DEF LoginsGenuine
<1>12. SavesLatest'
  <2>. SUFFICES ASSUME NEW d \in Commands, cmd'[d].at \in {"answered", "renewed", "confirmed"}
                PROVE  /\ Latest(sessions', Held(d)')
                       /\ Behind(sessions', file, Held(d)')
                       /\ \A e \in Commands : e # d => Behind(sessions', Held(e)', Held(d)')
    BY <1>2 DEF SavesLatest
  <2>1. CASE d = c
    BY <1>1, <1>2, <1>5, <1>7, <1>8, <1>9, <2>1 DEF Behind, LoginsGenuine
  <2>2. CASE d # c
    <3>1. cmd'[d] = cmd[d] /\ Held(d)' = Held(d)
      BY <1>7, <2>2
    <3>2. /\ Latest(sessions, Held(d)) /\ Behind(sessions, file, Held(d))
          /\ \A e \in Commands : e # d => Behind(sessions, Held(e), Held(d))
      BY <1>1, <3>1 DEF SavesLatest
    <3>3. Genuine(sessions, Held(d))
      BY <1>1, <3>1 DEF LoginsGenuine
    <3>4. Latest(sessions', Held(d)) /\ Held(d).session # n
      BY <1>8, <3>2, <3>3
    <3>5. file # NoLogin /\ file.session = Held(d).session => ~Latest(sessions', file)
      BY <1>1, <1>8, <3>2 DEF Behind, LoginsGenuine
    <3>6. ASSUME NEW e \in Commands, e # d, Held(e)' # NoLogin,
                 Held(e)'.session = Held(d).session
          PROVE  ~Latest(sessions', Held(e)')
      <4>1. e # c /\ Held(e)' = Held(e)
        BY <1>5, <1>7, <3>4, <3>6
      <4>. QED  BY <1>1, <1>8, <3>2, <3>6, <4>1 DEF Behind, LoginsGenuine
    <3>. QED  BY <1>2, <3>1, <3>4, <3>5, <3>6 DEF Behind
  <2>. QED  BY <2>1, <2>2
<1>13. FileRenews'
  <2>. SUFFICES ASSUME file # NoLogin, file.session \notin forgotten, ~Latest(sessions', file)
                PROVE  \E d \in Commands : /\ cmd'[d].at \in {"renewed", "prompt", "confirmed"}
                                           /\ Held(d)'.session = file.session
                                           /\ Latest(sessions', Held(d)')
    BY <1>2 DEF FileRenews
  <2>1. ~Latest(sessions, file)
    BY <1>1, <1>8 DEF LoginsGenuine
  <2>2. PICK d \in Commands : /\ cmd[d].at \in {"renewed", "prompt", "confirmed"}
                              /\ Held(d).session = file.session
                              /\ Latest(sessions, Held(d))
    BY <1>1, <2>1 DEF FileRenews
  <2>3. d # c /\ Genuine(sessions, Held(d))
    BY <1>1, <1>2, <2>2 DEF LoginsGenuine
  <2>. QED  BY <1>7, <1>8, <2>2, <2>3
<1>. QED  BY <1>10, <1>11, <1>12, <1>13 DEF LoginInv

LEMMA RenewedFacts ==
  ASSUME NEW login \in Login, login.refresh + 1 \in 0 .. MaxRenewals
  PROVE  /\ Renewed(login) \in Login /\ Renewed(login).session = login.session
         /\ Renewed(login).refresh = login.refresh + 1
<1>1. (login.user \in verified) \in BOOLEAN
  OBVIOUS
<1>2. PICK b \in BOOLEAN : b = (login.user \in verified)
  BY <1>1
<1>3. Renewed(login) = [login EXCEPT !.refresh = @ + 1, !.verified = b]
  BY <1>2 DEF Renewed
<1>. QED  BY <1>3 DEF Login

(* The platform replaces the refresh token of a session: no other command  *)
(* was about to save the old one, and the new one is held or lost.         *)
LEMMA RenewKeeps ==
  ASSUME LoginInv, NEW c \in Commands, cmd[c].at \in {"loaded", "prompt"},
         Renews(Held(c)), Replace(Held(c)),
         UNCHANGED <<file, verified>>,
         forgotten \subseteq forgotten', forgotten' \subseteq Ids,
         interrupts' \in 0 .. MaxInterrupts,
         NEW at \in Steps, NEW x, Go(c, at, x),
         \/ x = Renewed(Held(c)) /\ at \in {"renewed", "prompt", "confirmed"}
         \/ /\ x = Held(c) /\ at \in {"prompt", "checked"}
            /\ Held(c).session \in forgotten'
  PROVE  LoginInv'
<1>. DEFINE h == Held(c)
            s == h.session
<1>1. LoginTypeOK /\ LoginsGenuine /\ SavesLatest /\ FileRenews
  BY DEF LoginInv
<1>2. /\ h # NoLogin /\ Genuine(sessions, h) /\ h \in Login
      /\ Latest(sessions, h) /\ h.refresh < MaxRenewals
      /\ sessions' = [sessions EXCEPT ![s].refresh = @ + 1]
  BY <1>1 DEF LoginsGenuine, Renews, Replace, Latest, Genuine
<1>3. sessions \in Seq([user : Users, refresh : 0 .. MaxRenewals]) /\ s \in 1 .. Len(sessions)
      /\ h.refresh \in Nat /\ h.refresh + 1 \in 0 .. MaxRenewals
  BY <1>1, <1>2, PlatformAssumption DEF LoginTypeOK, Genuine, Login, Ids
<1>4. /\ sessions' \in Seq([user : Users, refresh : 0 .. MaxRenewals])
      /\ Len(sessions') = Len(sessions)
      /\ sessions[s].refresh = h.refresh /\ sessions'[s].refresh = h.refresh + 1
      /\ \A i \in 1 .. Len(sessions) : i # s => sessions'[i] = sessions[i]
  <2>0. sessions[s].refresh = h.refresh
    BY <1>2 DEF Latest
  <2>. HIDE DEF h, s
  <2>1. /\ sessions[s] \in [user : Users, refresh : 0 .. MaxRenewals]
        /\ sessions[s].refresh = h.refresh
    BY <1>3, <2>0, ElementOfSeq
  <2>2. PICK y \in [user : Users, refresh : 0 .. MaxRenewals] :
          y = [sessions[s] EXCEPT !.refresh = @ + 1]
    BY <1>3, <2>1
  <2>3. y.refresh = h.refresh + 1
    BY <2>1, <2>2
  <2>4. sessions' = [sessions EXCEPT ![s] = y]
    BY <1>2, <2>2
  <2>. QED  BY <1>3, <2>1, <2>3, <2>4
<1>5. /\ x \in Login /\ x.session = s
      /\ x.refresh = h.refresh \/ x.refresh = h.refresh + 1
      /\ at \in {"renewed", "prompt", "confirmed"} /\ x = Renewed(h) => x.refresh = h.refresh + 1
  <2>1. Renewed(h) \in Login /\ Renewed(h).session = s /\ Renewed(h).refresh = h.refresh + 1
    BY <1>2, <1>3, RenewedFacts
  <2>. QED  BY <1>2, <2>1
<1>6. x # NoLogin
  <2>1. x \in [user : Users, session : Nat, refresh : Nat, verified : BOOLEAN]
    BY <1>5, PlatformAssumption DEF Login, Ids
  <2>. QED  BY <2>1, PlatformAssumption
<1>7. /\ cmd'[c].at = at /\ Held(c)' = x
      /\ \A d \in Commands : d # c => cmd'[d] = cmd[d] /\ Held(d)' = Held(d)
      /\ cmd' \in [Commands -> [at : Steps, held : Login \cup {NoLogin}]]
  BY <1>1, <1>5, GoFacts
<1>8. ASSUME NEW y, Genuine(sessions, y)
      PROVE  /\ Genuine(sessions', y)
             /\ y.session = s => ~Latest(sessions', y)
             /\ y.session # s => (Latest(sessions', y) <=> Latest(sessions, y))
  <2>1. y.session \in 1 .. Len(sessions) /\ y.refresh \in Nat /\ y \in Login
    BY <1>3, <1>8, PlatformAssumption DEF Genuine, Login, Ids
  <2>2. CASE y.session = s
    <3>1. y.refresh <= h.refresh
      BY <1>4, <1>8, <2>2 DEF Genuine
    <3>2. y.refresh <= h.refresh + 1 /\ y.refresh # h.refresh + 1
      BY <1>3, <2>1, <3>1
    <3>. QED  BY <1>4, <1>8, <2>1, <2>2, <3>2 DEF Genuine, Latest
  <2>3. CASE y.session # s
    BY <1>4, <1>8, <2>1, <2>3 DEF Genuine, Latest
  <2>. QED  BY <2>2, <2>3
<1>9. Genuine(sessions', x)
  BY <1>3, <1>4, <1>5 DEF Genuine
<1>10. x.refresh = h.refresh + 1 => Latest(sessions', x) /\ x.refresh >= 1
  BY <1>3, <1>4, <1>5 DEF Latest
<1>. HIDE DEF s, h
<1>11. LoginTypeOK'
  BY <1>1, <1>4, <1>7 DEF LoginTypeOK
<1>12. at = "renewed" => x.refresh >= 1
  BY <1>5, <1>10 DEF h
<1>13. LoginsGenuine'
  BY <1>1, <1>6, <1>7, <1>8, <1>9, <1>12 DEF LoginsGenuine
<1>14. SavesLatest'
  <2>. SUFFICES ASSUME NEW d \in Commands, cmd'[d].at \in {"answered", "renewed", "confirmed"}
                PROVE  /\ Latest(sessions', Held(d)')
                       /\ file # NoLogin /\ file.session = Held(d)'.session
                            => ~Latest(sessions', file)
                       /\ \A e \in Commands :
                            e # d /\ Held(e)' # NoLogin /\ Held(e)'.session = Held(d)'.session
                              => ~Latest(sessions', Held(e)')
    BY DEF SavesLatest, Behind
  <2>1. CASE d = c
    <3>1. x = Renewed(h) /\ at \in {"renewed", "prompt", "confirmed"}
      BY <1>7, <2>1 DEF h
    <3>2. Latest(sessions', x)
      BY <1>5, <1>10, <3>1
    <3>. QED  BY <1>1, <1>5, <1>7, <1>8, <2>1, <3>2 DEF LoginsGenuine
  <2>2. CASE d # c
    <3>1. cmd'[d] = cmd[d] /\ Held(d)' = Held(d)
      BY <1>7, <2>2
    <3>2. /\ Latest(sessions, Held(d)) /\ Behind(sessions, file, Held(d))
          /\ \A e \in Commands : e # d => Behind(sessions, Held(e), Held(d))
      BY <1>1, <3>1 DEF SavesLatest
    <3>3. Genuine(sessions, Held(d))
      BY <1>1, <3>1 DEF LoginsGenuine
    <3>4. Held(d).session # s
      BY <1>2, <2>2, <3>2 DEF Behind, s, h
    <3>5. Latest(sessions', Held(d))
      BY <1>8, <3>2, <3>3, <3>4
    <3>6. file # NoLogin /\ file.session = Held(d).session => ~Latest(sessions', file)
      BY <1>1, <1>8, <3>2, <3>4 DEF Behind, LoginsGenuine
    <3>7. ASSUME NEW e \in Commands, e # d, Held(e)' # NoLogin,
                 Held(e)'.session = Held(d).session
          PROVE  ~Latest(sessions', Held(e)')
      <4>1. e # c /\ Held(e)' = Held(e)
        BY <1>5, <1>7, <3>4, <3>7
      <4>. QED  BY <1>1, <1>8, <3>2, <3>4, <3>7, <4>1 DEF Behind, LoginsGenuine
    <3>. QED  BY <3>1, <3>5, <3>6, <3>7
  <2>. QED  BY <2>1, <2>2
<1>15. FileRenews'
  <2>. SUFFICES ASSUME file # NoLogin, file.session \notin forgotten', ~Latest(sessions', file)
                PROVE  \E d \in Commands : /\ cmd'[d].at \in {"renewed", "prompt", "confirmed"}
                                           /\ Held(d)'.session = file.session
                                           /\ Latest(sessions', Held(d)')
    BY DEF FileRenews
  <2>1. CASE file.session = s
    <3>1. x = Renewed(h) /\ at \in {"renewed", "prompt", "confirmed"}
      BY <2>1 DEF s, h
    <3>2. Latest(sessions', x)
      BY <1>5, <1>10, <3>1
    <3>. QED  BY <1>5, <1>7, <2>1, <3>1, <3>2
  <2>2. CASE file.session # s
    <3>1. ~Latest(sessions, file) /\ file.session \notin forgotten
      BY <1>1, <1>8, <2>2 DEF LoginsGenuine
    <3>2. PICK d \in Commands : /\ cmd[d].at \in {"renewed", "prompt", "confirmed"}
                                /\ Held(d).session = file.session
                                /\ Latest(sessions, Held(d))
      BY <1>1, <3>1 DEF FileRenews
    <3>3. d # c
      BY <2>2, <3>2 DEF s, h
    <3>4. Genuine(sessions, Held(d)) /\ Held(d)' = Held(d) /\ cmd'[d] = cmd[d]
      BY <1>1, <1>7, <3>2, <3>3 DEF LoginsGenuine
    <3>5. Latest(sessions', Held(d))
      BY <1>8, <2>2, <3>2, <3>4
    <3>. QED  BY <3>2, <3>4, <3>5
  <2>. QED  BY <2>1, <2>2
<1>. QED  BY <1>11, <1>13, <1>14, <1>15 DEF LoginInv

LEMMA RenewOnStartKeeps ==
  ASSUME LoginInv, NEW c \in Commands, RenewOnStart(c)
  PROVE  LoginInv'
<1>1. LoginTypeOK /\ LoginsGenuine
  BY DEF LoginInv
<1>2. /\ cmd[c].at = "loaded" /\ UNCHANGED <<file, verified>>
      /\ Held(c) # NoLogin /\ Held(c).session \in Ids
  BY <1>1 DEF RenewOnStart, LoginsGenuine, Genuine, Login
<1>3. forgotten \subseteq Ids /\ interrupts \in 0 .. MaxInterrupts
  BY <1>1 DEF LoginTypeOK
<1>4. CASE Renews(Held(c)) /\ Replace(Held(c)) /\ Go(c, "renewed", Renewed(Held(c)))
             /\ UNCHANGED <<forgotten, interrupts>>
  BY <1>2, <1>3, <1>4, RenewKeeps DEF Steps
<1>5. CASE Renews(Held(c)) /\ Replace(Held(c)) /\ interrupts < MaxInterrupts
             /\ interrupts' = interrupts + 1 /\ forgotten' = forgotten \cup {Held(c).session}
             /\ Go(c, "checked", Held(c))
  <2>1. interrupts' \in 0 .. MaxInterrupts
    BY <1>3, <1>5, PlatformAssumption
  <2>. QED  BY <1>2, <1>3, <1>5, <2>1, RenewKeeps DEF Steps
<1>6. CASE (Go(c, "idle", NoLogin) \/ (file # NoLogin /\ Go(c, "checked", file)))
             /\ UNCHANGED <<sessions, forgotten, interrupts>>
  BY <1>2, <1>3, <1>6, MoveKeeps DEF Steps
<1>7. CASE Go(c, "checked", Held(c)) /\ UNCHANGED <<sessions, forgotten, interrupts>>
  BY <1>2, <1>3, <1>7, MoveKeeps DEF Steps
<1>. QED  BY <1>4, <1>5, <1>6, <1>7 DEF RenewOnStart

LEMMA PromptRenewKeeps ==
  ASSUME LoginInv, NEW c \in Commands, PromptRenew(c)
  PROVE  LoginInv'
<1>1. LoginTypeOK /\ LoginsGenuine
  BY DEF LoginInv
<1>2. /\ cmd[c].at = "prompt" /\ Renews(Held(c)) /\ Replace(Held(c))
      /\ UNCHANGED <<file, verified>>
      /\ Held(c) # NoLogin /\ Held(c).session \in Ids
  BY <1>1 DEF PromptRenew, LoginsGenuine, Genuine, Login
<1>3. forgotten \subseteq Ids /\ interrupts \in 0 .. MaxInterrupts
  BY <1>1 DEF LoginTypeOK
<1>4. ASSUME NEW at \in {"prompt", "confirmed"}, Go(c, at, Renewed(Held(c))),
             UNCHANGED <<forgotten, interrupts>>
      PROVE  LoginInv'
  BY <1>2, <1>3, <1>4, RenewKeeps DEF Steps
<1>5. CASE interrupts < MaxInterrupts /\ interrupts' = interrupts + 1
             /\ forgotten' = forgotten \cup {Held(c).session} /\ UNCHANGED cmd
  <2>1. interrupts' \in 0 .. MaxInterrupts
    BY <1>3, <1>5, PlatformAssumption
  <2>2. Go(c, "prompt", Held(c))
    BY <1>1, <1>2, <1>5 DEF Go, Held, LoginTypeOK
  <2>. QED  BY <1>2, <1>3, <1>5, <2>1, <2>2, RenewKeeps DEF Steps
<1>. QED  BY <1>4, <1>5 DEF PromptRenew

LEMMA CommandKeeps ==
  ASSUME LoginInv, NEW c \in Commands,
         \/ authFlow(c) \/ LogOut(c) \/ loadCredentials(c) \/ SaveRenewed(c)
         \/ ensureEmailVerified(c) \/ SaveConfirmed(c) \/ GiveUp(c) \/ Finish(c)
  PROVE  LoginInv'
<1>1. LoginTypeOK /\ LoginsGenuine
  BY DEF LoginInv
<1>2. forgotten \subseteq Ids /\ interrupts \in 0 .. MaxInterrupts
  BY <1>1 DEF LoginTypeOK
<1>3. cmd[c].at # "idle" => Held(c) # NoLogin /\ Held(c) \in Login /\ Held(c).session \in Ids
  BY <1>1 DEF LoginsGenuine, Genuine, Login
<1>4. \A login \in Login : login.refresh <= login.refresh
  BY PlatformAssumption DEF Login
<1>5. CASE authFlow(c)
  <2>1. cmd[c].at = "answered" /\ file' = Held(c)
        /\ UNCHANGED <<sessions, verified, forgotten, interrupts>>
    BY <1>5 DEF authFlow
  <2>2. CASE Go(c, "prompt", Held(c))
    BY <1>3, <1>4, <2>1, <2>2, SaveKeeps DEF Steps
  <2>3. CASE Go(c, "idle", NoLogin)
    <3>1. cmd[c].at \in {"answered", "renewed", "confirmed"} /\ "idle" \in Steps
          /\ "idle" \notin {"answered", "renewed", "confirmed"}
      BY <2>1 DEF Steps
    <3>2. PICK at : at = "idle"
      OBVIOUS
    <3>3. PICK x : x = NoLogin
      OBVIOUS
    <3>4. Go(c, at, x)
      BY <2>3, <3>2, <3>3 DEF Go
    <3>5. at \in Steps /\ at \notin {"answered", "renewed", "confirmed"} /\ at = "idle"
      BY <3>1, <3>2
    <3>6. x = NoLogin \/ (x \in Login /\ x.session = Held(c).session
                                       /\ x.refresh <= Held(c).refresh)
      BY <3>3
    <3>7. at # "idle" => x # NoLogin
      BY <3>5
    <3>. QED  BY <2>1, <3>1, <3>4, <3>5, <3>6, <3>7, SaveKeeps, Zenon
  <2>. QED  BY <1>5, <2>2, <2>3 DEF authFlow
<1>6. CASE LogOut(c)
  <2>1. file' = NoLogin /\ UNCHANGED <<cmd, sessions, verified, forgotten, interrupts>>
    BY <1>6 DEF LogOut
  <2>2. LoginTypeOK'
    BY <1>1, <2>1 DEF LoginTypeOK
  <2>3. LoginsGenuine' /\ FileRenews'
    BY <1>1, <2>1 DEF LoginsGenuine, FileRenews, Held
  <2>4. SavesLatest'
    BY <2>1 DEF LoginInv, SavesLatest, Behind, Held
  <2>. QED  BY <2>2, <2>3, <2>4 DEF LoginInv
<1>7. CASE loadCredentials(c)
  BY <1>2, <1>7, MoveKeeps DEF loadCredentials, Steps
<1>8. CASE SaveRenewed(c)
  <2>1. /\ cmd[c].at = "renewed" /\ file' = Held(c)
        /\ Go(c, "checked", [Held(c) EXCEPT !.refresh = @ - 1])
        /\ UNCHANGED <<sessions, verified, forgotten, interrupts>>
    BY <1>8 DEF SaveRenewed, saved
  <2>2. Held(c).refresh \in 1 .. MaxRenewals
    BY <1>1, <1>3, <2>1 DEF LoginsGenuine, Login
  <2>3. PICK x : x = [Held(c) EXCEPT !.refresh = @ - 1]
    OBVIOUS
  <2>4. /\ x \in Login /\ x.session = Held(c).session /\ x.refresh = Held(c).refresh - 1
    BY <1>3, <2>1, <2>2, <2>3, PlatformAssumption DEF Login
  <2>5. x.refresh <= Held(c).refresh
    BY <2>2, <2>4
  <2>6. x # NoLogin
    <3>1. x \in [user : Users, session : Nat, refresh : Nat, verified : BOOLEAN]
      BY <2>4, PlatformAssumption DEF Login, Ids
    <3>. QED  BY <3>1, PlatformAssumption
  <2>. QED  BY <2>1, <2>3, <2>4, <2>5, <2>6, SaveKeeps DEF Steps
<1>9. CASE ensureEmailVerified(c)
  BY <1>2, <1>3, <1>9, MoveKeeps DEF ensureEmailVerified, Steps
<1>10. CASE SaveConfirmed(c)
  <2>1. /\ cmd[c].at = "confirmed" /\ file' = Held(c) /\ Go(c, "runs", Held(c))
        /\ UNCHANGED <<sessions, verified, forgotten, interrupts>>
    BY <1>10 DEF SaveConfirmed, saved
  <2>. QED  BY <1>3, <1>4, <2>1, SaveKeeps DEF Steps
<1>11. CASE GiveUp(c)
  <2>1. interrupts' \in 0 .. MaxInterrupts
    BY <1>2, <1>11, PlatformAssumption DEF GiveUp
  <2>2. /\ forgotten \subseteq forgotten' /\ forgotten' \subseteq Ids
        /\ OnlyHere(c) => Held(c).session \in forgotten'
    BY <1>2, <1>3, <1>11 DEF GiveUp
  <2>. QED  BY <1>11, <2>1, <2>2, MoveKeeps DEF GiveUp, Steps
<1>12. CASE Finish(c)
  BY <1>2, <1>12, MoveKeeps DEF Finish, Steps
<1>. QED  BY <1>5, <1>6, <1>7, <1>8, <1>9, <1>10, <1>11, <1>12

LEMMA LoginStep ==
  ASSUME LoginInv, [LoginNext]_loginVars
  PROVE  LoginInv'
<1>1. ASSUME verified' \subseteq Users, UNCHANGED <<file, cmd, sessions, forgotten, interrupts>>
      PROVE  LoginInv'
  <2>1. LoginTypeOK'
    BY <1>1 DEF LoginInv, LoginTypeOK
  <2>2. LoginsGenuine' /\ SavesLatest' /\ FileRenews'
    BY <1>1 DEF LoginInv, LoginsGenuine, SavesLatest, FileRenews, Held
  <2>. QED  BY <2>1, <2>2 DEF LoginInv
<1>2. ASSUME NEW u \in Users, ConfirmAddress(u)  PROVE LoginInv'
  BY <1>1, <1>2 DEF ConfirmAddress, LoginInv, LoginTypeOK
<1>3. CASE UNCHANGED loginVars
  BY <1>1, <1>3 DEF loginVars, LoginInv, LoginTypeOK
<1>. QED  BY <1>2, <1>3, SignInKeeps, CommandKeeps, RenewOnStartKeeps, PromptRenewKeeps
          DEF LoginNext

(* The file, the commands and the platform keep their types.               *)
THEOREM LoginTypeCorrect == LoginSpec => []LoginTypeOK
<1>1. LoginInv => LoginTypeOK
  BY DEF LoginInv
<1>. QED  BY <1>1, LoginStarts, LoginStep, PTL DEF LoginSpec

(* The refresh token in the file can be exchanged, unless its successor is *)
(* held by a command that has not ended or was lost: any number of         *)
(* commands may run, renew, prompt and be interrupted at the same time.    *)
THEOREM SavedLoginsRenew == LoginSpec => []SavedLoginRenews
<1>. QED  BY SavedRenews, LoginStarts, LoginStep, PTL DEF LoginSpec

-----------------------------------------------------------------------------
(* The log tail.                                                           *)

(* What the command knows of the time: its window lies in the past, and    *)
(* before the first answer it begins at the beginning.                     *)
WindowPast ==
  /\ clock \in Nat
  /\ poll \in [does : {"ask", "wait", "sleep", "stopped"}, from : Int, to : Int,
               wake : Int, polled : BOOLEAN]
  /\ poll.does = "wait" => poll.to <= clock
  /\ poll.polled => poll.from + Overlap <= clock
  /\ ~poll.polled => poll.from = 0

EventsOrdered ==
  /\ happened \in [Events -> Int] /\ known \in [Events -> Int]
  /\ \A e \in Events :
       /\ happened[e] # Never => happened[e] \in Nat /\ happened[e] <= clock
       /\ known[e] # Never => happened[e] # Never /\ happened[e] <= known[e]
                                /\ known[e] <= clock

(* The command remembers only what it has printed.                         *)
SeenIsPrinted ==
  /\ printed \in [Events -> Nat]
  /\ seenIds \in Seq(Events)
  /\ \A e \in Range(seenIds) : printed[e] > 0

LogInv == WindowPast /\ EventsOrdered /\ SeenIsPrinted /\ NothingMissed

LEMMA LogStarts == LogInit => LogInv
<1>. SUFFICES ASSUME LogInit  PROVE LogInv
  OBVIOUS
<1>1. Since \in Nat /\ Overlap \in Nat
  BY LogTailAssumption
<1>2. WindowPast
  BY <1>1 DEF LogInit, WindowPast, Never
<1>3. EventsOrdered
  BY <1>1 DEF LogInit, EventsOrdered, Never
<1>4. SeenIsPrinted
  <2>1. seenIds \in Seq(Events) /\ Range(seenIds) = {}
    BY DEF LogInit, Range
  <2>. QED  BY <2>1 DEF LogInit, SeenIsPrinted
<1>5. NothingMissed
  BY DEF LogInit, NothingMissed, InTime
<1>. QED  BY <1>2, <1>3, <1>4, <1>5 DEF LogInv

(* Forgetting adds nothing to what is remembered.                          *)
LEMMA PruneFacts ==
  ASSUME NEW S, NEW s \in Seq(S)
  PROVE  Prune(s) \in Seq(S) /\ Range(Prune(s)) \subseteq Range(s)
<1>1. SEEN_IDS_PRUNE \in Nat /\ Len(s) \in Nat
  BY LogTailAssumption
<1>2. CASE Len(s) > SEEN_IDS_MAX
  <2>. DEFINE m == SEEN_IDS_PRUNE + 1
              p == SubSeq(s, m, Len(s))
  <2>1. m \in Int /\ \A i \in m .. Len(s) : i \in 1 .. Len(s)
    BY <1>1
  <2>2. \A i \in m .. Len(s) : s[i] \in Range(s) /\ s[i] \in S
    BY <2>1, ElementOfSeq DEF Range
  <2>3. p \in Seq(S) /\ p \in Seq(Range(s))
    BY <1>1, <2>1, <2>2, SubSeqProperties
  <2>4. Range(p) \subseteq Range(s)
    BY <2>3, ElementOfSeq DEF Range
  <2>. QED  BY <1>2, <2>3, <2>4 DEF Prune
<1>3. CASE ~(Len(s) > SEEN_IDS_MAX)
  BY <1>3 DEF Prune
<1>. QED  BY <1>2, <1>3

LEMMA FunctionIsSeq ==
  ASSUME NEW S, NEW n \in Nat, NEW f \in [1 .. n -> S]
  PROVE  f \in Seq(S)
<1>1. [1 .. n -> S] \in {[1 .. k -> S] : k \in Nat}
  OBVIOUS
<1>2. f \in UNION {[1 .. k -> S] : k \in Nat}
  BY <1>1
<1>. QED  BY <1>2, SeqDef, Zenon

(* The answer to a poll is remembered by printing it.                      *)
LEMMA PrintFacts ==
  ASSUME SeenIsPrinted, NEW page \in SUBSET Events, PrintNew(page)
  PROVE  /\ SeenIsPrinted'
         /\ \A e \in Events : printed[e] > 0 => printed'[e] > 0
         /\ \A e \in page : printed'[e] > 0
         /\ squeezed' = squeezed \cup (Window \ page)
<1>. DEFINE new == page \ Range(seenIds)
<1>1. /\ printed' = [e \in Events |-> IF e \in new THEN printed[e] + 1 ELSE printed[e]]
      /\ squeezed' = squeezed \cup (Window \ page)
  BY DEF PrintNew
<1>2. PICK order \in SetToSeqs(new) : seenIds' = Prune(seenIds \o order)
  BY DEF PrintNew
<1>3. new \subseteq Events /\ Cardinality(new) \in Nat
  BY FS_Subset, FS_CardinalityType, LogTailAssumption
<1>4. order \in [1 .. Cardinality(new) -> new]
  BY <1>2 DEF SetToSeqs
<1>5. order \in Seq(Events) /\ \A i \in 1 .. Len(order) : order[i] \in new
  <2>1. order \in [1 .. Cardinality(new) -> Events]
    BY <1>3, <1>4
  <2>2. order \in Seq(Events)
    <3>1. PICK n \in Nat : n = Cardinality(new)
      BY <1>3
    <3>. QED  BY <2>1, <3>1, FunctionIsSeq
  <2>3. Len(order) = Cardinality(new)
    BY <1>3, <2>1, <2>2, LenProperties
  <2>. QED  BY <1>4, <2>2, <2>3
<1>6. seenIds \in Seq(Events) /\ printed \in [Events -> Nat]
  BY DEF SeenIsPrinted
<1>7. \A e \in Events : /\ printed'[e] \in Nat
                        /\ printed[e] > 0 => printed'[e] > 0
                        /\ e \in new => printed'[e] > 0
  BY <1>1, <1>6
<1>8. \A e \in page : printed'[e] > 0
  BY <1>7 DEF SeenIsPrinted
<1>9. \A e \in Range(seenIds \o order) : e \in Range(seenIds) \/ e \in new
  <2>. SUFFICES ASSUME NEW i \in 1 .. Len(seenIds \o order)
                PROVE  (seenIds \o order)[i] \in Range(seenIds) \/ (seenIds \o order)[i] \in new
    BY <1>5, <1>6, ConcatProperties, LenProperties DEF Range
  <2>1. CASE i <= Len(seenIds)
    BY <1>5, <1>6, <2>1, ConcatProperties, LenProperties DEF Range
  <2>2. CASE ~(i <= Len(seenIds))
    BY <1>5, <1>6, <2>2, ConcatProperties, LenProperties
  <2>. QED  BY <2>1, <2>2
<1>10. seenIds \o order \in Seq(Events)
  BY <1>5, <1>6, ConcatProperties
<1>11. seenIds' \in Seq(Events) /\ \A e \in Range(seenIds') : printed'[e] > 0
  <2>1. Range(seenIds') \subseteq Range(seenIds \o order) /\ seenIds' \in Seq(Events)
    BY <1>2, <1>10, PruneFacts
  <2>2. \A e \in Range(seenIds) : e \in Events /\ printed[e] > 0
    BY <1>6, ElementOfSeq, LenProperties DEF SeenIsPrinted, Range
  <2>. QED  BY <1>3, <1>7, <1>9, <2>1, <2>2
<1>. QED  BY <1>1, <1>7, <1>8, <1>11 DEF SeenIsPrinted

(* An answer takes the window on: what the service knew of before its end  *)
(* was in this window or in time for an earlier one.                       *)
LEMMA AnswerKeeps ==
  ASSUME LogInv, AnswerPoll
  PROVE  LogInv'
<1>1. WindowPast /\ EventsOrdered /\ SeenIsPrinted /\ NothingMissed
  BY DEF LogInv
<1>2. PICK page \in Pages : PrintNew(page)
  BY DEF AnswerPoll
<1>3. Window \subseteq Events /\ page \subseteq Window
  BY <1>2 DEF Pages, Window
<1>4. /\ SeenIsPrinted'
      /\ \A e \in Events : printed[e] > 0 => printed'[e] > 0
      /\ \A e \in page : printed'[e] > 0
      /\ squeezed' = squeezed \cup (Window \ page)
  BY <1>1, <1>2, <1>3, PrintFacts
<1>5. Overlap \in Nat /\ Interval \in Nat
  BY LogTailAssumption
<1>6. /\ poll' = Rest(Advance(poll, TRUE)) /\ UNCHANGED <<clock, happened, known>>
      /\ poll.does = "wait"
  BY DEF AnswerPoll
<1>7. /\ poll'.from = poll.to - Overlap /\ poll'.polled = TRUE /\ poll'.to = poll.to
      /\ poll'.does = "sleep"
  BY <1>1, <1>5, <1>6 DEF Rest, Advance, WindowPast
<1>8. WindowPast'
  <2>1. PICK does \in {"ask", "wait", "sleep", "stopped"}, from \in Int, to \in Int,
             wake \in Int, polled \in BOOLEAN :
          poll = [does |-> does, from |-> from, to |-> to, wake |-> wake, polled |-> polled]
    BY <1>1 DEF WindowPast
  <2>2. poll' = [does |-> "sleep", from |-> to - Overlap, to |-> to, wake |-> clock + Interval,
                 polled |-> TRUE]
    BY <1>6, <2>1 DEF Rest, Advance
  <2>3. clock \in Nat /\ clock + Interval \in Int /\ to - Overlap \in Int /\ to <= clock
    BY <1>1, <1>5, <1>6, <2>1 DEF WindowPast
  <2>4. poll' \in [does : {"ask", "wait", "sleep", "stopped"}, from : Int, to : Int,
                   wake : Int, polled : BOOLEAN]
    BY <2>1, <2>2, <2>3
  <2>5. (to - Overlap) + Overlap <= clock
    BY <1>5, <2>3
  <2>6. clock' = clock
    BY <1>6
  <2>. QED  BY <2>2, <2>3, <2>4, <2>5, <2>6 DEF WindowPast
<1>9. EventsOrdered'
  BY <1>1, <1>6 DEF EventsOrdered
<1>10. ASSUME NEW e \in Events, InTime(e)', known[e] - happened[e] <= Overlap
       PROVE  printed'[e] > 0 \/ e \in squeezed'
  <2>1. /\ happened[e] # Never /\ known[e] # Never /\ known[e] < poll.to
        /\ happened[e] \in Nat /\ known[e] \in Int /\ happened[e] <= known[e]
        /\ poll.from \in Int /\ poll.to \in Int
    <3>1. happened'[e] # Never /\ known'[e] # Never /\ known'[e] < poll'.from + Overlap
      BY <1>10 DEF InTime
    <3>2. poll.from \in Int /\ poll.to \in Int
      BY <1>1 DEF WindowPast
    <3>3. happened[e] # Never /\ known[e] # Never /\ known[e] \in Int
          /\ happened[e] \in Nat /\ happened[e] <= known[e]
      BY <1>1, <1>6, <3>1 DEF EventsOrdered
    <3>4. known[e] < (poll.to - Overlap) + Overlap
      BY <1>6, <1>7, <3>1
    <3>. QED  BY <1>5, <3>2, <3>3, <3>4
  <2>2. CASE happened[e] >= poll.from
    <3>1. happened[e] \in poll.from .. poll.to
      BY <2>1, <2>2
    <3>2. e \in Window
      BY <2>1, <3>1 DEF Window
    <3>. QED  BY <1>4, <3>2
  <2>3. CASE ~(happened[e] >= poll.from)
    <3>1. poll.polled /\ known[e] < poll.from + Overlap
      BY <1>1, <1>5, <1>10, <2>1, <2>3 DEF WindowPast
    <3>2. InTime(e)
      BY <2>1, <3>1 DEF InTime
    <3>. QED  BY <1>1, <1>4, <1>10, <3>2 DEF NothingMissed
  <2>. QED  BY <2>2, <2>3
<1>11. NothingMissed'
  BY <1>6, <1>10 DEF NothingMissed
<1>. QED  BY <1>4, <1>8, <1>9, <1>11 DEF LogInv

(* A poll that ends without an answer, or is made, or waits: what was      *)
(* answered stays answered.                                                *)
LEMMA PollKeeps ==
  ASSUME LogInv, AskLogs \/ PollFails \/ Wake \/ Stop
  PROVE  LogInv'
<1>1. WindowPast /\ EventsOrdered /\ SeenIsPrinted /\ NothingMissed
  BY DEF LogInv
<1>2. UNCHANGED <<clock, happened, known, seenIds, printed, squeezed>>
  BY DEF AskLogs, PollFails, Wake, Stop
<1>3. /\ poll'.from = poll.from /\ poll'.polled = poll.polled
      /\ WindowPast'
  <2>1. Interval \in Nat
    BY LogTailAssumption
  <2>2. PICK does \in {"ask", "wait", "sleep", "stopped"}, from \in Int, to \in Int,
             wake \in Int, polled \in BOOLEAN :
          poll = [does |-> does, from |-> from, to |-> to, wake |-> wake, polled |-> polled]
    BY <1>1 DEF WindowPast
  <2>3. PICK does2 \in {"ask", "wait", "sleep", "stopped"}, to2 \in Int, wake2 \in Int :
          /\ poll' = [does |-> does2, from |-> from, to |-> to2, wake |-> wake2,
                      polled |-> polled]
          /\ does2 = "wait" => to2 <= clock
    <3>1. CASE AskLogs
      <4>1. poll' = [does |-> "wait", from |-> from, to |-> clock, wake |-> wake,
                     polled |-> polled]
        BY <2>2, <3>1 DEF AskLogs
      <4>2. clock \in Int
        BY <1>1 DEF WindowPast
      <4>. QED  BY <4>1, <4>2
    <3>2. CASE PollFails
      <4>1. poll' = [does |-> "sleep", from |-> from, to |-> to, wake |-> clock + Interval,
                     polled |-> polled]
        BY <2>2, <3>2 DEF PollFails, Rest, Advance
      <4>2. clock + Interval \in Int
        BY <1>1, <2>1 DEF WindowPast
      <4>. QED  BY <4>1, <4>2
    <3>3. CASE Wake
      BY <1>1, <2>2, <3>3 DEF Wake, WindowPast
    <3>4. CASE Stop
      BY <1>1, <2>2, <3>4 DEF Stop, WindowPast
    <3>. QED  BY <3>1, <3>2, <3>3, <3>4
  <2>4. poll'.from = poll.from /\ poll'.polled = poll.polled /\ poll'.does = does2
        /\ poll'.to = to2
    BY <2>2, <2>3
  <2>5. poll' \in [does : {"ask", "wait", "sleep", "stopped"}, from : Int, to : Int,
                   wake : Int, polled : BOOLEAN]
    BY <2>2, <2>3
  <2>. QED  BY <1>1, <1>2, <2>3, <2>4, <2>5 DEF WindowPast
<1>4. EventsOrdered' /\ SeenIsPrinted'
  BY <1>1, <1>2 DEF EventsOrdered, SeenIsPrinted, Range
<1>5. NothingMissed'
  BY <1>1, <1>2, <1>3 DEF NothingMissed, InTime
<1>. QED  BY <1>3, <1>4, <1>5 DEF LogInv

(* What happens, and what the service learns, is no earlier than now, and  *)
(* the answered windows end before now.                                    *)
LEMMA WorldKeeps ==
  ASSUME LogInv, PollTick \/ \E e \in Events : Happen(e) \/ Learn(e)
  PROVE  LogInv'
<1>1. WindowPast /\ EventsOrdered /\ SeenIsPrinted /\ NothingMissed
  BY DEF LogInv
<1>2. UNCHANGED <<poll, seenIds, printed, squeezed>> /\ clock' \in Nat /\ clock <= clock'
  BY <1>1 DEF PollTick, Happen, Learn, WindowPast
<1>3. WindowPast' /\ SeenIsPrinted'
  <2>1. Overlap \in Nat
    BY LogTailAssumption
  <2>. QED  BY <1>1, <1>2, <2>1 DEF WindowPast, SeenIsPrinted, Range
<1>4. CASE PollTick
  <2>1. UNCHANGED <<happened, known>>
    BY <1>4 DEF PollTick
  <2>2. EventsOrdered'
    BY <1>1, <1>2, <2>1 DEF EventsOrdered, Never, WindowPast
  <2>3. NothingMissed'
    BY <1>1, <1>2, <2>1 DEF NothingMissed, InTime
  <2>. QED  BY <1>3, <2>2, <2>3 DEF LogInv
<1>5. CASE \E e \in Events : Happen(e)
  <2>1. PICK e \in Events : Happen(e)
    BY <1>5
  <2>2. /\ happened' = [happened EXCEPT ![e] = clock] /\ happened[e] = Never
        /\ UNCHANGED <<clock, known>>
    BY <2>1 DEF Happen
  <2>3. known[e] = Never
    BY <1>1, <2>2 DEF EventsOrdered
  <2>4. EventsOrdered'
    BY <1>1, <2>2, <2>3 DEF EventsOrdered, Never, WindowPast
  <2>5. NothingMissed'
    BY <1>1, <1>2, <2>2, <2>3 DEF NothingMissed, InTime, EventsOrdered
  <2>. QED  BY <1>3, <2>4, <2>5 DEF LogInv
<1>6. CASE \E e \in Events : Learn(e)
  <2>1. PICK e \in Events : Learn(e)
    BY <1>6
  <2>2. /\ known' = [known EXCEPT ![e] = clock] /\ known[e] = Never /\ happened[e] # Never
        /\ UNCHANGED <<clock, happened>>
    BY <2>1 DEF Learn
  <2>3. EventsOrdered'
    BY <1>1, <2>2 DEF EventsOrdered, Never, WindowPast
  <2>4. ~InTime(e)'
    <3>1. Overlap \in Nat
      BY LogTailAssumption
    <3>. QED  BY <1>1, <1>2, <2>2, <3>1 DEF InTime, WindowPast, EventsOrdered
  <2>5. NothingMissed'
    BY <1>1, <1>2, <2>2, <2>4 DEF NothingMissed, InTime, EventsOrdered
  <2>. QED  BY <1>3, <2>3, <2>5 DEF LogInv
<1>. QED  BY <1>4, <1>5, <1>6

LEMMA LogStep == LogInv /\ [LogNext]_logVars => LogInv'
<1>. SUFFICES ASSUME LogInv, [LogNext]_logVars  PROVE LogInv'
  OBVIOUS
<1>1. CASE UNCHANGED logVars
  BY <1>1 DEF logVars, LogInv, WindowPast, EventsOrdered, SeenIsPrinted, Range,
              NothingMissed, InTime
<1>2. CASE LogNext
  BY <1>2, AnswerKeeps, PollKeeps, WorldKeeps DEF LogNext
<1>. QED  BY <1>1, <1>2

(* The clock, the events and the command keep their types.                 *)
THEOREM LogTypeCorrect == LogSpec => []LogTypeOK
<1>. DEFINE FromEvents == squeezed \subseteq Events
<1>1. LogInit => FromEvents
  BY DEF LogInit
<1>2. FromEvents /\ [LogNext]_logVars => FromEvents'
  BY DEF LogNext, logVars, AskLogs, AnswerPoll, PollFails, Wake, Stop, PollTick, Happen, Learn,
         PrintNew, Window
<1>3. LogInv /\ FromEvents => LogTypeOK
  <2>. SUFFICES ASSUME LogInv, FromEvents  PROVE LogTypeOK
    OBVIOUS
  <2>1. WindowPast /\ EventsOrdered /\ SeenIsPrinted
    BY DEF LogInv
  <2>2. \A e \in Events : /\ happened[e] \in Nat \cup {Never}
                          /\ known[e] \in Nat \cup {Never}
    BY <2>1 DEF EventsOrdered
  <2>3. /\ happened \in [Events -> Nat \cup {Never}]
        /\ known \in [Events -> Nat \cup {Never}]
    <3>1. DOMAIN happened = Events /\ DOMAIN known = Events
      BY <2>1 DEF EventsOrdered
    <3>. DEFINE Times == Nat \cup {Never}
    <3>2. happened = [e \in Events |-> happened[e]] /\ known = [e \in Events |-> known[e]]
      BY <2>1, <3>1 DEF EventsOrdered
    <3>. HIDE DEF Times
    <3>3. happened \in [Events -> Times] /\ known \in [Events -> Times]
      BY <2>2, <3>2 DEF Times
    <3>. QED  BY <3>3 DEF Times
  <2>. QED  BY <2>1, <2>3 DEF LogTypeOK, WindowPast, SeenIsPrinted
<1>. QED  BY <1>1, <1>2, <1>3, LogStarts, LogStep, PTL DEF LogSpec

(* However many polls fail, and whatever the command forgets, an event     *)
(* that the service learned of no later than an overlap after it happened, *)
(* and before the last answered window ended, was printed, unless an       *)
(* answer had no room for it.                                              *)
THEOREM LoggedIsPrinted == LogSpec => []NothingMissed
<1>1. LogInv => NothingMissed
  BY DEF LogInv
<1>. QED  BY <1>1, LogStarts, LogStep, PTL DEF LogSpec

-----------------------------------------------------------------------------
(* The end of the last answered window, and the pause before the next.     *)
LastEnd == poll.from + Overlap

Paced ==
  poll.polled =>
    /\ poll.does = "ask" => LastEnd + Interval <= clock
    /\ poll.does = "wait" => LastEnd + Interval <= poll.to
    /\ poll.does = "sleep" => LastEnd + Interval <= poll.wake

(* An answer adds PageLimit ids at most, and the next one is an Interval   *)
(* later: so many newer ids an event of this age can have.                 *)
Fresh(n, age) == n * Interval <= (PageLimit - 1) * Interval + PageLimit * age

SeenRecently ==
  \A k \in 1 .. Len(seenIds) :
    LET e == seenIds[k]
    IN  /\ happened[e] # Never /\ happened[e] <= LastEnd
        /\ Fresh(Len(seenIds) - k, LastEnd - happened[e])

(* What was printed is remembered, or lies before every window to come.    *)
SeenOrPast ==
  \A e \in Events : printed[e] > 0 =>
    /\ poll.polled /\ happened[e] # Never
    /\ e \in Range(seenIds) \/ happened[e] < poll.from

OnceInv == LogInv /\ Paced /\ SeenRecently /\ SeenOrPast /\ PrintedOnce

LEMMA LogConstants ==
  /\ Interval \in Nat /\ Interval >= 1 /\ PageLimit \in Nat /\ PageLimit >= 1
  /\ Overlap \in Nat /\ SEEN_IDS_MAX \in Nat /\ SEEN_IDS_PRUNE \in Nat
BY LogTailAssumption

LEMMA FreshWhenPrinted ==
  ASSUME NEW n \in Nat, n <= PageLimit - 1, NEW age \in Nat
  PROVE  Fresh(n, age)
<1>1. Interval \in Nat /\ PageLimit \in Nat
  BY LogConstants
<1>2. n * Interval <= (PageLimit - 1) * Interval
  BY <1>1
<1>3. PageLimit * age >= 0
  BY <1>1
<1>4. n * Interval \in Int /\ (PageLimit - 1) * Interval \in Int /\ PageLimit * age \in Int
  BY <1>1
<1>. QED  BY <1>2, <1>3, <1>4 DEF Fresh

LEMMA FreshStays ==
  ASSUME NEW n \in Nat, NEW m \in Nat, m <= PageLimit,
         NEW age \in Int, NEW later \in Int, age + Interval <= later, Fresh(n, age)
  PROVE  Fresh(n + m, later)
<1>1. Interval \in Nat /\ PageLimit \in Nat
  BY LogConstants
<1>2. (n + m) * Interval = n * Interval + m * Interval
  BY <1>1
<1>3. m * Interval <= PageLimit * Interval
  BY <1>1
<1>4. PageLimit * (age + Interval) = PageLimit * age + PageLimit * Interval
  BY <1>1
<1>5. PageLimit * (age + Interval) <= PageLimit * later
  BY <1>1
<1>6. /\ n * Interval \in Int /\ m * Interval \in Int /\ PageLimit * age \in Int
      /\ PageLimit * Interval \in Int /\ PageLimit * later \in Int
      /\ (PageLimit - 1) * Interval \in Int
  BY <1>1
<1>. QED  BY <1>2, <1>3, <1>4, <1>5, <1>6 DEF Fresh

(* What is forgotten is older than a window reaches back.                  *)
LEMMA ForgottenIsPast ==
  ASSUME SeenCoversOverlap, NEW n \in Nat, n >= SEEN_IDS_MAX + 1 - SEEN_IDS_PRUNE,
         NEW age \in Int, Fresh(n, age)
  PROVE  Overlap < age
<1>1. /\ Interval \in Nat /\ PageLimit \in Nat /\ PageLimit >= 1 /\ Overlap \in Nat
      /\ SEEN_IDS_MAX \in Nat /\ SEEN_IDS_PRUNE \in Nat
  BY LogConstants
<1>. DEFINE kept == SEEN_IDS_MAX + 1 - SEEN_IDS_PRUNE
            rest == PageLimit - 1
<1>2. kept \in Int /\ rest \in Int /\ n >= kept
      /\ SEEN_IDS_MAX + 2 - SEEN_IDS_PRUNE - PageLimit = kept - rest
  BY <1>1
<1>3. (kept - rest) * Interval > PageLimit * Overlap
  BY <1>2 DEF SeenCoversOverlap
<1>4. n * Interval <= rest * Interval + PageLimit * age
  BY DEF Fresh
<1>. HIDE DEF kept, rest
<1>5. kept * Interval <= n * Interval
  BY <1>1, <1>2
<1>6. (kept - rest) * Interval = kept * Interval - rest * Interval
  BY <1>1, <1>2
<1>7. /\ kept * Interval \in Int /\ rest * Interval \in Int /\ n * Interval \in Int
      /\ PageLimit * age \in Int /\ PageLimit * Overlap \in Int
  BY <1>1, <1>2
<1>8. PageLimit * Overlap < PageLimit * age
  BY <1>3, <1>4, <1>5, <1>6, <1>7
<1>9. age <= Overlap => PageLimit * age <= PageLimit * Overlap
  BY <1>1
<1>. QED  BY <1>1, <1>7, <1>8, <1>9

(* An order of the new events is as long as a page at most and has each.   *)
LEMMA OrderFacts ==
  ASSUME NEW page \in Pages, NEW new \in SUBSET page, NEW order \in SetToSeqs(new)
  PROVE  /\ order \in Seq(Events) /\ Len(order) \in Nat /\ Len(order) <= PageLimit
         /\ \A i \in 1 .. Len(order) : order[i] \in new
         /\ \A e \in new : \E i \in 1 .. Len(order) : order[i] = e
<1>1. PageLimit \in Nat /\ IsFiniteSet(Events)
  BY LogTailAssumption
<1>2. page \subseteq Window /\ Window \subseteq Events
  BY DEF Pages, Window
<1>3. IsFiniteSet(page) /\ Cardinality(page) <= PageLimit
  <2>1. IsFiniteSet(page)
    BY <1>1, <1>2, FS_Subset
  <2>2. CASE Cardinality(Window) <= PageLimit
    BY <2>1, <2>2 DEF Pages
  <2>3. CASE ~(Cardinality(Window) <= PageLimit)
    BY <1>1, <2>1, <2>3 DEF Pages
  <2>. QED  BY <2>1, <2>2, <2>3
<1>4. /\ IsFiniteSet(new) /\ Cardinality(new) \in Nat
      /\ Cardinality(new) <= Cardinality(page) /\ Cardinality(page) \in Nat
  BY <1>3, FS_Subset, FS_CardinalityType
<1>5. PICK n \in Nat : n = Cardinality(new)
  BY <1>4
<1>6. order \in [1 .. n -> new] /\ \A i, j \in 1 .. n : i # j => order[i] # order[j]
  BY <1>5 DEF SetToSeqs
<1>7. order \in Seq(Events) /\ Len(order) = n
  <2>1. order \in [1 .. n -> Events]
    BY <1>2, <1>6
  <2>2. order \in Seq(Events)
    BY <1>5, <2>1, FunctionIsSeq
  <2>. QED  BY <1>5, <2>1, <2>2, LenProperties
<1>8. order \in Surjection(1 .. n, new)
  <2>1. order \in Injection(1 .. n, new)
    BY <1>6 DEF Injection, IsInjective
  <2>2. IsFiniteSet(1 .. n) /\ Cardinality(1 .. n) = n
    BY <1>5, FS_Interval
  <2>3. PICK D : D = 1 .. n
    OBVIOUS
  <2>4. Cardinality(D) = Cardinality(new) <=> order \in Surjection(D, new)
    <3>1. order \in Injection(D, new) /\ IsFiniteSet(new)
      BY <1>4, <2>1, <2>3
    <3>. QED  BY <3>1, FS_Injection
  <2>. QED  BY <1>5, <2>2, <2>3, <2>4
<1>9. \A e \in new : \E i \in 1 .. n : order[i] = e
  BY <1>8 DEF Surjection
<1>. QED  BY <1>3, <1>4, <1>5, <1>6, <1>7, <1>9, <1>1

(* Forgetting takes the first ids away, and only when there are too many.  *)
LEMMA PruneShifts ==
  ASSUME NEW s \in Seq(Events)
  PROVE  \E d \in {0, SEEN_IDS_PRUNE} :
           /\ d <= Len(s) /\ d # 0 => Len(s) >= SEEN_IDS_MAX + 1
           /\ Prune(s) \in Seq(Events) /\ Len(Prune(s)) = Len(s) - d
           /\ \A k \in 1 .. Len(s) - d : Prune(s)[k] = s[k + d]
<1>1. /\ SEEN_IDS_PRUNE \in Nat /\ SEEN_IDS_MAX \in Nat /\ SEEN_IDS_PRUNE <= SEEN_IDS_MAX
      /\ Len(s) \in Nat
  BY LogTailAssumption
<1>2. CASE Len(s) > SEEN_IDS_MAX
  <2>. DEFINE m == SEEN_IDS_PRUNE + 1
              p == SubSeq(s, m, Len(s))
  <2>1. \A i \in m .. Len(s) : s[i] \in Events
    BY <1>1, ElementOfSeq
  <2>2. /\ p \in Seq(Events) /\ Len(p) = Len(s) - m + 1
        /\ \A i \in 1 .. Len(s) - m + 1 : p[i] = s[m + i - 1]
    BY <1>1, <1>2, <2>1, SubSeqProperties
  <2>3. Len(s) - m + 1 = Len(s) - SEEN_IDS_PRUNE
    BY <1>1
  <2>4. \A k \in 1 .. Len(s) - SEEN_IDS_PRUNE : p[k] = s[k + SEEN_IDS_PRUNE]
    <3>. SUFFICES ASSUME NEW k \in 1 .. Len(s) - SEEN_IDS_PRUNE
                  PROVE  p[k] = s[k + SEEN_IDS_PRUNE]
      OBVIOUS
    <3>1. m + k - 1 = k + SEEN_IDS_PRUNE
      BY <1>1
    <3>. QED  BY <2>2, <2>3, <3>1
  <2>5. Prune(s) = p
    BY <1>2 DEF Prune
  <2>. HIDE DEF p
  <2>. QED  BY <1>1, <1>2, <2>2, <2>3, <2>4, <2>5
<1>3. CASE ~(Len(s) > SEEN_IDS_MAX)
  BY <1>1, <1>3 DEF Prune
<1>. QED  BY <1>2, <1>3

LEMMA OnceStarts == LogInit => OnceInv
<1>. SUFFICES ASSUME LogInit  PROVE OnceInv
  OBVIOUS
<1>1. LogInv
  BY LogStarts
<1>2. Paced /\ SeenRecently /\ SeenOrPast /\ PrintedOnce
  BY DEF LogInit, Paced, SeenRecently, SeenOrPast, PrintedOnce
<1>. QED  BY <1>1, <1>2 DEF OnceInv

(* The events of an answer become the newest ones remembered, those that   *)
(* are forgotten for it lie before every window to come.                   *)
LEMMA AnswerPrintsOnce ==
  ASSUME SeenCoversOverlap, OnceInv, AnswerPoll, LogInv'
  PROVE  OnceInv'
<1>1. /\ WindowPast /\ EventsOrdered /\ SeenIsPrinted
      /\ Paced /\ SeenRecently /\ SeenOrPast /\ PrintedOnce
  BY DEF OnceInv, LogInv
<1>2. /\ PageLimit \in Nat /\ PageLimit >= 1 /\ Interval \in Nat /\ Overlap \in Nat
      /\ SEEN_IDS_MAX \in Nat /\ SEEN_IDS_PRUNE \in Nat
  BY LogConstants
<1>3. /\ poll.does = "wait" /\ poll.from \in Int /\ poll.to \in Int /\ poll.to <= clock
      /\ clock \in Int /\ UNCHANGED <<clock, happened, known>>
      /\ seenIds \in Seq(Events) /\ printed \in [Events -> Nat] /\ Len(seenIds) \in Nat
  BY <1>1, LenProperties DEF AnswerPoll, WindowPast, SeenIsPrinted
<1>4. /\ poll'.from = poll.to - Overlap /\ poll'.polled = TRUE /\ poll'.does = "sleep"
      /\ poll'.wake = clock + Interval /\ LastEnd' = poll.to
  <2>1. /\ poll'.from = poll.to - Overlap /\ poll'.polled = TRUE /\ poll'.does = "sleep"
        /\ poll'.wake = clock + Interval
    <3>1. PICK does \in {"ask", "wait", "sleep", "stopped"}, from \in Int, to \in Int,
               wake \in Int, polled \in BOOLEAN :
            poll = [does |-> does, from |-> from, to |-> to, wake |-> wake, polled |-> polled]
      BY <1>1 DEF WindowPast
    <3>. QED  BY <3>1 DEF AnswerPoll, Rest, Advance
  <2>. QED  BY <1>2, <1>3, <2>1 DEF LastEnd
<1>5. PICK page \in Pages : PrintNew(page)
  BY DEF AnswerPoll
<1>6. PICK new \in SUBSET page : new = page \ Range(seenIds)
  OBVIOUS
<1>7. PICK order \in SetToSeqs(new) : seenIds' = Prune(seenIds \o order)
  BY <1>5, <1>6 DEF PrintNew
<1>8. printed' = [e \in Events |-> IF e \in new THEN printed[e] + 1 ELSE printed[e]]
  BY <1>5, <1>6 DEF PrintNew
<1>9. \A e \in new : /\ e \in Events /\ e \notin Range(seenIds) /\ happened[e] # Never
                     /\ happened[e] \in Nat
                     /\ poll.from <= happened[e] /\ happened[e] <= poll.to
  BY <1>1, <1>3, <1>6 DEF Pages, Window, EventsOrdered
<1>10. /\ order \in Seq(Events) /\ Len(order) \in Nat /\ Len(order) <= PageLimit
       /\ \A i \in 1 .. Len(order) : order[i] \in new
       /\ \A e \in new : \E i \in 1 .. Len(order) : order[i] = e
  BY OrderFacts
<1>11. PICK all \in Seq(Events) :
          /\ all = seenIds \o order /\ Len(all) = Len(seenIds) + Len(order)
          /\ \A i \in 1 .. Len(seenIds) : all[i] = seenIds[i]
          /\ \A i \in 1 .. Len(order) : all[Len(seenIds) + i] = order[i]
  <2>1. PICK all \in Seq(Events) : all = seenIds \o order
    BY <1>3, <1>10, ConcatProperties
  <2>2. /\ Len(all) = Len(seenIds) + Len(order)
        /\ \A i \in 1 .. Len(seenIds) + Len(order) :
             all[i] = IF i <= Len(seenIds) THEN seenIds[i] ELSE order[i - Len(seenIds)]
    BY <1>3, <1>10, <2>1, ConcatProperties
  <2>3. \A i \in 1 .. Len(seenIds) : all[i] = seenIds[i]
    BY <1>3, <1>10, <2>2
  <2>4. \A i \in 1 .. Len(order) : all[Len(seenIds) + i] = order[i]
    <3>. SUFFICES ASSUME NEW i \in 1 .. Len(order)
                  PROVE  all[Len(seenIds) + i] = order[i]
      OBVIOUS
    <3>1. /\ Len(seenIds) + i \in 1 .. Len(seenIds) + Len(order)
          /\ ~(Len(seenIds) + i <= Len(seenIds)) /\ Len(seenIds) + i - Len(seenIds) = i
      BY <1>3, <1>10
    <3>. QED  BY <2>2, <3>1
  <2>. QED  BY <2>1, <2>2, <2>3, <2>4
<1>12. \A e \in Events : poll.polled \/ printed[e] = 0
  BY <1>1, <1>3 DEF SeenOrPast
<1>13. poll.polled => LastEnd + Interval <= poll.to /\ poll.from <= poll'.from
  BY <1>1, <1>2, <1>3, <1>4 DEF Paced, LastEnd
<1>14. ASSUME NEW k \in 1 .. Len(all)
       PROVE  /\ all[k] \in Events /\ happened[all[k]] # Never /\ happened[all[k]] \in Int
              /\ happened[all[k]] <= poll.to
              /\ Fresh(Len(all) - k, poll.to - happened[all[k]])
  <2>1. CASE k <= Len(seenIds)
    <3>1. k \in 1 .. Len(seenIds) /\ all[k] = seenIds[k]
      BY <1>3, <1>10, <1>11, <1>14, <2>1
    <3>2. PICK e \in Events : e = seenIds[k]
      BY <1>3, <3>1, ElementOfSeq
    <3>3. /\ happened[e] # Never /\ happened[e] <= LastEnd
          /\ Fresh(Len(seenIds) - k, LastEnd - happened[e])
      BY <1>1, <3>1, <3>2 DEF SeenRecently
    <3>4. happened[e] \in Int /\ LastEnd \in Int
      <4>1. happened \in [Events -> Int]
        BY <1>1 DEF EventsOrdered
      <4>2. LastEnd \in Int
        BY <1>2, <1>3 DEF LastEnd
      <4>. QED  BY <4>1, <4>2
    <3>5. printed[e] > 0
      BY <1>1, <1>3, <3>1, <3>2, LenProperties DEF SeenIsPrinted, Range
    <3>6. LastEnd + Interval <= poll.to
      <4>1. poll.polled
        BY <1>3, <1>12, <3>2, <3>5
      <4>. QED  BY <1>13, <4>1
    <3>7. Fresh((Len(seenIds) - k) + Len(order), poll.to - happened[e])
      <4>1. Len(seenIds) - k \in Nat
        BY <1>3, <3>1
      <4>2. (LastEnd - happened[e]) + Interval <= poll.to - happened[e]
        <5>1. Interval \in Int /\ poll.to \in Int
          BY <1>2, <1>3
        <5>. HIDE DEF LastEnd
        <5>. QED  BY <3>4, <3>6, <5>1
      <4>3. LastEnd - happened[e] \in Int /\ poll.to - happened[e] \in Int
        BY <1>3, <3>4
      <4>. DEFINE n == Len(seenIds) - k
                  age == LastEnd - happened[e]
                  later == poll.to - happened[e]
      <4>4. n \in Nat /\ age \in Int /\ later \in Int /\ age + Interval <= later /\ Fresh(n, age)
        BY <3>3, <4>1, <4>2, <4>3
      <4>. HIDE DEF n, age, later
      <4>5. Fresh(n + Len(order), later)
        BY <1>10, <4>4, FreshStays
      <4>. QED  BY <4>5 DEF n, later
    <3>8. (Len(seenIds) - k) + Len(order) = Len(all) - k
      BY <1>3, <1>10, <1>11
    <3>9. happened[e] <= poll.to
      BY <1>2, <1>3, <3>3, <3>4, <3>6
    <3>10. Fresh(Len(all) - k, poll.to - happened[e]) /\ all[k] = e
      BY <3>1, <3>2, <3>7, <3>8
    <3>. QED  BY <3>3, <3>4, <3>9, <3>10
  <2>2. CASE ~(k <= Len(seenIds))
    <3>1. PICK i \in 1 .. Len(order) : k = Len(seenIds) + i
      <4>1. k - Len(seenIds) \in 1 .. Len(order) /\ k = Len(seenIds) + (k - Len(seenIds))
        BY <1>3, <1>10, <1>11, <1>14, <2>2
      <4>. QED  BY <4>1
    <3>2. PICK e \in new : e = all[k]
      BY <1>10, <1>11, <3>1
    <3>3. Len(all) - k \in Nat /\ Len(all) - k <= PageLimit - 1
      BY <1>2, <1>3, <1>10, <1>11, <3>1
    <3>4. poll.to - happened[e] \in Nat
      BY <1>3, <1>9
    <3>5. Fresh(Len(all) - k, poll.to - happened[e])
      BY <3>3, <3>4, FreshWhenPrinted
    <3>. QED  BY <1>9, <3>2, <3>5
  <2>. QED  BY <2>1, <2>2
<1>15. PICK d \in {0, SEEN_IDS_PRUNE} :
          /\ d <= Len(all) /\ d # 0 => Len(all) >= SEEN_IDS_MAX + 1
          /\ seenIds' \in Seq(Events) /\ Len(seenIds') = Len(all) - d
          /\ \A k \in 1 .. Len(all) - d : seenIds'[k] = all[k + d]
  BY <1>7, <1>11, PruneShifts
<1>16. d \in Nat /\ Len(all) \in Nat
  BY <1>2, <1>3, <1>10, <1>11
<1>17. Paced'
  BY <1>2, <1>3, <1>4 DEF Paced
<1>18. SeenRecently'
  <2>. SUFFICES ASSUME NEW k \in 1 .. Len(seenIds')
                PROVE  /\ happened[seenIds'[k]] # Never /\ happened[seenIds'[k]] <= poll.to
                       /\ Fresh(Len(seenIds') - k, poll.to - happened[seenIds'[k]])
    BY <1>3, <1>4 DEF SeenRecently, Fresh
  <2>1. k + d \in 1 .. Len(all) /\ seenIds'[k] = all[k + d]
    BY <1>15, <1>16
  <2>2. Len(all) - (k + d) = Len(seenIds') - k
    BY <1>15, <1>16
  <2>. QED  BY <1>14, <2>1, <2>2
<1>19. ASSUME NEW e \in Events, printed'[e] > 0
       PROVE  /\ happened[e] # Never
              /\ e \in Range(seenIds') \/ happened[e] < poll'.from
  <2>1. CASE \E k \in 1 .. Len(all) : all[k] = e
    <3>1. PICK k \in 1 .. Len(all) : all[k] = e
      BY <2>1
    <3>2. CASE k > d
      <4>1. k - d \in 1 .. Len(all) - d /\ (k - d) + d = k
        BY <1>16, <3>1, <3>2
      <4>2. seenIds'[k - d] = e /\ k - d \in 1 .. Len(seenIds')
        BY <1>15, <3>1, <4>1
      <4>3. DOMAIN seenIds' = 1 .. Len(seenIds')
        BY <1>15, LenProperties
      <4>4. e \in Range(seenIds')
        BY <4>2, <4>3 DEF Range
      <4>. QED  BY <1>14, <3>1, <4>4
    <3>3. CASE ~(k > d)
      <4>1. d = SEEN_IDS_PRUNE /\ Len(all) >= SEEN_IDS_MAX + 1
        BY <1>15, <1>16, <3>1, <3>3
      <4>2. Len(all) - k \in Nat /\ Len(all) - k >= SEEN_IDS_MAX + 1 - SEEN_IDS_PRUNE
        BY <1>2, <1>16, <3>1, <3>3, <4>1
      <4>3. /\ happened[e] # Never /\ happened[e] \in Int
            /\ Fresh(Len(all) - k, poll.to - happened[e])
        BY <1>14, <3>1
      <4>4. Overlap < poll.to - happened[e]
        <5>1. poll.to - happened[e] \in Int
          BY <1>3, <4>3
        <5>. QED  BY <4>2, <4>3, <5>1, ForgottenIsPast
      <4>5. poll.to \in Int /\ Overlap \in Int /\ poll'.from = poll.to - Overlap
        BY <1>2, <1>3, <1>4
      <4>6. happened[e] < poll'.from
        BY <4>3, <4>4, <4>5
      <4>. QED  BY <4>3, <4>6
    <3>. QED  BY <3>2, <3>3
  <2>2. CASE ~ \E k \in 1 .. Len(all) : all[k] = e
    <3>1. e \notin Range(seenIds)
      <4>1. \A k \in 1 .. Len(seenIds) : k \in 1 .. Len(all)
        BY <1>3, <1>10, <1>11
      <4>. QED  BY <1>3, <1>11, <2>2, <4>1, LenProperties DEF Range
    <3>2. e \notin new
      <4>1. \A i \in 1 .. Len(order) : Len(seenIds) + i \in 1 .. Len(all)
        BY <1>3, <1>10, <1>11
      <4>. QED  BY <1>10, <1>11, <2>2, <4>1
    <3>3. printed[e] > 0
      BY <1>8, <1>19, <3>2
    <3>4. happened[e] # Never /\ happened[e] < poll.from /\ poll.polled
      BY <1>1, <3>1, <3>3 DEF SeenOrPast
    <3>5. happened[e] \in Int /\ poll'.from \in Int
      BY <1>1, <1>2, <1>3, <1>4 DEF EventsOrdered
    <3>. QED  BY <1>3, <1>13, <3>4, <3>5
  <2>. QED  BY <2>1, <2>2
<1>20. SeenOrPast'
  BY <1>3, <1>4, <1>19 DEF SeenOrPast
<1>21. PrintedOnce'
  <2>. SUFFICES ASSUME NEW e \in Events  PROVE printed'[e] <= 1
    BY DEF PrintedOnce
  <2>1. printed[e] \in Nat /\ printed[e] <= 1
    BY <1>1, <1>3 DEF PrintedOnce
  <2>2. CASE e \in new
    <3>1. happened[e] \in Int /\ poll.from <= happened[e] /\ e \notin Range(seenIds)
      BY <1>9, <2>2
    <3>2. ~(printed[e] > 0)
      BY <1>1, <1>3, <3>1 DEF SeenOrPast
    <3>. QED  BY <1>8, <2>1, <2>2, <3>2
  <2>3. CASE e \notin new
    BY <1>8, <2>1, <2>3
  <2>. QED  BY <2>2, <2>3
<1>. QED  BY <1>17, <1>18, <1>20, <1>21 DEF OnceInv

(* The other steps print nothing, and nobody asks before the pause is over. *)
LEMMA OthersPrintNothing ==
  ASSUME OnceInv, LogInv',
         \/ AskLogs \/ PollFails \/ Wake \/ Stop \/ PollTick
         \/ \E e \in Events : Happen(e) \/ Learn(e)
  PROVE  OnceInv'
<1>1. /\ WindowPast /\ EventsOrdered /\ SeenIsPrinted
      /\ Paced /\ SeenRecently /\ SeenOrPast /\ PrintedOnce
  BY DEF OnceInv, LogInv
<1>2. /\ UNCHANGED <<seenIds, printed>> /\ clock \in Nat /\ clock' \in Nat /\ clock <= clock'
      /\ poll'.from = poll.from /\ poll'.polled = poll.polled
  <2>1. PICK does \in {"ask", "wait", "sleep", "stopped"}, from \in Int, to \in Int,
             wake \in Int, polled \in BOOLEAN :
          poll = [does |-> does, from |-> from, to |-> to, wake |-> wake, polled |-> polled]
    BY <1>1 DEF WindowPast
  <2>2. UNCHANGED <<seenIds, printed>> /\ clock \in Nat /\ (clock' = clock \/ clock' = clock + 1)
    BY <1>1 DEF AskLogs, PollFails, Wake, Stop, PollTick, Happen, Learn, WindowPast
  <2>3. poll'.from = poll.from /\ poll'.polled = poll.polled
    <3>1. CASE AskLogs
      BY <2>1, <3>1 DEF AskLogs
    <3>2. CASE PollFails
      BY <2>1, <3>2 DEF PollFails, Rest, Advance
    <3>3. CASE Wake
      BY <2>1, <3>3 DEF Wake
    <3>4. CASE Stop
      BY <2>1, <3>4 DEF Stop
    <3>5. CASE PollTick \/ \E e \in Events : Happen(e) \/ Learn(e)
      BY <3>5 DEF PollTick, Happen, Learn
    <3>. QED  BY <3>1, <3>2, <3>3, <3>4, <3>5
  <2>. QED  BY <2>2, <2>3
<1>3. \A e \in Events : happened[e] # Never => happened'[e] = happened[e]
  BY <1>1 DEF AskLogs, PollFails, Wake, Stop, PollTick, Happen, Learn, EventsOrdered
<1>4. LastEnd' = LastEnd /\ LastEnd \in Int /\ Interval \in Nat
  BY <1>1, <1>2, LogConstants DEF LastEnd, WindowPast
<1>5. Paced'
  <2>1. PICK does \in {"ask", "wait", "sleep", "stopped"}, from \in Int, to \in Int,
             wake \in Int, polled \in BOOLEAN :
          poll = [does |-> does, from |-> from, to |-> to, wake |-> wake, polled |-> polled]
    BY <1>1 DEF WindowPast
  <2>2. CASE AskLogs
    BY <1>1, <1>2, <1>4, <2>1, <2>2 DEF AskLogs, Paced
  <2>3. CASE PollFails
    <3>1. poll'.does = "sleep" /\ poll'.wake = clock + Interval /\ poll.does = "wait"
      BY <2>1, <2>3 DEF PollFails, Rest, Advance
    <3>2. poll.to <= clock
      BY <1>1, <3>1 DEF WindowPast
    <3>. QED  BY <1>1, <1>2, <1>4, <2>1, <3>1, <3>2 DEF Paced
  <2>4. CASE Wake
    BY <1>1, <1>2, <1>4, <2>1, <2>4 DEF Wake, Paced
  <2>5. CASE Stop
    BY <1>1, <1>2, <1>4, <2>1, <2>5 DEF Stop, Paced
  <2>6. CASE PollTick \/ \E e \in Events : Happen(e) \/ Learn(e)
    <3>1. poll' = poll
      BY <2>6 DEF PollTick, Happen, Learn
    <3>. QED  BY <1>1, <1>2, <1>4, <2>1, <3>1 DEF Paced
  <2>. QED  BY <2>2, <2>3, <2>4, <2>5, <2>6
<1>6. SeenRecently'
  <2>. SUFFICES ASSUME NEW k \in 1 .. Len(seenIds)
                PROVE  LET e == seenIds[k]
                       IN  /\ happened'[e] # Never /\ happened'[e] <= LastEnd
                           /\ Fresh(Len(seenIds) - k, LastEnd - happened'[e])
    BY <1>2, <1>4 DEF SeenRecently, Fresh
  <2>1. PICK e \in Events : e = seenIds[k]
    BY <1>1, ElementOfSeq DEF SeenIsPrinted
  <2>. QED  BY <1>1, <1>3, <2>1 DEF SeenRecently
<1>7. SeenOrPast' /\ PrintedOnce'
  BY <1>1, <1>2, <1>3 DEF SeenOrPast, PrintedOnce, Range
<1>. QED  BY <1>5, <1>6, <1>7 DEF OnceInv

LEMMA OnceStep == SeenCoversOverlap /\ OnceInv /\ [LogNext]_logVars => OnceInv'
<1>. SUFFICES ASSUME SeenCoversOverlap, OnceInv, [LogNext]_logVars  PROVE OnceInv'
  OBVIOUS
<1>1. LogInv'
  BY LogStep DEF OnceInv
<1>2. CASE UNCHANGED logVars
  BY <1>1, <1>2 DEF logVars, OnceInv, Paced, SeenRecently, SeenOrPast, PrintedOnce, LastEnd,
                    Fresh, Range
<1>3. CASE LogNext
  BY <1>1, <1>3, AnswerPrintsOnce, OthersPrintNothing DEF LogNext
<1>. QED  BY <1>2, <1>3

(* If what is remembered covers the answers of an overlap, as it does with *)
(* the defaults of the command, no event is printed a second time.         *)
THEOREM PrintedAtMostOnce ==
  ASSUME SeenCoversOverlap
  PROVE  LogSpec => []PrintedOnce
<1>1. OnceInv => PrintedOnce
  BY DEF OnceInv
<1>2. OnceInv /\ [LogNext]_logVars => OnceInv'
  BY OnceStep
<1>. QED  BY <1>1, <1>2, OnceStarts, PTL DEF LogSpec

-----------------------------------------------------------------------------
(* The rate limiter.                                                       *)

(* A pending plan belongs to the latest burst.  What it counts starts at 1 *)
(* but for an attempt that counts on a row it found.                       *)
PlanFits(p) ==
  /\ p.kind # "idle" /\ p.count >= 1
  /\ burst.began <= p.at /\ p.at <= now
  /\ p.kind \in {"insert", "restart", "unlock"} => p.count = 1
  /\ p.kind = "count" => p.count <= maxAttempts
  /\ p.kind = "lock" => p.count = maxAttempts + 1
  /\ p.kind # "insert" => row # NoRow

(* A count past the limit is only written together with a lock.            *)
RowFits == row.locked = Unlocked => row.count <= maxAttempts

(* Bursts do not overlap, and an attempt that was let through lies in its  *)
(* burst.                                                                  *)
Ordered(hist, last) ==
  \A a \in hist :
    /\ a.began <= a.at /\ a.at <= now
    /\ a.burst <= last.nr
    /\ a.burst = last.nr => a.began = last.began
    /\ a.burst < last.nr => a.at <= last.began
    /\ \A c \in hist : /\ a.burst = c.burst => a.began = c.began
                       /\ a.burst < c.burst => a.at <= c.began

(* Somebody of a's burst wrote less than c.                                *)
Below(hist, a, c) == \E b \in hist : b.burst = a.burst /\ b.count < c

(* Within a window of the beginning of a burst, an attempt of a later one  *)
(* has counted on.                                                         *)
CountsOn(hist) ==
  \A a, b \in hist :
    a.burst < b.burst /\ b.at <= a.began + windowSeconds => Below(hist, a, b.count)

(* What the row still tells of a burst that began within the last window:  *)
(* it counts the burst, it was updated since, and a lock outlasts the      *)
(* window.                                                                 *)
Told(hist, a, what) ==
  /\ what # NoRow /\ Below(hist, a, what.count + 1)
  /\ what.updated >= a.began
  /\ what.locked = Unlocked \/ what.locked > a.began + windowSeconds

RowTells ==
  \A a \in accepted : now <= a.began + windowSeconds => Told(accepted, a, row)

(* What a pending plan knows of an earlier burst, of the row, and of a     *)
(* lock of its own burst.                                                  *)
PlanKnows(p) ==
  /\ \A a \in accepted :
       a.burst < burst.nr /\ p.at <= a.began + windowSeconds => Below(accepted, a, p.count)
  /\ p.kind = "insert" => row = NoRow \/ \E a \in accepted : a.burst = burst.nr
  /\ p.kind # "unlock" => row.locked = Unlocked \/ row.locked >= burst.began + lockoutSeconds

LimitInv ==
  /\ TypeOK /\ RowFits /\ burst.began <= now /\ burst.nr <= calls
  /\ Ordered(accepted, burst) /\ CountsOn(accepted) /\ RowTells
  /\ \A r \in Requests : plan[r] # Idle => PlanFits(plan[r]) /\ PlanKnows(plan[r])

-----------------------------------------------------------------------------
LEMMA LimitInit == Init => LimitInv
BY RateLimiterAssumption
   DEF Init, LimitInv, TypeOK, RowFits, Ordered, CountsOn, RowTells, NoRow, Rows, Unlocked,
       Idle, Plan, Plans

LEMMA TickKeeps == LimitInv /\ Tick => LimitInv'
<1>. SUFFICES ASSUME LimitInv, Tick  PROVE LimitInv'
  OBVIOUS
<1>. USE DEF LimitInv
<1>1. /\ now \in Nat /\ now' = now + 1 /\ now' \in 0 .. MaxTime
      /\ UNCHANGED <<row, plan, calls, burst, accepted>>
  BY RateLimiterAssumption DEF Tick, TypeOK
<1>2. TypeOK' /\ RowFits' /\ CountsOn(accepted)'
  BY <1>1 DEF TypeOK, RowFits, CountsOn, Below
<1>3. Ordered(accepted, burst)' /\ burst'.began <= now' /\ burst'.nr <= calls'
  BY <1>1 DEF Ordered, TypeOK
<1>4. RowTells'
  BY <1>1, RateLimiterAssumption DEF RowTells, Told, Below, TypeOK
<1>5. ASSUME NEW r \in Requests, plan[r] # Idle
      PROVE  (PlanFits(plan[r]) /\ PlanKnows(plan[r]))'
  <2>1. plan[r] \in Plans
    BY DEF TypeOK
  <2>. QED  BY <1>1, <1>5, <2>1 DEF PlanFits, PlanKnows, Below, Plans
<1>. QED  BY <1>1, <1>2, <1>3, <1>4, <1>5

(* What is decided fits the row that was read; and an attempt soon after   *)
(* an earlier burst counts on.                                             *)
LEMMA DecisionFits ==
  ASSUME LimitInv, Decision # Idle
  PROVE  /\ Decision \in Plans /\ Decision.at = now
         /\ Decision.kind # "idle" /\ Decision.count >= 1
         /\ Decision.kind \in {"insert", "restart", "unlock"} => Decision.count = 1
         /\ Decision.kind = "count" => Decision.count <= maxAttempts
         /\ Decision.kind = "lock" => Decision.count = maxAttempts + 1
         /\ Decision.kind = "insert" <=> row = NoRow
         /\ Decision.kind # "unlock" => row.locked = Unlocked
         /\ \A a \in accepted :
              now <= a.began + windowSeconds => Below(accepted, a, Decision.count)
<1>. USE DEF LimitInv
<1>1. /\ now \in Nat /\ maxAttempts \in Nat \ {0}
      /\ row.count \in 0 .. maxAttempts + 1 /\ row.locked \in Int /\ row.updated \in Nat
      /\ windowSeconds \in Nat /\ accepted \subseteq [at : Nat, burst : Nat, began : Nat, count : Nat]
  BY RateLimiterAssumption DEF TypeOK, Rows
<1>2. NoRow.locked = Unlocked
  BY DEF NoRow
<1>3. CASE row = NoRow
  <2>1. Decision = Plan("insert", 1, now)
    BY <1>3 DEF Decision
  <2>2. \A a \in accepted : ~(now <= a.began + windowSeconds)
    BY <1>3 DEF RowTells, Told
  <2>. QED  BY <1>1, <1>2, <1>3, <2>1, <2>2 DEF Plan, Plans
<1>4. CASE row # NoRow /\ row.locked # Unlocked
  <2>1. ~(row.locked > now) /\ Decision = Plan("unlock", 1, now)
    BY <1>4 DEF Decision
  <2>2. \A a \in accepted : ~(now <= a.began + windowSeconds)
    BY <1>1, <1>4, <2>1 DEF RowTells, Told
  <2>. QED  BY <1>1, <1>4, <2>1, <2>2 DEF Plan, Plans
<1>5. CASE row # NoRow /\ row.locked = Unlocked /\ now - row.updated > windowSeconds
  <2>1. Decision = Plan("restart", 1, now)
    BY <1>5 DEF Decision
  <2>2. \A a \in accepted : ~(now <= a.began + windowSeconds)
    BY <1>1, <1>5 DEF RowTells, Told
  <2>. QED  BY <1>1, <1>5, <2>1, <2>2 DEF Plan, Plans
<1>6. CASE row # NoRow /\ row.locked = Unlocked /\ ~(now - row.updated > windowSeconds)
  <2>. DEFINE next == row.count + 1
  <2>1. Decision = Plan(IF next > maxAttempts THEN "lock" ELSE "count", next, now)
    BY <1>6 DEF Decision
  <2>2. next <= maxAttempts + 1 /\ next \in 1 .. maxAttempts + 1
    BY <1>1, <1>6 DEF RowFits
  <2>3. \A a \in accepted : now <= a.began + windowSeconds => Below(accepted, a, next)
    BY DEF RowTells, Told
  <2>. HIDE DEF next
  <2>. QED  BY <1>1, <1>6, <2>1, <2>2, <2>3 DEF Plan, Plans
<1>. QED  BY <1>3, <1>4, <1>5, <1>6

LEMMA CheckKeeps ==
  ASSUME LimitInv, NEW r \in Requests, Check(r)
  PROVE  LimitInv'
<1>. USE DEF LimitInv
<1>. DEFINE alone == \A q \in Requests : plan[q] = Idle
<1>1. /\ plan[r] = Idle /\ calls' = calls + 1 /\ calls < MaxCalls
      /\ burst' = IF alone THEN [nr |-> calls', began |-> now] ELSE burst
      /\ plan' = [plan EXCEPT ![r] = Decision]
      /\ UNCHANGED <<now, row, accepted>>
  BY DEF Check
<1>2. /\ now \in Nat /\ calls \in Nat /\ MaxCalls \in Nat /\ windowSeconds \in Nat
      /\ lockoutSeconds \in Nat /\ burst.nr \in Nat /\ burst.began \in Nat
      /\ accepted \subseteq [at : Nat, burst : Nat, began : Nat, count : Nat]
      /\ plan \in [Requests -> Plans]
  BY RateLimiterAssumption DEF TypeOK
<1>3. /\ burst'.nr \in 0 .. MaxCalls /\ burst'.began \in 0 .. MaxTime
      /\ burst' \in [nr : 0 .. MaxCalls, began : 0 .. MaxTime]
      /\ burst'.began <= now' /\ burst'.nr <= calls' /\ calls' \in 0 .. MaxCalls
  <2>1. CASE alone
    BY <1>1, <1>2, <2>1 DEF TypeOK
  <2>2. CASE ~alone
    BY <1>1, <1>2, <2>2 DEF TypeOK
  <2>. QED  BY <2>1, <2>2
<1>4. Decision \in Plans
  <2>1. CASE Decision = Idle
    BY <2>1, RateLimiterAssumption DEF Idle, Plan, Plans
  <2>. QED  BY <2>1, DecisionFits
<1>5. TypeOK' /\ RowFits' /\ CountsOn(accepted)' /\ RowTells'
  BY <1>1, <1>3, <1>4 DEF TypeOK, RowFits, CountsOn, RowTells, Told, Below
<1>6. Ordered(accepted, burst)'
  <2>1. CASE alone
    <3>1. burst'.nr = calls + 1 /\ burst'.began = now
      BY <1>1, <2>1
    <3>2. \A a \in accepted : a.burst < burst'.nr /\ a.at <= now
      BY <1>2, <3>1 DEF Ordered
    <3>. QED  BY <1>1, <1>2, <3>1, <3>2 DEF Ordered
  <2>2. CASE ~alone
    BY <1>1, <2>2 DEF Ordered
  <2>. QED  BY <2>1, <2>2
<1>7. ASSUME NEW q \in Requests, plan'[q] # Idle
      PROVE  (PlanFits(plan[q]) /\ PlanKnows(plan[q]))'
  <2>1. CASE q = r
    <3>1. plan'[q] = Decision /\ Decision # Idle
      BY <1>1, <1>2, <1>7, <2>1
    <3>. DEFINE p == Decision
    <3>2. /\ p.kind # "idle" /\ p.count >= 1 /\ p.at = now
          /\ p.kind \in {"insert", "restart", "unlock"} => p.count = 1
          /\ p.kind = "count" => p.count <= maxAttempts
          /\ p.kind = "lock" => p.count = maxAttempts + 1
          /\ p.kind = "insert" <=> row = NoRow
          /\ p.kind # "unlock" => row.locked = Unlocked
          /\ \A a \in accepted :
               now <= a.began + windowSeconds => Below(accepted, a, p.count)
      BY <3>1, DecisionFits
    <3>. HIDE DEF p
    <3>3. plan'[q] = p
      BY <3>1 DEF p
    <3>4. PlanFits(plan[q])'
      BY <1>1, <1>2, <1>3, <3>2, <3>3 DEF PlanFits
    <3>5. PlanKnows(plan[q])'
      BY <1>1, <3>2, <3>3 DEF PlanKnows, Below
    <3>. QED  BY <3>4, <3>5
  <2>2. CASE q # r
    <3>1. plan'[q] = plan[q] /\ ~alone
      BY <1>1, <1>2, <1>7, <2>2
    <3>2. burst' = burst
      BY <1>1, <3>1
    <3>3. PlanFits(plan[q]) /\ PlanKnows(plan[q])
      BY <1>7, <3>1
    <3>. QED  BY <1>1, <3>1, <3>2, <3>3 DEF PlanFits, PlanKnows, Below
  <2>. QED  BY <2>1, <2>2
<1>. QED  BY <1>3, <1>5, <1>6, <1>7

(* More attempts let through: what was below stays below.                  *)
LEMMA BelowStays ==
  ASSUME NEW hist, NEW more, hist \subseteq more, NEW a, NEW c, Below(hist, a, c)
  PROVE  Below(more, a, c)
BY DEF Below

(* The typing of a pending plan's write, and what it leaves in the row.    *)
LEMMA WriteFacts ==
  ASSUME LimitInv, NEW r \in Requests, Write(r)
  PROVE  LET p == plan[r]
         IN  /\ p # Idle /\ p \in Plans /\ PlanFits(p) /\ PlanKnows(p)
             /\ row' = Written(p)
             /\ accepted' = IF p.kind = "lock" THEN accepted ELSE accepted \cup {Attempt(p)}
             /\ plan' = [plan EXCEPT ![r] = Idle]
             /\ UNCHANGED <<now, calls, burst>>
             /\ now \in Nat /\ row \in Rows /\ row.locked \in Int /\ row.updated \in Nat
             /\ row.count \in Nat /\ windowSeconds \in Nat /\ lockoutSeconds \in Nat
             /\ lockoutSeconds > windowSeconds /\ maxAttempts \in Nat
             /\ burst.nr \in Nat /\ burst.began \in Nat /\ calls \in Nat
             /\ p.at \in Nat /\ p.count \in Nat
             /\ accepted \subseteq [at : Nat, burst : Nat, began : Nat, count : Nat]
<1>1. plan[r] \in Plans /\ plan[r] # Idle
  BY DEF LimitInv, TypeOK, Write
<1>2. PlanFits(plan[r]) /\ PlanKnows(plan[r])
  BY <1>1 DEF LimitInv
<1>. QED  BY <1>1, <1>2, RateLimiterAssumption DEF LimitInv, TypeOK, Rows, Plans, Write

(* What a write leaves in the row.                                         *)
LEMMA WrittenRow ==
  ASSUME row \in Rows, NEW p, p.count \in 0 .. maxAttempts + 1, p.at \in Nat,
         p.kind \in {"insert", "restart", "unlock", "lock", "count"}
  PROVE  /\ p.kind = "insert" =>
              Written(p) = IF row = NoRow THEN [count |-> 1, locked |-> Unlocked, updated |-> p.at]
                           ELSE row
         /\ p.kind \in {"restart", "count"} =>
              Written(p) = [count |-> p.count, locked |-> row.locked, updated |-> p.at]
         /\ p.kind = "unlock" =>
              Written(p) = [count |-> 1, locked |-> Unlocked, updated |-> p.at]
         /\ p.kind = "lock" =>
              Written(p) = [count |-> p.count, locked |-> p.at + lockoutSeconds, updated |-> p.at]
BY DEF Written

(* What a write adds to the history, and to the row.                       *)
LEMMA WriteHistory ==
  ASSUME LimitInv, NEW r \in Requests, Write(r)
  PROVE  TypeOK' /\ RowFits' /\ Ordered(accepted, burst)' /\ CountsOn(accepted)'
<1>. DEFINE p == plan[r]
            new == Attempt(p)
<1>1. /\ p # Idle /\ p \in Plans /\ PlanFits(p) /\ PlanKnows(p)
      /\ row' = Written(p)
      /\ accepted' = IF p.kind = "lock" THEN accepted ELSE accepted \cup {new}
      /\ plan' = [plan EXCEPT ![r] = Idle]
      /\ UNCHANGED <<now, calls, burst>>
      /\ now \in Nat /\ row \in Rows /\ row.locked \in Int /\ row.updated \in Nat
      /\ row.count \in Nat /\ lockoutSeconds \in Nat /\ maxAttempts \in Nat
      /\ windowSeconds \in Nat
      /\ burst.nr \in Nat /\ burst.began \in Nat /\ calls \in Nat
      /\ p.at \in Nat /\ p.count \in Nat
      /\ accepted \subseteq [at : Nat, burst : Nat, began : Nat, count : Nat]
  BY WriteFacts
<1>2. /\ new.at = p.at /\ new.burst = burst.nr /\ new.began = burst.began
      /\ new.count = p.count
      /\ p.kind # "lock" =>
           new \in [at : Nat, burst : 0 .. MaxCalls, began : 0 .. MaxTime, count : 1 .. maxAttempts]
  BY <1>1, RateLimiterAssumption DEF Attempt, PlanFits, Plans, LimitInv, TypeOK
<1>3. p.count \in 0 .. maxAttempts + 1 /\ p.kind \in {"insert", "restart", "unlock", "lock", "count"}
  BY <1>1 DEF PlanFits, Plans
<1>. HIDE DEF p, new
<1>4. Written(p) \in Rows /\ (Written(p).locked = Unlocked => Written(p).count <= maxAttempts)
  <2>1. CASE p.kind = "insert"
    BY <1>1, <2>1, RateLimiterAssumption DEF Written, Rows, Unlocked, LimitInv, RowFits
  <2>2. CASE p.kind \in {"restart", "count"}
    <3>1. Written(p) = [count |-> p.count, locked |-> row.locked, updated |-> p.at]
      BY <1>1, <1>3, <2>2, WrittenRow
    <3>2. p.count <= maxAttempts
      BY <1>1, <2>2, RateLimiterAssumption DEF PlanFits
    <3>. QED  BY <1>1, <1>3, <3>1, <3>2 DEF Rows
  <2>3. CASE p.kind = "unlock"
    BY <1>1, <2>3, RateLimiterAssumption DEF Written, Rows, Unlocked
  <2>4. CASE p.kind = "lock"
    <3>1. p.at + lockoutSeconds \in Nat /\ p.at + lockoutSeconds # Unlocked
      BY <1>1 DEF Unlocked
    <3>. QED  BY <1>1, <1>3, <2>4, <3>1 DEF Written, Rows
  <2>. QED  BY <1>3, <2>1, <2>2, <2>3, <2>4
<1>5. TypeOK' /\ RowFits'
  <2>1. plan' \in [Requests -> Plans]
    BY <1>1, RateLimiterAssumption DEF LimitInv, TypeOK, Idle, Plan, Plans
  <2>2. accepted' \subseteq
          [at : Nat, burst : 0 .. MaxCalls, began : 0 .. MaxTime, count : 1 .. maxAttempts]
    BY <1>1, <1>2 DEF LimitInv, TypeOK
  <2>. QED  BY <1>1, <1>4, <2>1, <2>2 DEF LimitInv, TypeOK, RowFits
<1>6. \A a \in accepted : a.burst <= burst.nr /\ (a.burst < burst.nr => a.at <= burst.began)
                          /\ (a.burst = burst.nr => a.began = burst.began)
  BY DEF LimitInv, Ordered
<1>7. Ordered(accepted, burst)'
  <2>1. burst.began <= p.at /\ p.at <= now
    BY <1>1 DEF PlanFits
  <2>2. Ordered(accepted, burst)
    BY DEF LimitInv
  <2>3. CASE p.kind = "lock"
    BY <1>1, <2>2, <2>3 DEF Ordered
  <2>4. CASE p.kind # "lock"
    <3>1. accepted' = accepted \cup {new} /\ now' = now /\ burst' = burst
      BY <1>1, <2>4
    <3>2. /\ new.began <= new.at /\ new.at <= now /\ new.burst = burst.nr
          /\ new.began = burst.began
      BY <1>2, <2>1
    <3>3. ASSUME NEW a \in accepted'
          PROVE  /\ a.began <= a.at /\ a.at <= now /\ a.burst <= burst.nr
                 /\ a.burst = burst.nr => a.began = burst.began
                 /\ a.burst < burst.nr => a.at <= burst.began
      BY <1>1, <2>2, <3>1, <3>2 DEF Ordered
    <3>4. ASSUME NEW a \in accepted', NEW c \in accepted'
          PROVE  /\ a.burst = c.burst => a.began = c.began
                 /\ a.burst < c.burst => a.at <= c.began
      <4>1. CASE a \in accepted /\ c \in accepted
        BY <2>2, <4>1 DEF Ordered
      <4>2. CASE c = new
        BY <3>2, <3>3, <4>2
      <4>3. CASE a = new /\ c \in accepted
        BY <1>1, <1>6, <3>2, <4>3
      <4>. QED  BY <3>1, <4>1, <4>2, <4>3
    <3>. QED  BY <3>1, <3>3, <3>4 DEF Ordered
  <2>. QED  BY <2>3, <2>4
<1>8. CountsOn(accepted)'
  <2>1. accepted \subseteq accepted'
    BY <1>1
  <2>2. ASSUME NEW a \in accepted', NEW b \in accepted', a.burst < b.burst,
               b.at <= a.began + windowSeconds
        PROVE  Below(accepted', a, b.count)
    <3>1. a \in accepted
      <4>1. CASE a = new
        BY <1>1, <1>2, <1>6, <2>2, <4>1
      <4>. QED  BY <1>1, <4>1
    <3>2. Below(accepted, a, b.count)
      <4>1. CASE b \in accepted
        BY <2>2, <3>1, <4>1 DEF LimitInv, CountsOn
      <4>2. CASE b = new
        BY <1>1, <1>2, <2>2, <3>1, <4>2 DEF PlanKnows
      <4>. QED  BY <1>1, <4>1, <4>2
    <3>. QED  BY <2>1, <3>2, BelowStays
  <2>. QED  BY <1>1, <2>2 DEF CountsOn
<1>. QED  BY <1>5, <1>7, <1>8

(* What the row tells of a burst, it tells after a write: of the burst of  *)
(* the writer, which counted, or of an earlier one, which the writer       *)
(* counted on.                                                             *)
LEMMA WriteTells ==
  ASSUME LimitInv, NEW r \in Requests, Write(r)
  PROVE  RowTells'
<1>. DEFINE p == plan[r]
            new == Attempt(p)
<1>1. /\ p # Idle /\ p \in Plans /\ PlanFits(p) /\ PlanKnows(p)
      /\ row' = Written(p)
      /\ accepted' = IF p.kind = "lock" THEN accepted ELSE accepted \cup {new}
      /\ UNCHANGED <<now, calls, burst>>
      /\ now \in Nat /\ row \in Rows /\ row.locked \in Int /\ row.updated \in Nat
      /\ row.count \in Nat /\ lockoutSeconds \in Nat /\ maxAttempts \in Nat
      /\ windowSeconds \in Nat /\ lockoutSeconds > windowSeconds
      /\ burst.nr \in Nat /\ burst.began \in Nat
      /\ p.at \in Nat /\ p.count \in Nat
      /\ accepted \subseteq [at : Nat, burst : Nat, began : Nat, count : Nat]
  BY WriteFacts
<1>2. /\ new.at = p.at /\ new.burst = burst.nr /\ new.began = burst.began
      /\ new.count = p.count
  BY DEF Attempt
<1>3. /\ p.kind \in {"insert", "restart", "unlock", "lock", "count"} /\ p.count >= 1
      /\ p.count \in 0 .. maxAttempts + 1
  BY <1>1 DEF PlanFits, Plans
<1>. HIDE DEF p, new
<1>4. accepted \subseteq accepted' /\ (p.kind # "lock" => new \in accepted')
  BY <1>1
<1>5. Ordered(accepted, burst) /\ burst.began <= p.at /\ p.at <= now
  BY <1>1 DEF LimitInv, PlanFits
<1>6. ASSUME NEW a \in accepted', now <= a.began + windowSeconds, p.kind # "insert"
      PROVE  Told(accepted', a, row')
  <2>1. a.burst <= burst.nr /\ a.burst \in Nat /\ a.began \in Nat
    BY <1>1, <1>2, <1>5 DEF Ordered
  <2>2. a.began <= burst.began /\ (a.burst = burst.nr => a.began = burst.began)
    <3>1. CASE a \in accepted
      BY <1>1, <1>5, <2>1, <3>1 DEF Ordered
    <3>2. CASE a = new
      BY <1>1, <1>2, <3>2
    <3>. QED  BY <1>1, <3>1, <3>2
  <2>3. row'.count = p.count /\ row'.updated = p.at
    <3>1. p.kind = "unlock" => p.count = 1
      BY <1>1 DEF PlanFits
    <3>. QED  BY <1>1, <1>3, <1>6, <3>1, WrittenRow
  <2>4. row' # NoRow
    BY <1>3, <2>3 DEF NoRow
  <2>5. row'.updated >= a.began
    BY <1>1, <1>5, <2>1, <2>2, <2>3
  <2>6. Below(accepted', a, p.count + 1) /\ (a.burst < burst.nr => p.kind # "unlock")
    <3>1. CASE a.burst < burst.nr
      <4>1. a \in accepted
        BY <1>1, <1>2, <3>1
      <4>2. Below(accepted, a, p.count)
        BY <1>1, <1>5, <1>6, <2>1, <3>1, <4>1 DEF PlanKnows
      <4>3. PICK b \in accepted : b.burst = a.burst /\ b.count < p.count
        BY <4>2 DEF Below
      <4>4. b.count >= 1
        BY <4>3, RateLimiterAssumption DEF LimitInv, TypeOK
      <4>5. p.count # 1 /\ b.count < p.count + 1
        BY <1>1, <4>3, <4>4
      <4>. QED  BY <1>1, <1>4, <4>3, <4>5 DEF Below, PlanFits
    <3>2. CASE a.burst = burst.nr /\ p.kind # "lock"
      BY <1>1, <1>2, <1>4, <3>2 DEF Below
    <3>3. CASE a.burst = burst.nr /\ p.kind = "lock"
      <4>1. a \in accepted' /\ a.count \in 1 .. maxAttempts
        BY <1>1, <3>3 DEF LimitInv, TypeOK
      <4>2. p.count = maxAttempts + 1
        BY <1>1, <3>3 DEF PlanFits
      <4>3. a.count < p.count + 1
        BY <1>1, <4>1, <4>2
      <4>. QED  BY <1>1, <3>3, <4>1, <4>3 DEF Below
    <3>. QED  BY <1>1, <2>1, <3>1, <3>2, <3>3
  <2>7. row'.locked = Unlocked \/ row'.locked > a.began + windowSeconds
    <3>1. CASE p.kind = "unlock"
      BY <1>1, <3>1 DEF Written
    <3>2. CASE p.kind = "lock"
      <4>1. row'.locked = p.at + lockoutSeconds
        BY <1>1, <3>2 DEF Written
      <4>. QED  BY <1>1, <1>5, <2>1, <2>2, <4>1
    <3>3. CASE p.kind \in {"restart", "count"}
      <4>1. row'.locked = row.locked
        BY <1>1, <1>3, <3>3, WrittenRow
      <4>2. row.locked = Unlocked \/ row.locked >= burst.began + lockoutSeconds
        BY <1>1, <3>3 DEF PlanKnows
      <4>. QED  BY <1>1, <2>1, <2>2, <4>1, <4>2
    <3>. QED  BY <1>3, <1>6, <3>1, <3>2, <3>3
  <2>. QED  BY <2>3, <2>4, <2>5, <2>6, <2>7 DEF Told
<1>7. ASSUME NEW a \in accepted', now <= a.began + windowSeconds, p.kind = "insert"
      PROVE  Told(accepted', a, row')
  <2>1. CASE row = NoRow
    <3>1. row' = [count |-> 1, locked |-> Unlocked, updated |-> p.at]
      BY <1>1, <1>7, <2>1 DEF Written
    <3>2. a = new
      <4>1. ~(a \in accepted)
        BY <1>7, <2>1 DEF LimitInv, RowTells, Told
      <4>. QED  BY <1>1, <4>1
    <3>3. p.count = 1
      BY <1>1, <1>7 DEF PlanFits
    <3>4. row' # NoRow /\ row'.updated >= a.began /\ row'.locked = Unlocked
      BY <1>1, <1>2, <1>5, <3>1, <3>2 DEF NoRow
    <3>5. Below(accepted', a, row'.count + 1)
      BY <1>1, <1>2, <1>4, <1>7, <3>1, <3>2, <3>3 DEF Below
    <3>. QED  BY <3>4, <3>5 DEF Told
  <2>2. CASE row # NoRow
    <3>1. row' = row
      BY <1>1, <1>7, <2>2 DEF Written
    <3>2. PICK c \in accepted : c.burst = burst.nr
      BY <1>1, <1>7, <2>2 DEF PlanKnows
    <3>3. CASE a \in accepted
      <4>1. Told(accepted, a, row)
        BY <1>7, <3>3 DEF LimitInv, RowTells
      <4>. QED  BY <1>4, <3>1, <4>1 DEF Told, Below
    <3>4. CASE a = new
      <4>1. c.began = a.began /\ c.burst = a.burst
        BY <1>2, <1>5, <3>2, <3>4 DEF Ordered
      <4>2. Told(accepted, c, row)
        BY <1>7, <4>1 DEF LimitInv, RowTells
      <4>. QED  BY <1>4, <3>1, <4>1, <4>2 DEF Told, Below
    <3>. QED  BY <1>1, <3>3, <3>4
  <2>. QED  BY <2>1, <2>2
<1>. QED  BY <1>1, <1>6, <1>7 DEF RowTells

(* The plans of the others after a write.                                  *)
LEMMA WriteKeeps ==
  ASSUME LimitInv, NEW r \in Requests, Write(r)
  PROVE  LimitInv'
<1>. DEFINE p == plan[r]
            new == Attempt(p)
<1>1. /\ p # Idle /\ p \in Plans /\ PlanFits(p) /\ PlanKnows(p)
      /\ row' = Written(p)
      /\ accepted' = IF p.kind = "lock" THEN accepted ELSE accepted \cup {new}
      /\ plan' = [plan EXCEPT ![r] = Idle]
      /\ UNCHANGED <<now, calls, burst>>
      /\ now \in Nat /\ row \in Rows /\ row.locked \in Int /\ row.updated \in Nat
      /\ row.count \in Nat /\ lockoutSeconds \in Nat /\ maxAttempts \in Nat
      /\ burst.nr \in Nat /\ burst.began \in Nat
      /\ p.at \in Nat /\ p.count \in Nat
  BY WriteFacts
<1>2. new.burst = burst.nr
  BY DEF Attempt
<1>3. /\ p.kind \in {"insert", "restart", "unlock", "lock", "count"} /\ p.count >= 1
      /\ p.count \in 0 .. maxAttempts + 1
  BY <1>1 DEF PlanFits, Plans
<1>. HIDE DEF p, new
<1>4. row' # NoRow \/ row' = row
  <2>1. row'.count # 0 \/ row' = row
    BY <1>1, <1>3, WrittenRow
  <2>. QED  BY <2>1 DEF NoRow
<1>5. row # NoRow => row' # NoRow
  BY <1>4
<1>6. ASSUME NEW q \in Requests, plan'[q] # Idle
      PROVE  (PlanFits(plan[q]) /\ PlanKnows(plan[q]))'
  <2>. DEFINE o == plan[q]
  <2>1. q # r /\ plan'[q] = o
    BY <1>1, <1>6 DEF LimitInv, TypeOK
  <2>2. o # Idle /\ PlanFits(o) /\ PlanKnows(o)
    BY <1>6, <2>1 DEF LimitInv
  <2>. HIDE DEF o
  <2>3. PlanFits(plan[q])'
    BY <1>1, <1>5, <2>1, <2>2 DEF PlanFits
  <2>4. ASSUME NEW a \in accepted', a.burst < burst.nr, o.at <= a.began + windowSeconds
        PROVE  Below(accepted', a, o.count)
    <3>1. a \in accepted
      BY <1>1, <1>2, <2>4
    <3>2. Below(accepted, a, o.count)
      BY <2>2, <2>4, <3>1 DEF PlanKnows
    <3>. QED  BY <1>1, <3>2, BelowStays
  <2>5. o.kind = "insert" => row' = NoRow \/ \E a \in accepted' : a.burst = burst.nr
    <3>1. CASE p.kind = "lock"
      <4>1. row # NoRow
        BY <1>1, <3>1 DEF PlanFits
      <4>. QED  BY <1>1, <2>2, <3>1, <4>1 DEF PlanKnows
    <3>2. CASE p.kind # "lock"
      BY <1>1, <1>2, <3>2
    <3>. QED  BY <3>1, <3>2
  <2>6. o.kind # "unlock" => row'.locked = Unlocked \/ row'.locked >= burst.began + lockoutSeconds
    <3>1. row.locked = row'.locked \/ row'.locked = Unlocked \/ row'.locked = p.at + lockoutSeconds
      <4>1. CASE p.kind = "insert"
        BY <1>1, <4>1 DEF Written
      <4>2. CASE p.kind = "unlock"
        BY <1>1, <4>2 DEF Written
      <4>3. CASE p.kind = "lock"
        BY <1>1, <4>3 DEF Written
      <4>4. CASE p.kind \in {"restart", "count"}
        BY <1>1, <1>3, <4>4, WrittenRow
      <4>. QED  BY <1>3, <4>1, <4>2, <4>3, <4>4
    <3>2. burst.began <= p.at
      BY <1>1 DEF PlanFits
    <3>. QED  BY <1>1, <2>2, <3>1, <3>2 DEF PlanKnows
  <2>7. PlanKnows(plan[q])'
    BY <1>1, <2>1, <2>4, <2>5, <2>6 DEF PlanKnows
  <2>. QED  BY <2>3, <2>7
<1>7. (burst.began <= now /\ burst.nr <= calls)'
  BY <1>1 DEF LimitInv
<1>. QED  BY <1>6, <1>7, WriteHistory, WriteTells DEF LimitInv

LEMMA FailKeeps ==
  ASSUME LimitInv, NEW r \in Requests, Fail(r)
  PROVE  LimitInv'
<1>1. /\ plan' = [plan EXCEPT ![r] = Idle]
      /\ UNCHANGED <<now, row, calls, burst, accepted>>
  BY DEF Fail
<1>2. plan' \in [Requests -> Plans]
  BY <1>1, RateLimiterAssumption DEF LimitInv, TypeOK, Idle, Plan, Plans
<1>3. \A q \in Requests : plan'[q] # Idle => plan'[q] = plan[q]
  BY <1>1 DEF LimitInv, TypeOK
<1>4. (\A q \in Requests : plan[q] # Idle => PlanFits(plan[q]) /\ PlanKnows(plan[q]))'
  BY <1>1, <1>3 DEF LimitInv, PlanFits, PlanKnows, Below
<1>. QED  BY <1>1, <1>2, <1>4
          DEF LimitInv, TypeOK, RowFits, Ordered, CountsOn, RowTells, Told, Below

LEMMA LimitStep == LimitInv /\ [Next]_vars => LimitInv'
<1>. SUFFICES ASSUME LimitInv, [Next]_vars  PROVE LimitInv'
  OBVIOUS
<1>1. CASE UNCHANGED vars
  BY <1>1 DEF vars, LimitInv, TypeOK, RowFits, Ordered, CountsOn, RowTells, Told, Below,
              PlanFits, PlanKnows
<1>2. CASE Next
  BY <1>2, TickKeeps, CheckKeeps, WriteKeeps, FailKeeps DEF Next
<1>. QED  BY <1>1, <1>2

-----------------------------------------------------------------------------
(* For every number of requests, limit, window and lockout longer than the *)
(* window: LimitInv is inductive, whatever overlaps and fails.             *)
THEOREM LimitInvariant == Spec => []LimitInv
BY LimitInit, LimitStep, PTL DEF Spec

LEMMA LeastOfSet ==
  ASSUME NEW T, T \subseteq Nat, T # {}
  PROVE  \E x \in T : \A y \in T : x <= y
<1>. DEFINE R == OpToRel(<, Nat)
<1>1. IsWellFoundedOn(R, Nat)
  BY NatLessThanWellFounded
<1>2. \A x, y \in Nat : <<y, x>> \notin R => x <= y
  BY DEF OpToRel
<1>. HIDE DEF R
<1>3. PICK x \in T : \A y \in T : ~ (<<y, x>> \in R)
  BY <1>1, WFMin, Zenon
<1>4. ASSUME NEW y \in T  PROVE x <= y
  <2>1. x \in Nat /\ y \in Nat
    OBVIOUS
  <2>. QED  BY <1>2, <1>3, <2>1
<1>. QED  BY <1>4

(* What the bursts of a window have written.                               *)
Counts(these, n) == {a.count : a \in {b \in these : b.burst = n}}
Least(these, n) == CHOOSE c \in Counts(these, n) : \A d \in Counts(these, n) : c <= d

LEMMA LeastFacts ==
  ASSUME NEW these, these \subseteq [at : Nat, burst : Nat, began : Nat, count : Nat],
         NEW n \in Bursts(these)
  PROVE  /\ Least(these, n) \in Counts(these, n)
         /\ \A d \in Counts(these, n) : Least(these, n) <= d
<1>1. Counts(these, n) \subseteq Nat /\ Counts(these, n) # {}
  BY DEF Counts, Bursts
<1>2. \E c \in Counts(these, n) : \A d \in Counts(these, n) : c <= d
  BY <1>1, LeastOfSet
<1>. QED  BY <1>2 DEF Least

(* Of two bursts that both began within the window, the later has counted  *)
(* further than the earlier.                                               *)
LEMMA LaterCountsMore ==
  ASSUME LimitInv, NEW t \in Nat, NEW these, these = In(accepted, t, t + windowSeconds),
         NEW i \in Bursts(these), NEW j \in Bursts(these), i < j,
         \A a \in these : a.burst = i => a.began >= t
  PROVE  Least(these, i) < Least(these, j)
<1>1. /\ these \subseteq accepted /\ windowSeconds \in Nat
      /\ accepted \subseteq [at : Nat, burst : Nat, began : Nat, count : Nat]
      /\ \A a \in these : t <= a.at /\ a.at <= t + windowSeconds
  BY RateLimiterAssumption DEF LimitInv, TypeOK, In
<1>2. PICK b \in these : b.burst = j /\ b.count = Least(these, j)
  BY <1>1, LeastFacts DEF Counts
<1>3. PICK a \in these : a.burst = i
  BY DEF Bursts
<1>4. b.at <= a.began + windowSeconds
  BY <1>1, <1>2, <1>3
<1>5. PICK c \in accepted : c.burst = i /\ c.count < b.count
  <2>1. Below(accepted, a, b.count)
    BY <1>1, <1>2, <1>3, <1>4 DEF LimitInv, CountsOn
  <2>. QED  BY <1>3, <2>1 DEF Below
<1>6. c \in these
  <2>1. c.began = a.began /\ c.began <= c.at /\ c.at <= b.began /\ b.began <= b.at
    BY <1>1, <1>2, <1>3, <1>5 DEF LimitInv, Ordered
  <2>2. t <= c.at /\ c.at <= t + windowSeconds
    BY <1>1, <1>2, <1>3, <1>5, <2>1
  <2>. QED  BY <1>5, <2>2 DEF In
<1>7. Least(these, i) \in Nat /\ Least(these, i) <= c.count
  BY <1>1, <1>5, <1>6, LeastFacts DEF Counts
<1>. QED  BY <1>1, <1>2, <1>5, <1>7

(* The bursts that began in the window have counts of their own between 1  *)
(* and the limit, so there are no more of them; and one more may have been *)
(* under way when the window opened.                                       *)
THEOREM LimitKept == Spec => []BurstsWithinLimit
<1>1. LimitInv => BurstsWithinLimit
  <2>. SUFFICES ASSUME LimitInv, NEW t \in 0 .. MaxTime
                PROVE  LET these == In(accepted, t, t + windowSeconds)
                       IN  Cardinality(Bursts(these))
                             <= maxAttempts + (IF \E a \in these : a.began < t THEN 1 ELSE 0)
    BY DEF BurstsWithinLimit
  <2>. DEFINE these == In(accepted, t, t + windowSeconds)
              early == {a.burst : a \in {b \in these : b.began < t}}
              young == Bursts(these) \ early
              rank == [n \in young |-> Least(these, n)]
  <2>1. /\ t \in Nat /\ maxAttempts \in Nat /\ MaxCalls \in Nat
        /\ these = In(accepted, t, t + windowSeconds) /\ these \subseteq accepted
        /\ accepted \subseteq [at : Nat, burst : Nat, began : Nat, count : Nat]
        /\ \A a \in these : t <= a.at /\ a.burst \in 0 .. MaxCalls /\ a.count \in 1 .. maxAttempts
    BY RateLimiterAssumption DEF LimitInv, TypeOK, In
  <2>. HIDE DEF these
  <2>2. IsFiniteSet(Bursts(these)) /\ early \subseteq Bursts(these)
    <3>1. Bursts(these) \subseteq 0 .. MaxCalls /\ early \subseteq Bursts(these)
      BY <2>1 DEF Bursts
    <3>2. IsFiniteSet(0 .. MaxCalls)
      BY <2>1, FS_Interval
    <3>. QED  BY <3>1, <3>2, FS_Subset
  <2>3. Cardinality(young) <= maxAttempts
    <3>1. \A n \in young : rank[n] \in 1 .. maxAttempts
      BY <2>1, LeastFacts DEF Counts
    <3>2. ASSUME NEW i \in young, NEW j \in young, i < j  PROVE rank[i] < rank[j]
      <4>1. \A a \in these : a.burst = i => a.began >= t
        BY <2>1
      <4>. QED  BY <2>1, <3>2, <4>1, LaterCountsMore
    <3>3. young \subseteq Nat
      BY <2>1 DEF Bursts
    <3>4. \A i, j \in young : rank[i] = rank[j] => i = j
      BY <3>1, <3>2, <3>3
    <3>5. rank \in Injection(young, 1 .. maxAttempts)
      BY <3>1, <3>4 DEF Injection, IsInjective
    <3>. HIDE DEF rank
    <3>6. IsFiniteSet(1 .. maxAttempts) /\ Cardinality(1 .. maxAttempts) = maxAttempts
      BY <2>1, FS_Interval
    <3>. QED  BY <3>5, <3>6, FS_Injection
  <2>4. \A i, j \in early : i = j
    <3>. SUFFICES ASSUME NEW a \in these, NEW b \in these, a.began < t, b.began < t,
                         a.burst < b.burst
                  PROVE  FALSE
      BY <2>1
    <3>. QED  BY <2>1 DEF LimitInv, Ordered
  <2>5. CASE early = {}
    <3>1. young = Bursts(these)
      BY <2>5
    <3>2. Cardinality(Bursts(these)) \in Nat
      BY <2>2, FS_CardinalityType
    <3>. QED  BY <2>1, <2>3, <3>1, <3>2
  <2>6. CASE early # {}
    <3>1. PICK i \in early : early = {i}
      BY <2>4, <2>6
    <3>2. Cardinality(Bursts(these)) = Cardinality(young) + 1
      <4>1. i \in Bursts(these) /\ young = Bursts(these) \ {i}
        BY <2>2, <3>1
      <4>. HIDE DEF young
      <4>2. Cardinality(young) = Cardinality(Bursts(these)) - 1
        BY <2>2, <4>1, FS_RemoveElement
      <4>. QED  BY <2>2, <4>2, FS_CardinalityType
    <3>3. \E a \in these : a.began < t
      BY <2>6
    <3>4. Cardinality(young) \in Nat
      BY <2>2, FS_Subset, FS_CardinalityType
    <3>. QED  BY <2>1, <2>3, <3>2, <3>3, <3>4
  <2>. QED  BY <2>5, <2>6
<1>. QED  BY <1>1, LimitInvariant, PTL
=============================================================================
