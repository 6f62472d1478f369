------------------------------ MODULE MCServing ------------------------------
(* Small instances, for TLC, of the parts that keep state between requests *)
(* or polls, and of those that keep none.  They share nothing: `focus'     *)
(* says which part steps, the others stay in their initial states.         *)
EXTENDS MCAnswers, RateLimiter, RecordFiles, Jwks, Seeding, LogTail, PlatformLogin, TLC

CONSTANTS p1, p2,     \* requests and commands
          n1, n2,     \* names, keys, isolates and people
          k1, k2,     \* record ids and events
          e1
VARIABLE focus

Swaps == Permutations({p1, p2}) \cup Permutations({n1, n2}) \cup Permutations({k1, k2})

NotAsked == [part |-> "none"]

limitVars == vars
statefulVars == <<limitVars, filesVars, jwksVars, seedingVars, logVars, loginVars>>
servingVars == <<statefulVars, exchangeVars, focus>>

StatefulInit ==
  /\ Init /\ FilesInit /\ JwksInit /\ SeedingInit /\ LogInit /\ LoginInit
  /\ focus # "files" => fileTable = CHOOSE t \in FileTables : TRUE
  /\ focus # "jwks" => published = Kids
  /\ focus # "login" => verified = Users

ServingInit ==
  /\ focus \in {"answers", "limit", "files", "jwks", "seeding", "log", "login"}
  /\ StatefulInit
  /\ IF focus = "answers" THEN AnswersInit ELSE asked = NotAsked /\ answer = NotYet

ServingNext ==
  \/ focus = "answers" /\ AnswersNext /\ UNCHANGED <<statefulVars, focus>>
  \/ focus = "limit" /\ Next
     /\ UNCHANGED <<filesVars, jwksVars, seedingVars, logVars, loginVars, exchangeVars, focus>>
  \/ focus = "files" /\ FilesNext
     /\ UNCHANGED <<limitVars, jwksVars, seedingVars, logVars, loginVars, exchangeVars, focus>>
  \/ focus = "jwks" /\ JwksNext
     /\ UNCHANGED <<limitVars, filesVars, seedingVars, logVars, loginVars, exchangeVars, focus>>
  \/ focus = "seeding" /\ SeedingNext
     /\ UNCHANGED <<limitVars, filesVars, jwksVars, logVars, loginVars, exchangeVars, focus>>
  \/ focus = "log" /\ LogNext
     /\ UNCHANGED <<limitVars, filesVars, jwksVars, seedingVars, loginVars, exchangeVars, focus>>
  \/ focus = "login" /\ LoginNext
     /\ UNCHANGED <<limitVars, filesVars, jwksVars, seedingVars, logVars, exchangeVars, focus>>

ServingSpec == ServingInit /\ [][ServingNext]_servingVars
=============================================================================
