------------------------------ MODULE Seeding ------------------------------
(***************************************************************************)
(* The seeding of the example backend: a middleware that the first request *)
(* of every isolate runs.  It raises the isolate's flag, creates the tasks *)
(* table, the auth tables and the policy table, and inserts the policies   *)
(* when there are none; a failure takes the flag down again.  Requests     *)
(* that find the flag raised go on at once.                                *)
(***************************************************************************)
EXTENDS Integers, FiniteSets

CONSTANTS
  Isolates,   \* instances of the worker over one database
  Visits,     \* requests that may be under way at a time
  NoIsolate,
  MaxCut      \* bound: how many requests are cut off while they seed

ASSUME SeedingAssumption == NoIsolate \notin Isolates /\ MaxCut \in Nat

VARIABLES
  seeded,     \* isolate: _seeded
  tasks,      \* the tasks table (and the auth tables) exist
  policies,   \* "none": no table; "empty"; "stored"
  visit,      \* the requests: where they run and what they do next
  cut         \* the isolates in which a seeding request was cut off

seedingVars == <<seeded, tasks, policies, visit, cut>>

Away == [isolate |-> NoIsolate, step |-> "away"]

SeedingTypeOK ==
  /\ seeded \in [Isolates -> BOOLEAN]
  /\ tasks \in BOOLEAN /\ policies \in {"none", "empty", "stored"}
  /\ visit \in [Visits ->
       [isolate : Isolates \cup {NoIsolate},
        step : {"away", "tasks", "table", "count", "insert", "serve"}]]
  /\ cut \subseteq Isolates

SeedingInit ==
  /\ seeded = [i \in Isolates |-> FALSE]
  /\ tasks = FALSE /\ policies = "none"
  /\ visit = [v \in Visits |-> Away] /\ cut = {}

Continue(v, step) == visit' = [visit EXCEPT ![v].step = step]

(* A request reaches isolate i.                                            *)
Visit(v, i) ==
  /\ visit[v].step = "away"
  /\ visit' = [visit EXCEPT ![v] = [isolate |-> i,
                                    step |-> IF seeded[i] THEN "serve" ELSE "tasks"]]
  /\ seeded' = [seeded EXCEPT ![i] = TRUE]
  /\ UNCHANGED <<tasks, policies, cut>>

CreateTasks(v) ==
  /\ visit[v].step = "tasks" /\ tasks' = TRUE /\ Continue(v, "table")
  /\ UNCHANGED <<seeded, policies, cut>>

CreatePolicyTable(v) ==
  /\ visit[v].step = "table"
  /\ policies' = IF policies = "none" THEN "empty" ELSE policies
  /\ Continue(v, "count")
  /\ UNCHANGED <<seeded, tasks, cut>>

CountPolicies(v) ==
  /\ visit[v].step = "count"
  /\ Continue(v, IF policies = "stored" THEN "serve" ELSE "insert")
  /\ UNCHANGED <<seeded, tasks, policies, cut>>

(* Mutant: the flag stays up.                                              *)
SeedErrorFlagStays(v) == UNCHANGED seeded

(* A statement fails: the flag goes down, the request goes on.             *)
SeedError(v) == seeded' = [seeded EXCEPT ![visit[v].isolate] = FALSE]

(* The policies have fixed ids: inserting them twice fails.                *)
InsertPolicies(v) ==
  /\ visit[v].step = "insert" /\ Continue(v, "serve")
  /\ IF policies = "stored" THEN SeedError(v) /\ UNCHANGED policies
                            ELSE policies' = "stored" /\ UNCHANGED seeded
  /\ UNCHANGED <<tasks, cut>>

StatementFails(v) ==
  /\ visit[v].step \notin {"away", "serve"}
  /\ SeedError(v) /\ Continue(v, "serve")
  /\ UNCHANGED <<tasks, policies, cut>>

(* The client disconnects and the platform cancels the request: the catch  *)
(* does not run, and the isolate lives on.                                 *)
CutOff(v) ==
  /\ visit[v].step \notin {"away", "serve"}
  /\ Cardinality(cut) < MaxCut
  /\ cut' = cut \cup {visit[v].isolate}
  /\ visit' = [visit EXCEPT ![v] = Away]
  /\ UNCHANGED <<seeded, tasks, policies>>

Leave(v) ==
  /\ visit[v].step = "serve"
  /\ visit' = [visit EXCEPT ![v] = Away]
  /\ UNCHANGED <<seeded, tasks, policies, cut>>

(* An isolate is thrown away and started again, when no request runs in it.*)
Recycle(i) ==
  /\ seeded[i] /\ \A v \in Visits : visit[v].isolate # i
  /\ seeded' = [seeded EXCEPT ![i] = FALSE]
  /\ cut' = cut \ {i}
  /\ UNCHANGED <<tasks, policies, visit>>

SeedingNext ==
  \/ \E v \in Visits :
       \/ \E i \in Isolates : Visit(v, i)
       \/ CreateTasks(v) \/ CreatePolicyTable(v) \/ CountPolicies(v)
       \/ InsertPolicies(v) \/ StatementFails(v) \/ CutOff(v) \/ Leave(v)
  \/ \E i \in Isolates : Recycle(i)

SeedingSpec == SeedingInit /\ [][SeedingNext]_seedingVars

-----------------------------------------------------------------------------
Seeds(i) == \E v \in Visits : visit[v].isolate = i /\ visit[v].step \notin {"away", "serve"}

(* A failed seeding is made good: an isolate whose flag is up and in which *)
(* nothing seeds any more has its tables and policies, unless a request of *)
(* it was cut off before the catch could take the flag down.               *)
FlagMeansSeeded ==
  \A i \in Isolates :
    seeded[i] /\ ~Seeds(i) /\ i \notin cut => tasks /\ policies = "stored"
=============================================================================
