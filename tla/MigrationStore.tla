--------------------------- MODULE MigrationStore ---------------------------
(***************************************************************************)
(* The migration store: the $settings and $settings_version rows of the    *)
(* internal key/value table, the _db_migrations table, and the user schema *)
(* that the applied migrations build.                                      *)
(*                                                                         *)
(* Deployers read the store (fetchDeployedMigrations: the list first, the  *)
(* settings in a second read), generate the migrations that lead from the  *)
(* deployed settings to their goal, and post them with the version they    *)
(* read.  The store applies a post in two steps: it lists the applied      *)
(* migrations, then runs one atomic batch guarded by a compare-and-set on  *)
(* $settings_version.  A reply may be lost, a deployer may die or time out *)
(* and post again through the worker, and the abandoned request still      *)
(* lands.  Installers run $Database.setup concurrently.                    *)
(***************************************************************************)
EXTENDS Integers, FiniteSets

CONSTANTS
  Deployers,    \* processes that deploy (CLI runs, callers of POST /migrations)
  FolderUsers,  \* the deployers that post what the migrations folder holds
  Installers,   \* processes that run setup
  InfraEntries, \* the infrastructure tables setup creates and records
  Tables,       \* user tables that a configuration may declare
  Defs,         \* the definitions a table may have
  NoTable,      \* the table is not declared
  Rank,         \* the order in which a configuration lists its tables
  MaxStamp      \* bound: how many deployments are generated in all

ASSUME StoreAssumption ==
  /\ FolderUsers \subseteq Deployers
  /\ "kv" \in InfraEntries
  /\ "migrations" \notin InfraEntries
  /\ InfraEntries \cap Tables = {}
  /\ NoTable \notin Defs
  /\ MaxStamp \in Nat
  /\ IsFiniteSet(Tables)
  /\ Rank \in [Tables -> Nat]

VARIABLES
  created,    \* the infrastructure tables that exist
  rows,       \* _db_migrations: [mig, batch]; id order is (batch, index) order
  settings,   \* the value of $settings
  version,    \* the value of $settings_version, -1 when there is no such row
  archive,    \* the copies under '$settings_<time>', with the stamp of the post
  schema,     \* what definition each user table has in the database
  batches,    \* batches that have inserted rows (AUTOINCREMENT ids)
  clock,      \* deployments generated so far (the time written into the files)
  requests,   \* posts that are being applied, some by nobody awaited
  pc,         \* control state of each deployer
  listed,     \* deployer: the migration rows it read
  base,       \* deployer: the configuration it read
  token,      \* deployer: the version it read (lastVersion)
  stamp,      \* deployer: the stamp of the deployment it generated
  goal,       \* deployer: the configuration it wants
  route,      \* deployer: "direct" to the database or through the "worker"
  ipc,        \* control state of each installer
  ilisted     \* installer: the rows it listed

dbVars == <<created, rows, settings, version, archive, schema, batches>>
deployerVars == <<pc, listed, base, token, stamp, goal, route>>
installerVars == <<ipc, ilisted>>
vars == <<dbVars, clock, requests, deployerVars, installerVars>>

USER_MIGRATION_START == 10000

Config == [Tables -> Defs \cup {NoTable}]
EmptyConfig == [t \in Tables |-> NoTable]

(* A settings blob; version -1 stands for the absent row.                  *)
Settings == [tables : Config, version : Int]
NoSettings == [tables |-> EmptyConfig, version |-> -1]

(***************************************************************************)
(* A migration is known by its name (index, operation, table).  Its stamp  *)
(* stands for the SQL text, which carries the time of generation; revert   *)
(* says whether it has a sql_revert text.                                  *)
(***************************************************************************)
Migration ==
  [index : Nat, op : {"infra", "create", "drop", "alter"},
   table : Tables \cup InfraEntries,
   stamp : Nat, revert : BOOLEAN, to : Defs \cup {NoTable}]

Row == [mig : Migration, batch : Nat]

SameName(m, n) == /\ m.index = n.index
                  /\ m.op = n.op
                  /\ m.table = n.table

Migs(rs) == {r.mig : r \in rs}

IsUserRow(r) == r.mig.index >= USER_MIGRATION_START

(* Mutant: the order of the names.                                         *)
EarlierByName(r, s) == r.mig.index < s.mig.index

(* The order of the id column.                                             *)
Earlier(r, s) ==
  \/ r.batch < s.batch
  \/ r.batch = s.batch /\ r.mig.index < s.mig.index

(* The number of the next user migration: one more than the LAST user row. *)
LastUserRows(rs) ==
  {r \in rs : IsUserRow(r) /\ \A s \in rs : IsUserRow(s) => ~Earlier(r, s)}

nextUserIndex(rs) ==
  IF LastUserRows(rs) = {} THEN USER_MIGRATION_START
  ELSE (CHOOSE r \in LastUserRows(rs) : TRUE).mig.index + 1

(***************************************************************************)
(* The migrations from configuration last to configuration next: creates,  *)
(* then drops, then alters, numbered from first on.                        *)
(***************************************************************************)
OpOf(next, last, t) ==
  IF last[t] = NoTable THEN "create"
  ELSE IF next[t] = NoTable THEN "drop" ELSE "alter"

Changed(next, last) == {t \in Tables : next[t] # last[t]}

OpRank(op) == CASE op = "create" -> 0 [] op = "drop" -> 1 [] op = "alter" -> 2

GeneratedBefore(next, last, t) ==
  LET rank(u) == OpRank(OpOf(next, last, u))
  IN  {u \in Changed(next, last) :
         rank(u) < rank(t) \/ (rank(u) = rank(t) /\ Rank[u] < Rank[t])}

generateMigrations(next, last, first, at) ==
  {[index |-> first + Cardinality(GeneratedBefore(next, last, t)),
    op |-> OpOf(next, last, t), table |-> t,
    stamp |-> at, revert |-> FALSE, to |-> next[t]] :
      t \in Changed(next, last)}

(* What the folder gives back of a listed migration: its text only.        *)
readMigrationsFolder(ms) == {[m EXCEPT !.revert = FALSE] : m \in ms}

-----------------------------------------------------------------------------
(* One call of apply: its arguments and, after its first step, the rows it *)
(* listed (last).                                                          *)
Request ==
  [by : Deployers, route : {"direct", "worker"}, stamp : Nat,
   step : {"list", "batch"}, token : Int, base : Config, goal : Config,
   migrations : SUBSET Migration, last : SUBSET Row]

TypeOK ==
  /\ created \subseteq InfraEntries \cup {"migrations"}
  /\ rows \subseteq Row
  /\ settings \in Settings
  /\ version \in Int /\ version >= -1
  /\ archive \subseteq [settings : Settings, stamp : Nat]
  /\ schema \in Config
  /\ batches \in Nat
  /\ clock \in 0 .. MaxStamp
  /\ requests \subseteq Request
  /\ pc \in [Deployers -> {"idle", "listed", "read", "waiting", "failed"}]
  /\ listed \in [Deployers -> SUBSET Row]
  /\ base \in [Deployers -> Config]
  /\ token \in [Deployers -> Int]
  /\ stamp \in [Deployers -> Nat]
  /\ goal \in [Deployers -> Config]
  /\ route \in [Deployers -> {"direct", "worker"}]
  /\ ipc \in [Installers -> {"idle", "creating", "recording"}]
  /\ ilisted \in [Installers -> SUBSET Row]

DeployersInit ==
  /\ pc = [d \in Deployers |-> "idle"]
  /\ listed = [d \in Deployers |-> {}]
  /\ base = [d \in Deployers |-> EmptyConfig]
  /\ token = [d \in Deployers |-> -1]
  /\ stamp = [d \in Deployers |-> 0]
  /\ goal = [d \in Deployers |-> EmptyConfig]
  /\ route = [d \in Deployers |-> "direct"]

InstallersInit ==
  /\ ipc = [i \in Installers |-> "idle"]
  /\ ilisted = [i \in Installers |-> {}]

(* A fresh database.                                                       *)
Init ==
  /\ created = {} /\ rows = {} /\ settings = NoSettings /\ version = -1
  /\ archive = {} /\ schema = EmptyConfig /\ batches = 0
  /\ clock = 0 /\ requests = {}
  /\ DeployersInit /\ InstallersInit

(***************************************************************************)
(* Deployers                                                               *)
(***************************************************************************)

(* The attempt is over: every local of d returns to its initial value.     *)
Reset(d) ==
  /\ pc' = [pc EXCEPT ![d] = "idle"]
  /\ listed' = [listed EXCEPT ![d] = {}]
  /\ base' = [base EXCEPT ![d] = EmptyConfig]
  /\ token' = [token EXCEPT ![d] = -1]
  /\ stamp' = [stamp EXCEPT ![d] = 0]
  /\ goal' = [goal EXCEPT ![d] = EmptyConfig]
  /\ route' = [route EXCEPT ![d] = "direct"]

(* First read: without the table nothing is deployed and nothing else is   *)
(* read.                                                                   *)
FetchList(d) ==
  /\ pc[d] = "idle" /\ clock < MaxStamp
  /\ IF "migrations" \in created
       THEN /\ pc' = [pc EXCEPT ![d] = "listed"]
            /\ listed' = [listed EXCEPT ![d] = rows]
       ELSE /\ pc' = [pc EXCEPT ![d] = "read"]
            /\ UNCHANGED listed
  /\ UNCHANGED <<dbVars, clock, requests, base, token, stamp, goal, route,
                 installerVars>>

(* Second read: $settings and $settings_version in one batch.              *)
FetchSettings(d) ==
  /\ pc[d] = "listed"
  /\ IF "kv" \in created
       THEN /\ pc' = [pc EXCEPT ![d] = "read"]
            /\ base' = [base EXCEPT ![d] = settings.tables]
            /\ token' = [token EXCEPT ![d] = version]
            /\ UNCHANGED <<listed, stamp, goal, route>>
       ELSE Reset(d)
  /\ UNCHANGED <<dbVars, clock, requests, installerVars>>

(* What d posts: the migrations it listed and the ones that lead to g.     *)
Posted(d, g, at) ==
  (IF d \in FolderUsers THEN readMigrationsFolder(Migs(listed[d]))
                        ELSE Migs(listed[d]))
    \cup generateMigrations(g, base[d], nextUserIndex(listed[d]), at)

RequestOf(d, g, at, rt) ==
  [by |-> d, route |-> rt, stamp |-> at, step |-> "list",
   token |-> token[d], base |-> base[d], goal |-> g,
   migrations |-> Posted(d, g, at), last |-> {}]

(* A goal equal to the base is a change outside the tables: no migration,  *)
(* but the settings are posted.                                            *)
Post(d) ==
  /\ pc[d] = "read" /\ clock < MaxStamp
  /\ clock' = clock + 1
  /\ \E g \in Config :
       /\ goal' = [goal EXCEPT ![d] = g]
       /\ requests' = requests \cup {RequestOf(d, g, clock', "direct")}
  /\ stamp' = [stamp EXCEPT ![d] = clock']
  /\ pc' = [pc EXCEPT ![d] = "waiting"]
  /\ UNCHANGED <<dbVars, listed, base, token, route, installerVars>>

(* The direct attempt failed, for all d knows: the same post goes through  *)
(* the worker.                                                             *)
Fallback(d) ==
  /\ pc[d] = "failed" /\ route[d] = "direct"
  /\ requests' = requests \cup {RequestOf(d, goal[d], stamp[d], "worker")}
  /\ route' = [route EXCEPT ![d] = "worker"]
  /\ pc' = [pc EXCEPT ![d] = "waiting"]
  /\ UNCHANGED <<dbVars, clock, listed, base, token, stamp, goal,
                 installerVars>>

(* No answer came in time, or the connection was lost.                     *)
Timeout(d) ==
  /\ pc[d] = "waiting"
  /\ pc' = [pc EXCEPT ![d] = "failed"]
  /\ UNCHANGED <<dbVars, clock, requests, listed, base, token, stamp, goal,
                 route, installerVars>>

(* d reports the failure, is cancelled at a prompt, or dies.               *)
Abandon(d) ==
  /\ pc[d] # "idle"
  /\ Reset(d)
  /\ UNCHANGED <<dbVars, clock, requests, installerVars>>

(***************************************************************************)
(* apply                                                                   *)
(***************************************************************************)

Awaited(q) == /\ pc[q.by] = "waiting"
              /\ stamp[q.by] = q.stamp
              /\ route[q.by] = q.route

(* The call returns; the answer may be lost on the way.                    *)
Return(q, ok) ==
  /\ requests' = requests \ {q}
  /\ \/ UNCHANGED deployerVars
     \/ /\ Awaited(q) /\ ok
        /\ Reset(q.by)
     \/ /\ Awaited(q) /\ ~ok
        /\ pc' = [pc EXCEPT ![q.by] = "failed"]
        /\ UNCHANGED <<listed, base, token, stamp, goal, route>>

(* A listed migration must be posted again exactly as it was applied.      *)
Mismatch(q) ==
  \E m \in q.migrations, n \in Migs(rows) :
    SameName(m, n) /\ (m.stamp # n.stamp \/ m.revert # n.revert)

Fresh(q) == {m \in q.migrations : \A r \in q.last : ~SameName(m, r.mig)}

Duplicate(q) ==
  \E m, n \in q.migrations :
    /\ m # n /\ SameName(m, n)
    /\ \A r \in rows : ~SameName(m, r.mig)

ApplyList(q) ==
  /\ q.step = "list"
  /\ IF "migrations" \notin created \/ Mismatch(q) \/ Duplicate(q)
       THEN Return(q, FALSE)
       ELSE /\ requests' = (requests \ {q})
                  \cup {[q EXCEPT !.step = "batch", !.last = rows]}
            /\ UNCHANGED deployerVars
  /\ UNCHANGED <<dbVars, clock, installerVars>>

(* The statements of the batch that can fail: the compare-and-set, a       *)
(* CREATE of a table that exists, an ALTER of one that does not, and an    *)
(* INSERT of a name already in the table.                                  *)
(* Mutant: without the comparison.                                         *)
casVerifyNothing(q) == "kv" \in created

casVerify(q) == "kv" \in created /\ version = q.token

Runs(m) == /\ m.op = "create" => schema[m.table] = NoTable
           /\ m.op = "alter" => schema[m.table] # NoTable
           /\ \A r \in rows : ~SameName(m, r.mig)

ExpectedVersion(lastVersion) == lastVersion + 1

Commit(q) ==
  LET new == Fresh(q)
      blob == [tables |-> q.goal, version |-> ExpectedVersion(q.token)]
  IN  /\ rows' = rows \cup {[mig |-> m, batch |-> batches + 1] : m \in new}
      /\ batches' = IF new = {} THEN batches ELSE batches + 1
      /\ schema' = [t \in Tables |->
           IF \E m \in new : m.table = t
             THEN (CHOOSE m \in new : m.table = t).to ELSE schema[t]]
      /\ settings' = blob
      /\ archive' = archive \cup {[settings |-> blob, stamp |-> q.stamp]}
      /\ version' = blob.version
      /\ UNCHANGED created

ApplyBatch(q) ==
  /\ q.step = "batch"
  /\ IF casVerify(q) /\ \A m \in Fresh(q) : Runs(m)
       THEN Commit(q) /\ Return(q, TRUE)
       ELSE UNCHANGED dbVars /\ Return(q, FALSE)
  /\ UNCHANGED <<clock, installerVars>>

(***************************************************************************)
(* setup                                                                   *)
(***************************************************************************)
infraEntry(e) == [index |-> 0, op |-> "infra", table |-> e, stamp |-> 0,
                  revert |-> TRUE, to |-> NoTable]

SetupStart(i) ==
  /\ ipc[i] = "idle"
  /\ ipc' = [ipc EXCEPT ![i] = "creating"]
  /\ UNCHANGED <<dbVars, clock, requests, deployerVars, ilisted>>

(* CREATE TABLE IF NOT EXISTS, one per table, in any order.                *)
SetupCreate(i, t) ==
  /\ ipc[i] = "creating" /\ t \notin created
  /\ created' = created \cup {t}
  /\ UNCHANGED <<rows, settings, version, archive, schema, batches, clock,
                 requests, deployerVars, installerVars>>

(* All tables are there: apply, without settings, lists the migrations.    *)
SetupList(i) ==
  /\ ipc[i] = "creating"
  /\ InfraEntries \cup {"migrations"} \subseteq created
  /\ ipc' = [ipc EXCEPT ![i] = "recording"]
  /\ ilisted' = [ilisted EXCEPT ![i] = rows]
  /\ UNCHANGED <<dbVars, clock, requests, deployerVars>>

(* Mutant: names are not unique.                                           *)
SetupRecordAgain(i) ==
  LET new == {m \in {infraEntry(e) : e \in InfraEntries} :
                \A r \in ilisted[i] : ~SameName(m, r.mig)}
  IN  /\ ipc[i] = "recording"
      /\ ipc' = [ipc EXCEPT ![i] = "idle"]
      /\ ilisted' = [ilisted EXCEPT ![i] = {}]
      /\ rows' = rows \cup {[mig |-> m, batch |-> batches + 1] : m \in new}
      /\ batches' = IF new = {} THEN batches ELSE batches + 1
      /\ UNCHANGED <<created, settings, version, archive, schema, clock,
                     requests, deployerVars>>

(* The batch that records the tables not listed: nothing to do, one batch  *)
(* of INSERTs, or a name that is already there, which aborts it.           *)
SetupRecord(i) ==
  LET new == {m \in {infraEntry(e) : e \in InfraEntries} :
                \A r \in ilisted[i] : ~SameName(m, r.mig)}
      taken == \E m \in new : \E r \in rows : SameName(m, r.mig)
  IN  /\ ipc[i] = "recording"
      /\ ipc' = [ipc EXCEPT ![i] = "idle"]
      /\ ilisted' = [ilisted EXCEPT ![i] = {}]
      /\ IF new = {} \/ taken
           THEN UNCHANGED <<rows, batches>>
           ELSE /\ rows' = rows \cup {[mig |-> m, batch |-> batches + 1] : m \in new}
                /\ batches' = batches + 1
      /\ UNCHANGED <<created, settings, version, archive, schema, clock,
                     requests, deployerVars>>

(* setup fails half way, or the process dies.                              *)
SetupStop(i) ==
  /\ ipc[i] # "idle"
  /\ ipc' = [ipc EXCEPT ![i] = "idle"]
  /\ ilisted' = [ilisted EXCEPT ![i] = {}]
  /\ UNCHANGED <<dbVars, clock, requests, deployerVars>>

-----------------------------------------------------------------------------
Deploy(d) == FetchList(d) \/ FetchSettings(d) \/ Post(d) \/ Fallback(d)
               \/ Timeout(d) \/ Abandon(d)

Apply(q) == ApplyList(q) \/ ApplyBatch(q)

Setup(i) == \/ SetupStart(i) \/ SetupList(i) \/ SetupRecord(i) \/ SetupStop(i)
            \/ \E t \in InfraEntries \cup {"migrations"} : SetupCreate(i, t)

Next == \/ \E d \in Deployers : Deploy(d)
        \/ \E q \in requests : Apply(q)
        \/ \E i \in Installers : Setup(i)

Spec == Init /\ [][Next]_vars

(* Setup is run again until it succeeds (the CLI tries five times, the     *)
(* operator after that), and no step of it fails every time.               *)
FairSpec ==
  /\ Spec
  /\ \A i \in Installers :
       /\ WF_vars(SetupStart(i))
       /\ \A t \in InfraEntries \cup {"migrations"} : SF_vars(SetupCreate(i, t))
       /\ SF_vars(SetupList(i))
       /\ SF_vars(SetupRecord(i))

-----------------------------------------------------------------------------
(* The blob and the counter agree at every moment: "apply writes them      *)
(* atomically" is what the final deploy of the CLI relies on when it       *)
(* bundles the settings it read without looking at the counter.            *)
StampMatchesBlob == settings.version = version

(* No drift: the database has exactly the tables, in exactly the form,     *)
(* that the stored settings declare, whatever deployers read, how long     *)
(* they waited, and which posts landed late or twice.                      *)
SchemaFollowsSettings == schema = settings.tables

(* The recorded migrations, replayed in the order of their ids on an empty *)
(* database, give the schema: the last row about a table is its state.     *)
LastAbout(t) ==
  {r \in rows : r.mig.table = t
     /\ \A s \in rows : s.mig.table = t => ~Earlier(r, s)}

ReplayByIdGivesSchema ==
  \A t \in Tables :
    \/ LastAbout(t) = {} /\ schema[t] = NoTable
    \/ \E r \in LastAbout(t) : r.mig.to = schema[t]

(* No lost update: a step that changes the counter adds one to it, and the *)
(* post it commits was generated from the very configuration it replaces.  *)
CommitReplacesItsBase ==
  version' # version =>
    /\ version' = version + 1
    /\ \E q \in requests \ requests' :
         q.base = settings.tables /\ q.goal = settings'.tables

NoLostUpdate == [][CommitReplacesItsBase]_vars

(* The store implements AtomicDeploy: steps of several deployers, lost     *)
(* answers and repeated posts look like whole deployments.                 *)
Atomic == INSTANCE AtomicDeploy WITH
  config <- settings.tables, stamped <- settings.version,
  counter <- version, tables <- schema,
  proposals <- {[base |-> q.base, goal |-> q.goal] : q \in requests}

ImplementsAtomicDeploy == Atomic!ASpec

(* Setup that fails or races with another can be retried: in the end every *)
(* infrastructure table is recorded, once.                                 *)
Recorded(e) == {r \in rows : r.mig.op = "infra" /\ r.mig.table = e}

SetupConverges == <>[](\A e \in InfraEntries : Cardinality(Recorded(e)) = 1)

(* A post generated from the current state, alone, is not refused: edit    *)
(* the configuration, deploy, and iterate.                                 *)
RefusedWhileCurrent ==
  \E q \in requests : /\ q.step = "list" /\ Mismatch(q)
                      /\ version >= 0 /\ q.token = version

IterationWorks == ~RefusedWhileCurrent
=============================================================================
