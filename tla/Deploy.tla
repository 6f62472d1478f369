------------------------------- MODULE Deploy -------------------------------
(***************************************************************************)
(* The deploy command (migrateAndDeploy).  A run reads the stored          *)
(* settings, compares them with the configuration the project declares,    *)
(* and goes through three phases: a first worker without tables when there *)
(* is none (remote) or the new config.json (local), the migrations, and    *)
(* the final worker deploy.  Each of them may fail, or the run may be      *)
(* killed, and every answer may be lost; the command is run again then.    *)
(*                                                                         *)
(* The store is one record here, the settings and their version, replaced  *)
(* under a compare-and-set: that it behaves so is what MigrationStore says *)
(* (ImplementsAtomicDeploy).  `running' is what the worker runs: the       *)
(* bundle last deployed, or the content of config.json for a local worker. *)
(* Of the recorded migrations only those of the infrastructure tables      *)
(* matter: setup records them with a text that reverts them, the folder    *)
(* does not keep it, and a post of the folder that holds them is refused.  *)
(***************************************************************************)
EXTENDS Integers

CONSTANTS
  Runners,    \* people and CI jobs that run the command
  Declared,   \* the configurations the project may declare
  NoConfig,   \* no configuration: nothing stored, or no worker
  NoTables,   \* the configuration of a first deploy: no tables yet
  MaxEdits,   \* bound: how often the declared configuration changes
  MaxUnheard  \* bound: how many answers of a committed apply are lost

ASSUME DeployAssumption ==
  /\ NoConfig \notin Declared /\ NoTables \notin Declared
  /\ NoConfig # NoTables
  /\ MaxEdits \in Nat /\ MaxUnheard \in Nat

VARIABLES
  target,     \* --remote or --local
  wanted,     \* the configuration the project declares at present
  stored,     \* the settings in the database, with their version
  copies,     \* the copies under '$settings_<time>'
  infra,      \* the infrastructure tables: "none", "created" or "recorded"
  running,    \* what the worker runs
  secrets,    \* the worker has its secrets
  at,         \* runner: the step it is at
  chosen,     \* runner: the configuration it deploys (nextConfig)
  last,       \* runner: the settings it read (lastConfig, lastVersion)
  folder,     \* runner: its folder holds the infrastructure migrations
  edits, unheard

runnerVars == <<at, chosen, last, folder>>
deployVars ==
  <<target, wanted, stored, copies, infra, running, secrets, runnerVars, edits, unheard>>

Stamped(config, v) == [config |-> config, version |-> v]
Nothing == Stamped(NoConfig, -1)
Bundle == [config : Declared \cup {NoConfig, NoTables}, version : Int]

DeployTypeOK ==
  /\ target \in {"remote", "local"}
  /\ wanted \in Declared
  /\ stored \in Bundle /\ copies \subseteq Bundle /\ running \in Bundle
  /\ secrets \in BOOLEAN /\ infra \in {"none", "created", "recorded"}
  /\ at \in [Runners -> {"idle", "read", "new", "secrets", "setup", "apply", "fallback", "saved"}]
  /\ chosen \in [Runners -> Declared \cup {NoConfig}]
  /\ last \in [Runners -> Bundle] /\ folder \in [Runners -> BOOLEAN]
  /\ edits \in 0 .. MaxEdits /\ unheard \in 0 .. MaxUnheard

DeployInit ==
  /\ target \in {"remote", "local"} /\ wanted \in Declared
  /\ stored = Nothing /\ copies = {} /\ infra = "none"
  /\ running = Nothing /\ secrets = FALSE
  /\ at = [r \in Runners |-> "idle"]
  /\ chosen = [r \in Runners |-> NoConfig]
  /\ last = [r \in Runners |-> Nothing] /\ folder = [r \in Runners |-> FALSE]
  /\ edits = 0 /\ unheard = 0

DeployStep(r, step) == at' = [at EXCEPT ![r] = step] /\ UNCHANGED <<chosen, last, folder>>

Over(r) ==
  /\ at' = [at EXCEPT ![r] = "idle"]
  /\ chosen' = [chosen EXCEPT ![r] = NoConfig]
  /\ last' = [last EXCEPT ![r] = Nothing]
  /\ folder' = [folder EXCEPT ![r] = FALSE]

(* The project is edited, or another revision of it is checked out.        *)
Edit ==
  /\ edits < MaxEdits /\ edits' = edits + 1
  /\ wanted' \in Declared \ {wanted}
  /\ UNCHANGED <<target, stored, copies, infra, running, secrets, runnerVars, unheard>>

(* A local run without a config.json takes the database for a fresh one.   *)
AssumedFresh == target = "local" /\ running = Nothing

(* A database that was set up but holds no settings: the worker is asked,  *)
(* and answers with the configuration it runs itself (config.json if it is *)
(* local), at no version.  Without its secrets it answers nobody.          *)
AsksWorker == infra # "none" /\ stored = Nothing /\ running # Nothing
Unanswered == AsksWorker /\ target = "remote" /\ ~secrets

Deployed ==
  IF AssumedFresh \/ infra = "none" THEN Nothing
  ELSE IF AsksWorker THEN Stamped(running.config, -1) ELSE stored

(* The folder is rewritten to hold what the list holds.  A local database  *)
(* is one person's, who runs one command at a time.                        *)
Generate(r) ==
  /\ at[r] = "idle" /\ ~Unanswered
  /\ target = "local" => \A q \in Runners : at[q] = "idle"
  /\ at' = [at EXCEPT ![r] = "read"]
  /\ chosen' = [chosen EXCEPT ![r] = wanted]
  /\ last' = [last EXCEPT ![r] = Deployed]
  /\ folder' = [folder EXCEPT ![r] = (infra = "recorded" /\ ~AssumedFresh)]
  /\ UNCHANGED <<target, wanted, stored, copies, infra, running, secrets, edits, unheard>>

(* There is a new configuration to apply.                                  *)
Differs(r) == chosen[r] # last[r].config

(* The deployments of the worker are listed; a local worker has none.  An  *)
(* unchanged configuration is deployed as it is, by force.                 *)
ListDeployments(r) ==
  /\ at[r] = "read"
  /\ DeployStep(r, IF ~Differs(r) THEN "saved"
           ELSE IF target = "local" \/ running = Nothing THEN "new" ELSE "setup")
  /\ UNCHANGED <<target, wanted, stored, copies, infra, running, secrets, edits, unheard>>

(* Phase 1.  Remote: a worker without tables, then its secrets.  Local:    *)
(* config.json, before the migrations are applied.                         *)
FirstDeploy(r) ==
  /\ at[r] = "new"
  /\ IF target = "remote"
       THEN /\ running' = Stamped(NoTables, -1)
            /\ DeployStep(r, "secrets")
       ELSE /\ running' = Stamped(chosen[r], -1)
            /\ DeployStep(r, "setup")
  /\ UNCHANGED <<target, wanted, stored, copies, infra, secrets, edits, unheard>>

DeploySecrets(r) ==
  /\ at[r] = "secrets"
  /\ secrets' = TRUE
  /\ DeployStep(r, "setup")
  /\ UNCHANGED <<target, wanted, stored, copies, infra, running, edits, unheard>>

(* Phase 2, first half: the infrastructure tables, created then recorded.  *)
SetupDatabase(r) ==
  /\ at[r] = "setup"
  /\ infra' = "recorded"
  /\ DeployStep(r, "apply")
  /\ UNCHANGED <<target, wanted, stored, copies, running, secrets, edits, unheard>>

(* What the run stamps onto the configuration it applies, and bundles.     *)
deploySettings(r) == Stamped(chosen[r], last[r].version + 1)

(* The posted files carry no text that reverts them: refused when one of   *)
(* them was recorded with such a text.                                     *)
CommitSettings(r) ==
  /\ ~folder[r]
  /\ stored.version = last[r].version
  /\ stored' = deploySettings(r)
  /\ copies' = copies \cup {deploySettings(r)}

(* The worker applies a post only once it has its secrets.                 *)
Reached(r) ==
  \/ at[r] = "apply"
  \/ at[r] = "fallback" /\ (target = "remote" => secrets)

(* Phase 2: directly, then through the worker.  The second attempt sends   *)
(* the same version, so it is refused when the first had been committed.   *)
Migrate(r) ==
  /\ Reached(r)
  /\ CommitSettings(r)
  /\ DeployStep(r, "saved")
  /\ UNCHANGED <<target, wanted, infra, running, secrets, edits, unheard>>

(* Mutant: the answer "deploy the worker anyway" that a comment keeps.     *)
ApplyFailsAnyway(r) ==
  /\ at[r] \in {"apply", "fallback"}
  /\ DeployStep(r, IF at[r] = "apply" THEN "fallback" ELSE "saved")
  /\ UNCHANGED <<target, wanted, stored, copies, infra, running, secrets, edits, unheard>>

ApplyFails(r) ==
  /\ at[r] = "apply"
  /\ DeployStep(r, "fallback")
  /\ UNCHANGED <<target, wanted, stored, copies, infra, running, secrets, edits, unheard>>

(* The catch: a local run puts back the config.json of what it had read,   *)
(* which is none when it had taken the database for a fresh one.           *)
Revert(r) ==
  running' = IF target = "local" /\ Differs(r) THEN last[r] ELSE running

(* Setup stops, or is stopped, before it recorded the tables it created.   *)
SetupStops(r) ==
  /\ at[r] = "setup" /\ infra = "none"
  /\ infra' = "created"
  /\ Over(r)
  /\ Revert(r) \/ UNCHANGED running
  /\ UNCHANGED <<target, wanted, stored, copies, secrets, edits, unheard>>

(* Committed, and the answer is lost: tried again, or reported as failed.  *)
ApplyUnheard(r) ==
  /\ Reached(r) /\ unheard < MaxUnheard
  /\ unheard' = unheard + 1
  /\ CommitSettings(r)
  /\ IF at[r] = "apply" THEN DeployStep(r, "fallback") /\ UNCHANGED running
                        ELSE Over(r) /\ Revert(r)
  /\ UNCHANGED <<target, wanted, infra, secrets, edits>>

(* Phase 3: the stamped settings when they were applied, else the ones     *)
(* that were read.  An unchanged local configuration is left alone.        *)
Bundled(r) == IF Differs(r) THEN deploySettings(r) ELSE last[r]

(* Mutant: without --force by default.                                     *)
FinalDeployIfChanged(r) ==
  /\ at[r] = "saved"
  /\ running' = IF Differs(r) THEN Bundled(r) ELSE running
  /\ Over(r)
  /\ UNCHANGED <<target, wanted, stored, copies, infra, secrets, edits, unheard>>

FinalDeploy(r) ==
  /\ at[r] = "saved"
  /\ running' = IF target = "remote" \/ Differs(r) THEN Bundled(r) ELSE running
  /\ Over(r)
  /\ UNCHANGED <<target, wanted, stored, copies, infra, secrets, edits, unheard>>

(* The final deploy of a remote worker fails: reported, not thrown.        *)
FinalDeployFails(r) ==
  /\ at[r] = "saved" /\ target = "remote"
  /\ Over(r)
  /\ UNCHANGED <<target, wanted, stored, copies, infra, running, secrets, edits, unheard>>

(* A step before the migrations were applied throws, or is declined.       *)
Throw(r) ==
  /\ at[r] \notin {"idle", "saved"}
  /\ Revert(r)
  /\ Over(r)
  /\ UNCHANGED <<target, wanted, stored, copies, infra, secrets, edits, unheard>>

(* The process is killed: nothing is put back.                             *)
Killed(r) ==
  /\ at[r] # "idle"
  /\ Over(r)
  /\ UNCHANGED <<target, wanted, stored, copies, infra, running, secrets, edits, unheard>>

Run(r) ==
  \/ Generate(r) \/ ListDeployments(r) \/ FirstDeploy(r) \/ DeploySecrets(r)
  \/ SetupDatabase(r) \/ SetupStops(r) \/ Migrate(r) \/ ApplyFails(r) \/ ApplyUnheard(r)
  \/ FinalDeploy(r) \/ FinalDeployFails(r) \/ Throw(r) \/ Killed(r)

DeployNext == Edit \/ \E r \in Runners : Run(r)

DeploySpec == DeployInit /\ [][DeployNext]_deployVars

(* The command is run again and again; a run does not stay where it is (it *)
(* throws after its retries and timeouts); no step fails every time.       *)
DeployFairness ==
  \A r \in Runners :
    /\ WF_deployVars(Run(r))
    /\ SF_deployVars(ListDeployments(r))
    /\ SF_deployVars(FirstDeploy(r))
    /\ SF_deployVars(DeploySecrets(r))
    /\ SF_deployVars(SetupDatabase(r))
    /\ SF_deployVars(Migrate(r))
    /\ SF_deployVars(FinalDeploy(r))

-----------------------------------------------------------------------------
(* A remote worker never serves tables that were not committed: what it    *)
(* runs is the table-less first worker or, stamp included, one of the      *)
(* settings the store has had, whatever failed, was killed or overlapped.  *)
(* Nor is there more than one configuration under a version.               *)
WorkerServesCommitted ==
  /\ target = "remote" => \/ running.config \in {NoConfig, NoTables}
                          \/ running \in copies
  /\ \A a, b \in copies : a.version = b.version => a = b

(* A first deployment is stranded: the database was set up, nothing was    *)
(* committed, and every run that is under way or starts now is refused or  *)
(* finds nothing to apply.                                                 *)
Stranded ==
  /\ stored = Nothing /\ Deployed # Nothing
  /\ Unanswered \/ infra = "recorded" \/ Deployed.config = wanted
  /\ \A r \in Runners : at[r] # "idle" => folder[r] \/ ~Differs(r)

(* "Run teeny deploy to retry": once the settings the project declares are *)
(* committed, a final deploy that failed or was killed, an answer that was *)
(* lost and runs that overlap are made good by running the command again,  *)
(* without flags: the worker ends up with the stored settings, version     *)
(* included.  Until then, running it again commits a first configuration,  *)
(* unless a run that had set up the database stopped before it committed:  *)
(* that strands the deployment.                                            *)
RedeployConverges ==
  /\ target = "remote" => (<>[](stored.config = wanted) => <>[](running = stored))
  /\ <>(stored # Nothing) \/ <>[]Stranded
=============================================================================
