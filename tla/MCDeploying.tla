----------------------------- MODULE MCDeploying -----------------------------
(* Small instances, for TLC, of the parts that change what is deployed.    *)
(* The initial states of the instances are disjoint: `focus' says which    *)
(* part steps, the others stay in an initial state.                        *)
EXTENDS MigrationStore, Deploy, TLC

CONSTANTS d1, i1, i2
VARIABLE focus

deployingVars == <<vars, deployVars, focus>>

(* The configuration lists the tables in this order.                       *)
TableRank == [t \in Tables |-> 0]

DeployingInit ==
  /\ focus \in {"setup", "deploy"}
  /\ Init
  /\ DeployInit
  /\ focus # "deploy" => target = "local" /\ wanted = "v1"

DeployingNext ==
  \/ focus = "setup" /\ Next /\ UNCHANGED <<deployVars, focus>>
  \/ focus = "deploy" /\ DeployNext /\ UNCHANGED <<vars, focus>>

(* The fairness of FairSpec and DeployFairness: an installer and a runner  *)
(* share a condition, since only one of the two ever steps.                *)
Either(step, run) ==
  \/ focus = "setup" /\ step /\ UNCHANGED <<deployVars, focus>>
  \/ focus = "deploy" /\ run /\ UNCHANGED <<vars, focus>>

RunnerOf == i1 :> "ci" @@ i2 :> "dev"

DeployingFairness ==
  \A i \in Installers : LET r == RunnerOf[i] IN
    /\ WF_deployingVars(Either(SetupStart(i), Run(r)))
    /\ SF_deployingVars(Either(SetupCreate(i, "migrations"), ListDeployments(r)))
    /\ SF_deployingVars(Either(SetupCreate(i, "kv"), FirstDeploy(r)))
    /\ SF_deployingVars(Either(SetupCreate(i, "identities"), DeploySecrets(r)))
    /\ SF_deployingVars(Either(SetupList(i), Migrate(r)))
    /\ SF_deployingVars(Either(SetupRecord(i), SetupDatabase(r)))
    /\ SF_deployingVars(Either(FALSE, FinalDeploy(r)))

DeployingSpec == DeployingInit /\ [][DeployingNext]_deployingVars /\ DeployingFairness

(* SetupConverges, where setup is what runs.                               *)
SetupAloneConverges == focus = "setup" => SetupConverges

(* RedeployConverges, where the command is what runs.                      *)
RepeatedDeployConverges == focus = "deploy" => RedeployConverges
=============================================================================
