---------------------------- MODULE AtomicDeploy ----------------------------
(***************************************************************************)
(* What the migration store promises: deployments are proposed against a   *)
(* configuration, and one takes effect as a whole, only while the          *)
(* configuration it was proposed against is still the current one.  The    *)
(* settings, the counter and the tables of the database move together.     *)
(***************************************************************************)
EXTENDS Integers

CONSTANTS Config, EmptyConfig

VARIABLES
  config,    \* the declared configuration
  stamped,   \* the version inside the settings blob
  counter,   \* the version counter
  tables,    \* the tables of the database
  proposals  \* deployments under way: [base, goal]

avars == <<config, stamped, counter, tables, proposals>>

Proposal == [base : Config, goal : Config]

AInit == /\ config = EmptyConfig /\ tables = EmptyConfig
         /\ stamped = -1 /\ counter = -1
         /\ proposals = {}

Propose(p) == /\ proposals' = proposals \cup {p}
              /\ UNCHANGED <<config, stamped, counter, tables>>

Withdraw(p) == /\ proposals' = proposals \ {p}
               /\ UNCHANGED <<config, stamped, counter, tables>>

(* Several deployers may have proposed the same change: the proposal may   *)
(* stay, but then it is out of date.                                       *)
TakeEffect(p) == /\ p \in proposals
                 /\ p.base = config
                 /\ config' = p.goal
                 /\ tables' = p.goal
                 /\ counter' = counter + 1
                 /\ stamped' = counter'
                 /\ proposals' \in {proposals, proposals \ {p}}

ANext == \E p \in Proposal : Propose(p) \/ Withdraw(p) \/ TakeEffect(p)

ASpec == AInit /\ [][ANext]_avars
=============================================================================
