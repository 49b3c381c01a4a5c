----------------------------- MODULE Deployment ------------------------------
(***************************************************************************)
(* A deployment: migration runners bring the schema to the version the     *)
(* runtime expects, and only then do voice jobs and the session reaper     *)
(* open the platform (DurablePlatformResources.open calls                  *)
(* require_platform_schema_version).                                       *)
(***************************************************************************)
EXTENDS Migrations, TenantSweep

vars == <<migrationVars, sweepVars>>

DeploymentInit == MigrationInit /\ SweepInit

Migrate == MigrationStep /\ UNCHANGED sweepVars
(* The platform is operated once the runners are at rest.  A runner that    *)
(* comes later finds its build installed and changes nothing, or refuses.   *)
AtRest == \A r \in Runners : runner[r].pc \in {"ended", "collided"}
Operate == AtRest /\ GateOpen /\ SweepStep /\ UNCHANGED migrationVars

DeploymentNext == Migrate \/ Operate

(* Runners run to their end and are run again when another overtook them, a *)
(* reaper serves cycle after cycle and is started again when it was         *)
(* stopped, an admitted job registers or gives up within its time limit,    *)
(* and leases lapse.  Nothing makes an operator deploy, stop the reaper or  *)
(* ask for drain evidence.                                                  *)
DeploymentFairness ==
    /\ \A r \in Runners : WF_vars(Run(r) /\ UNCHANGED sweepVars)
    /\ WF_vars(/\ AtRest /\ GateOpen /\ UNCHANGED migrationVars
               /\ ReaperStep("serve") \/ NextCycle)
    /\ \A s \in Sessions :
         /\ WF_vars(Register(s) /\ UNCHANGED migrationVars)
         /\ WF_vars(Lapse(s) /\ UNCHANGED migrationVars)

DeploymentSpec == DeploymentInit /\ [][DeploymentNext]_vars /\ DeploymentFairness
=============================================================================
