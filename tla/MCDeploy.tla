------------------------------ MODULE MCDeploy ------------------------------
(***************************************************************************)
(* Model values for TLC: the scripts of deploy/ run by the engine.         *)
(* PerMarket builds a function with @@, and the cfg's names stand one      *)
(* definition behind the tables, so that TLC computes each table once.     *)
(***************************************************************************)
EXTENDS DeployEngine, DeployScripts

PerMarket(F(_)) == FoldSet(LAMBDA m, f : (m :> F(m)) @@ f, <<>>, Market)

AllScripts   == ToSet(Files)
AllEffects   == {e \in UNION {EffectsNamed(m) : m \in Market} : TRUE}
AllOrders    == PerMarket(RunOrder)
AllSteps     == PerMarket(StepsOf)
AllIds       == PerMarket(LAMBDA m : [s \in AllScripts |-> IdOf(m, s)])
AllRecording == PerMarket(Recording)

MCScript      == AllScripts
MCEffect      == AllEffects
MCOrder       == AllOrders
MCSteps       == AllSteps
MCMigrationId == AllIds
MCRecords     == AllRecording

(* "This script can only be run successfully once per market, core         *)
(* version, and network" (06_init_pool.ts:133 and six other scripts): a    *)
(* network takes several markets, and each gets through when none of the   *)
(* runs is killed.                                                         *)
EveryMarketDeploys == status # "failed"

(* With one market the ids keep the scripts apart.                         *)
ASSUME OneMarketIdsAssumption == Cardinality(Market) = 1 => IdsSeparateWork

=============================================================================
