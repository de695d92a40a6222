SPECIFICATION Spec
CONSTANTS
  Market      = {"HopeLend", "Test"}
  Script      <- MCScript
  Effect      <- MCEffect
  Order       <- MCOrder
  Steps       <- MCSteps
  MigrationId <- MCMigrationId
  Records     <- MCRecords
  MaxCrashes  = 0
  Production  = FALSE
  L2          = FALSE
  Upgrade     = FALSE
  Unnamed     = "unnamed"
INVARIANTS
  EveryMarketDeploys
