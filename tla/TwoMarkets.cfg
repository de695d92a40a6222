SPECIFICATION Spec
CONSTANTS
  Market      = {"HopeLend", "Test", "unnamed"}
  Script      <- MCScript
  Effect      <- MCEffect
  Order       <- MCOrder
  Steps       <- MCSteps
  MigrationId <- MCMigrationId
  Records     <- MCRecords
  MaxCrashes  = 1
  Production  = FALSE
  L2          = FALSE
  Upgrade     = FALSE
  Unnamed     = "unnamed"
INVARIANTS
  CompleteMarketReruns
  RerunInv
