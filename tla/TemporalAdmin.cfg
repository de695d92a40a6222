SPECIFICATION Spec
CONSTANTS
  Market      = {"HopeLend"}
  Script      <- MCScript
  Effect      <- MCEffect
  Order       <- MCOrder
  Steps       <- MCSteps
  MigrationId <- MCMigrationId
  Records     <- MCRecords
  MaxCrashes  = 1
  Production  = TRUE
  L2          = FALSE
  Upgrade     = FALSE
  Unnamed     = "unnamed"
INVARIANTS
  NoTemporaryLeft
