SPECIFICATION FairSpec
CONSTANTS
  Market      = {"HopeLend"}
  Script      <- MCScript
  Effect      <- MCEffect
  Order       <- MCOrder
  Steps       <- MCSteps
  MigrationId <- MCMigrationId
  Records     <- MCRecords
  MaxCrashes  = 2
  Production  = FALSE
  L2          = TRUE
  Upgrade     = TRUE
  Unnamed     = "unnamed"
INVARIANTS
  EngineInv
  FailureIsARepeat
  RepeatInv
  AddedOnce
PROPERTIES
  FinishesUnlessStuck
