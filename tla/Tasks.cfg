SPECIFICATION FairSpec
CONSTANTS
  Reserve    <- MCReserve
  Order      <- MCOrder
  CapKnown   <- MCCapKnown
  Wanted     <- MCWanted
  Found      <- MCFound
  Menu       <- MCMenu
  MaxCrashes = 2
INVARIANTS
  TasksInv
  PostedNeverReverts
  GaugesReady
  TaskFailureIsExplained
  TaskFailureInv
  UpgradeInv
  HookInv
PROPERTIES
  CutShortForGood
  HookEndsWell
  HookSettles
