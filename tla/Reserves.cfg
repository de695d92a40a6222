SPECIFICATION FairSpec
CONSTANTS
  Reserve      <- MCReserve
  Rate         <- MCRate
  Config       <- MCConfig
  InitChunks   = 3
  EnableChunks = 4
  MaxCrashes   = 3
INVARIANTS
  SetupInv
  RecordedMeansSetUp
  ListedInOrder
  ListOrderInv
  SetupFailureIsExplained
  SetupFailureInv
PROPERTIES
  ListingSpec
  AllSetUp
