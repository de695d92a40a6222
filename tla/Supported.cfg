SPECIFICATION Spec
CONSTANTS
  Reserve      <- MCReserve
  Rate         <- MCRate
  Config       <- MCLocal
  InitChunks   = 3
  EnableChunks = 20
  MaxCrashes   = 0
INVARIANTS
  SupportedMarketsSetUp
