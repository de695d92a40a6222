SPECIFICATION Spec
CONSTANTS
  Account        <- MCAccount
  NoAccount      = "undefined"
  ZeroAddress    = "zero"
  Deployer       = "deployer"
  PoolAdmin      = "deployer"
  EmergencyAdmin = "emergency"
  Operator       = "operator"
  GatewayOwner   = "gateway"
  TreasuryAdmin  = "treasury"
  FlashBorrower  = "borrower"
  Multisig       = "multisig"
  PoolMultisig   = "pool multisig"
  AclMultisig    = "acl multisig"
  MaxCrashes     = 1
INVARIANTS
  AlreadyMeansHandedOver
