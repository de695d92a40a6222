SPECIFICATION Spec
CONSTANTS
  Account        <- MCAccount
  NoAccount      = "undefined"
  ZeroAddress    = "zero"
  Deployer       = "deployer"
  PoolAdmin      = "deployer"
  EmergencyAdmin = "emergency"
  Operator       = "operator"
  GatewayOwner   = "gateway"
  TreasuryAdmin  = "treasury"
  FlashBorrower  = "zero"
  Multisig       = "multisig"
  PoolMultisig   = "undefined"
  AclMultisig    = "undefined"
  MaxCrashes     = 2
INVARIANTS
  RolesNeverVacant
