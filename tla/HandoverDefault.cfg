SPECIFICATION Spec
CONSTANTS
  Account        <- MCAccount
  NoAccount      = "undefined"
  ZeroAddress    = "zero"
  Deployer       = "deployer"
  PoolAdmin      = "deployer"
  EmergencyAdmin = "deployer"
  Operator       = "deployer"
  GatewayOwner   = "deployer"
  TreasuryAdmin  = "deployer"
  FlashBorrower  = "deployer"
  Multisig       = "multisig"
  PoolMultisig   = "multisig"
  AclMultisig    = "multisig"
  MaxCrashes     = 0
INVARIANTS
  NamedAccountsHaveRoles
