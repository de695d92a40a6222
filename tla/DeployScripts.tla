--------------------------- MODULE DeployScripts ---------------------------
(***************************************************************************)
(* The scripts under deploy/ as tables of steps, one definition per file,  *)
(* in the form DeployEngine runs.  An effect is a pair <<what, scope>>:    *)
(* the scope is a market when the id in helpers/deploy-ids.ts carries the  *)
(* market name, or the fact belongs to a market's contracts, and Net when  *)
(* there is one per network.  deploy() makes a new contract under a saved  *)
(* id when the constructor's arguments differ: that an artifact is held    *)
(* says that its id is saved, not which market's run saved it last.        *)
(*                                                                         *)
(* The reserves of a market are abstracted to one token, WETH, and two     *)
(* chunks of initReserves; the networks are a live one (Production) and a  *)
(* persistent local node (not Production; in-process hardhat networks do   *)
(* not outlive a crash).  TRANSFER_OWNERSHIP is not set.                   *)
(*                                                                         *)
(* A table whose name goes on after the name of the table below it is a    *)
(* faulty variant of that one, which the properties must tell from it.     *)
(***************************************************************************)
EXTENDS Naturals, Sequences, SequencesExt

CONSTANTS
  Production,  \* isProductionMarket(poolConfig)
  L2,          \* isL2PoolSupported(poolConfig)
  Upgrade,     \* UPGRADEABILITY = 'true'
  Unnamed      \* the market of a run without MARKET_NAME

Net     == "network"
Nothing == <<"nothing", Net>>

StepOf(kind, eff, needs, skip) ==
  [kind |-> kind, eff |-> eff, needs |-> needs, skip |-> skip]

Contract(id, needs) == StepOf("deploy", id, needs, 0)
Save(id, needs)     == StepOf("deploy", id, needs, 0)
Require(needs)      == StepOf("require", Nothing, needs, 0)
Once(f, needs)      == StepOf("once", f, needs, 0)
Put(f, needs)       == StepOf("set", f, needs, 0)
Take(f, needs)      == StepOf("unset", f, needs, 0)
Add(f, needs)       == StepOf("add", f, needs, 0)
Unless(f, n)        == StepOf("unless", f, {}, n)

\* deploy(..) of contracts that there is one of per network
Contracts(names, needs) == [k \in DOMAIN names |-> Contract(<<names[k], Net>>, needs)]

\* what a script does only in a test deployment, or only where c holds
When(c, steps) == IF c THEN steps ELSE <<>>
Testnet(steps) == When(~Production, steps)

\* loadPoolConfig throws for a market it does not know
LoadConfig(m) == Require(IF m = Unnamed THEN {<<"market configuration", m>>} ELSE {})

\* deploy, then initialize the implementation itself: its initializer runs once
Implementation(id, needs, scope) ==
  << Contract(id, needs), Once(<<id[1] \o " initialized", scope>>, {id}) >>

-----------------------------------------------------------------------------
(* Artifacts and facts several scripts name.                               *)
Registry          == <<"PoolAddressesProviderRegistry", Net>>
PoolImpl          == <<"Pool-Implementation", Net>>
L2PoolImpl        == <<"L2Pool-Implementation", Net>>
ConfiguratorImpl  == <<"PoolConfigurator-Implementation", Net>>
SetupHelper       == <<"ReservesSetupHelper", Net>>
TreasuryProxy     == <<"TreasuryProxy", Net>>
ConfiguratorLogic == <<"ConfiguratorLogic", Net>>
PoolLibraries     == {<<l, Net>> : l \in {"SupplyLogic", "BorrowLogic", "LiquidationLogic",
                        "EModeLogic", "BridgeLogic", "FlashLoanLogic", "PoolLogic"}}

Provider(m)       == <<"PoolAddressesProvider", m>>
DataProvider(m)   == <<"PoolDataProvider", m>>
AclManager(m)     == <<"ACLManager", m>>
Oracle(m)         == <<"Oracle", m>>
Fallback(m)       == <<"FallbackOracle", m>>
PoolProxy(m)      == <<"Pool-Proxy", m>>
ConfiguratorProxy(m) == <<"PoolConfigurator-Proxy", m>>
TestToken(m)      == <<"WETH-TestnetMintableERC20", m>>
Aggregator(m)     == <<"WETH-TestnetPriceAggregator", m>>
Hope(m)           == <<"HOPE-TestnetMintableERC20", m>>
StakingHope(m)    == <<"stHOPE-TestnetMintableERC20", m>>
TokenImpls(m)     == {<<t, m>> : t \in {"HToken", "StableDebtToken", "VariableDebtToken"}}

\* the roles of the deployer's account at the market's ACLManager
Admin(m, role)    == <<role, m>>
IsPoolAdmin(m)    == {Admin(m, "pool admin"), <<"ACLManager at provider", m>>}
HelperIsRiskAdmin(m) == <<"helper is risk admin", m>>
ReservesConfigured(m) == <<"reserves configured", m>>
GaugeTypes        == <<"gauge types", Net>>

-----------------------------------------------------------------------------
(* deploy/00-before-deploy.ts and deploy/00_core.                          *)
BeforeDeploy(m) == <<>>

MarketsRegistry(m) == <<Contract(Registry, {})>>

LogicLibraries(m) ==
  Contracts(<<"SupplyLogic", "BorrowLogic", "LiquidationLogic", "EModeLogic",
              "BridgeLogic", "ConfiguratorLogic">>, {})
  \o Contracts(<<"FlashLoanLogic", "PoolLogic">>, {<<"BorrowLogic", Net>>})

LightDaoTypesFirst(m) ==
  <<LoadConfig(m)>> \o Testnet(
    Contracts(<<"LT", "RestrictedList", "Permit2", "VotingEscrow">>, {})
    \o << Add(GaugeTypes, {}), Add(GaugeTypes, {}), Once(<<"mining parameters", Net>>, {}) >>)

\* LT takes one minter, and new mining parameters once a year.  Only nodes
\* that mine on receipt let the script past time.increase, so that not
\* waiting for its transactions makes no difference.
LightDao(m) ==
  <<LoadConfig(m)>> \o Testnet(
    Contracts(<<"LT", "RestrictedList", "Permit2", "VotingEscrow">>, {})
    \o << Once(<<"mining parameters", Net>>, {}), Put(<<"Permit2 approved", Net>>, {}) >>
    \o Contracts(<<"GaugeController", "Minter">>, {})
    \o << Contract(Hope(m), {}) >>
    \o Contracts(<<"BurnerManager", "UnderlyingBurner">>, {})
    \o << Contract(<<"FeeToVault", Net>>, {Hope(m)}),
          Contract(<<"ProxyAdmin", Net>>, {}),
          Contract(StakingHope(m), {Hope(m)}),
          Once(<<"LT minter", Net>>, {}),
          Contract(<<"MockSwapGauge", Net>>, {}),
          Add(GaugeTypes, {}),
          Add(GaugeTypes, {}),
          Once(<<"staking gauge", m>>, {GaugeTypes}),
          Once(<<"swap gauge", Net>>, {GaugeTypes}) >>)

(* deploy/01_periphery_pre *)
Treasury(m) ==
  << LoadConfig(m),
     Contract(TreasuryProxy, {}),
     Contract(<<"Treasury-Controller", Net>>, {}) >>
  \o Implementation(<<"Treasury-Implementation", Net>>, {}, Net)
  \o Testnet(<<Require({<<"ProxyAdmin", Net>>})>>)
  \o << Once(<<"TreasuryProxy initialized", Net>>, {<<"Treasury-Implementation", Net>>}) >>

-----------------------------------------------------------------------------
(* deploy/02_market *)
AddMarketToRegistry(m) == << Require({Registry}), Once(<<"registered in registry", m>>, {}) >>

SetupAddressesProvider(m) ==
  <<LoadConfig(m)>>
  \o Testnet(<<Require({TestToken(m), Hope(m), StakingHope(m)})>>)
  \o << Contract(Provider(m), {}),
        Put(<<"market id", m>>, {}) >>
  \o AddMarketToRegistry(m)
  \o << Contract(DataProvider(m), {}),
        Unless(<<"data provider at provider", m>>, 1),
        Put(<<"data provider at provider", m>>, {}) >>

TokenSetup(m) ==
  <<LoadConfig(m)>> \o Testnet(<<Contract(<<"ERC20Faucet", m>>, {}), Contract(TestToken(m), {})>>)

PriceAggregatorsSetup(m) ==
  <<LoadConfig(m)>> \o Testnet(<<Contract(Aggregator(m), {TestToken(m)})>>)

PoolImplementation(m) ==
  << LoadConfig(m), Require({Provider(m)}) >>
  \o When(~L2, <<Require(PoolLibraries)>> \o Implementation(PoolImpl, PoolLibraries, m))

L2PoolImplementation(m) ==
  <<LoadConfig(m)>>
  \o When(L2, << Require({Provider(m)} \cup PoolLibraries),
                 Contract(<<"CalldataLogic", Net>>, {}) >>
              \o Implementation(L2PoolImpl, PoolLibraries, m))

PoolConfigurator(m) ==
  <<Require({Provider(m), ConfiguratorLogic})>>
  \o Implementation(ConfiguratorImpl, {ConfiguratorLogic}, Net)
  \o <<Contract(SetupHelper, {})>>

InitAclNoPoolAdmin(m) ==
  << Require({Provider(m)}),
     Put(Admin(m, "ACL admin"), {}),
     Contract(AclManager(m), {Admin(m, "ACL admin")}),
     Put(<<"ACLManager at provider", m>>, {}) >>

InitAcl(m) ==
  LET roles   == <<"pool admin", "emergency admin", "asset listing admin", "risk admin">>
      isAdmin == Admin(m, "ACL admin")
  IN  << Require({Provider(m)}),
         Put(isAdmin, {}),
         Contract(AclManager(m), {isAdmin}),
         Put(<<"ACLManager at provider", m>>, {}) >>
      \o [k \in DOMAIN roles |-> Put(Admin(m, roles[k]), {isAdmin})]
      \o << Require({Admin(m, roles[k]) : k \in DOMAIN roles}) >>

DeployOracles(m) ==
  << LoadConfig(m), Require({Provider(m)}), Contract(Oracle(m), {}) >>
  \o Testnet(<<Contract(Fallback(m), {})>>)

InitOracles(m) ==
  << LoadConfig(m), Require({Provider(m), Oracle(m)}),
     Unless(<<"price oracle", m>>, 1),
     Put(<<"price oracle", m>>, {}) >>
  \o Testnet(<<Require({TestToken(m), Aggregator(m)})>>)
  \o << Put(<<"asset sources", m>>, IsPoolAdmin(m)) >>
  \o Testnet(<< Require({Fallback(m)}),
                Unless(<<"fallback oracle", m>>, 1),
                Put(<<"fallback oracle", m>>, IsPoolAdmin(m)),
                Put(<<"fallback prices", m>>, {}) >>)

InitPool(m) ==
  LET impl == IF L2 THEN L2PoolImpl ELSE PoolImpl
  IN  << LoadConfig(m), Require({impl, ConfiguratorImpl, Provider(m)}),
         Unless(<<"pool at provider", m>>, 1),
         Once(<<"pool at provider", m>>, {<<impl[1] \o " initialized", m>>}),
         Save(PoolProxy(m), {<<"pool at provider", m>>}),
         Unless(<<"configurator at provider", m>>, 1),
         Once(<<"configurator at provider", m>>, {<<"pool at provider", m>>}),
         Save(ConfiguratorProxy(m), {<<"configurator at provider", m>>}) >>
      \o When(L2, <<Contract(<<"L2Encoder", Net>>, {})>>)
      \o << Put(<<"flash loan premium", m>>, IsPoolAdmin(m)),
            Put(<<"flash loan premium to protocol", m>>, IsPoolAdmin(m)) >>
      \o When(Production, <<Put(<<"fee vault", m>>, IsPoolAdmin(m))>>)

TokensImplementations(m) ==
  LET of(t) == Implementation(<<t, m>>, {<<"pool at provider", m>>}, m)
  IN  <<Require({Provider(m)})>>
      \o of("HToken") \o of("StableDebtToken") \o of("VariableDebtToken")

\* initReserves() reverts for a reserve that has tokens already
InitReservesByHelper(m) ==
  LET chunk(k) == << Unless(<<k, m>>, 1),
                     Once(<<k, m>>, TokenImpls(m) \cup IsPoolAdmin(m)) >>
  IN  << LoadConfig(m),
         Require({Provider(m), IF L2 THEN L2PoolImpl ELSE PoolImpl} \cup TokenImpls(m)),
         Require({<<"ReserveStrategy", Net>>, ConfiguratorProxy(m), ConfiguratorImpl}) >>
      \o chunk("reserves 1") \o chunk("reserves 2")

\* all reserves are used as collateral, which is what is read
ConfigureReservesByHelper(m) ==
  << Require({Provider(m), AclManager(m), SetupHelper, DataProvider(m)}),
     Unless(ReservesConfigured(m), 3),
     Put(HelperIsRiskAdmin(m), {Admin(m, "ACL admin")}),
     Put(ReservesConfigured(m), {HelperIsRiskAdmin(m), <<"reserves 1", m>>, <<"reserves 2", m>>}),
     Take(HelperIsRiskAdmin(m), {Admin(m, "ACL admin")}) >>

SavePoolTokens(m) == << Require({DataProvider(m)}), Save(<<"reserve tokens", m>>, {}) >>

InitReserves(m) ==
  << LoadConfig(m), Require({Provider(m)}), Contract(<<"ReserveStrategy", Net>>, {}),
     Require({TreasuryProxy}) >>
  \o InitReservesByHelper(m) \o ConfigureReservesByHelper(m) \o SavePoolTokens(m)

InitPeriphery(m) ==
  <<LoadConfig(m)>> \o Testnet(<<Contract(<<"MockFlashLoanReceiver", Net>>, {Provider(m)})>>)

\* the template gauge of the in-process test network is left out
InitGauges(m) ==
  << LoadConfig(m),
     Contract(<<"LendingGauge-Implementation", Net>>, {}),
     Require({PoolProxy(m)}) >>
  \o Testnet(<<Require({<<"Minter", Net>>, <<"VotingEscrow", Net>>})>>)
  \o << Contract(<<"GaugeFactory", Net>>, {}),
        Put(<<"deployer is gauge operator", Net>>, {}) >>

-----------------------------------------------------------------------------
(* deploy/03_periphery_post, deploy/04_upgrade, deploy/01-after-deploy.ts  *)
NativeTokenGateway(m) ==
  <<LoadConfig(m)>>
  \o Testnet(<<Require({TestToken(m)})>>)
  \o << Require({PoolProxy(m)}), Contract(<<"WrappedTokenGateway", Net>>, {}) >>

WalletBalanceProvider(m) == Contracts(<<"WalletBalanceProvider">>, {})

UiHelpers(m) ==
  <<LoadConfig(m)>> \o Testnet(<<Require({Aggregator(m)})>>) \o Contracts(<<"UiPoolDataProvider">>, {})

UpgradeImplementations(m) ==
  LET of(name, needs) == Implementation(<<name, m>>, needs, m)
  IN  When(Upgrade,
        <<Require({Provider(m)})>>
        \o of("HToken V2", {<<"pool at provider", m>>})
        \o of("StableDebtToken V2", {<<"pool at provider", m>>})
        \o of("VariableDebtToken V2", {<<"pool at provider", m>>})
        \o of("Pool V2", PoolLibraries)
        \o of("PoolConfigurator V2", {ConfiguratorLogic})
        \o of("Treasury V2", {}))

\* without differences to repair, and without --fix, the reviews only read
ReviewStableBorrow(m)   == << Require({DataProvider(m), ConfiguratorProxy(m)}), LoadConfig(m) >>
ReviewRateStrategies(m) ==
  << Require({DataProvider(m), ConfiguratorProxy(m), Provider(m)}), LoadConfig(m) >>

\* a setting the PoolConfigurator makes for the reserves of the market
ReserveSetting(m, f) == Put(<<f, m>>, IsPoolAdmin(m) \cup {ReservesConfigured(m)})
OfReserves(m, f) ==
  << LoadConfig(m), Require({ConfiguratorProxy(m)}) >>
  \o Testnet(<<Require({TestToken(m)})>>)
  \o <<ReserveSetting(m, f)>>

SetupDebtCeiling(m)   == OfReserves(m, "debt ceilings")
SetupIsolationMode(m) == OfReserves(m, "isolation mode")
SetupLiquidationProtocolFee(m) == OfReserves(m, "liquidation protocol fee")
SetupEModes(m) ==
  << LoadConfig(m), Require({ConfiguratorProxy(m)}) >>
  \o Testnet(<<Require({Aggregator(m), TestToken(m)})>>)
  \o << ReserveSetting(m, "e-mode categories"), ReserveSetting(m, "e-mode assets") >>

AfterDeploy(m) ==
  <<LoadConfig(m)>>
  \o ReviewStableBorrow(m) \o ReviewRateStrategies(m)
  \o SetupDebtCeiling(m) \o SetupIsolationMode(m) \o SetupEModes(m)
  \o SetupLiquidationProtocolFee(m)

-----------------------------------------------------------------------------
(***************************************************************************)
(* The files in the order of their paths, and what hardhat-deploy reads of *)
(* each besides the function.                                              *)
(***************************************************************************)
StepsOf(m) ==
  [ before_deploy    |-> BeforeDeploy(m),
    markets_registry |-> MarketsRegistry(m),
    logic_libraries  |-> LogicLibraries(m),
    light_dao        |-> LightDao(m),
    after_deploy     |-> AfterDeploy(m),
    treasury         |-> Treasury(m),
    provider         |-> SetupAddressesProvider(m),
    token_setup      |-> TokenSetup(m),
    price_aggregators |-> PriceAggregatorsSetup(m),
    pool_impl        |-> PoolImplementation(m),
    l2_pool_impl     |-> L2PoolImplementation(m),
    pool_configurator |-> PoolConfigurator(m),
    init_acl         |-> InitAcl(m),
    deploy_oracles   |-> DeployOracles(m),
    init_oracles     |-> InitOracles(m),
    init_pool        |-> InitPool(m),
    token_impls      |-> TokensImplementations(m),
    init_reserves    |-> InitReserves(m),
    init_periphery   |-> InitPeriphery(m),
    init_gauges      |-> InitGauges(m),
    gateway          |-> NativeTokenGateway(m),
    wallet           |-> WalletBalanceProvider(m),
    ui_helpers       |-> UiHelpers(m),
    upgrade          |-> UpgradeImplementations(m) ]

Files == <<"before_deploy", "markets_registry", "logic_libraries", "light_dao",
           "after_deploy", "treasury", "provider", "token_setup", "price_aggregators",
           "pool_impl", "l2_pool_impl", "pool_configurator", "init_acl", "deploy_oracles",
           "init_oracles", "init_pool", "token_impls", "init_reserves", "init_periphery",
           "init_gauges", "gateway", "wallet", "ui_helpers", "upgrade">>

\* func.tags, the tags some func.dependencies names.  price_aggregators names
\* "tokens-setup", which is no script's tag: it selects nothing.
Tagged ==
  [ t \in {"before-deploy", "core", "periphery-pre", "token-setup", "provider", "init-pool",
           "oracles", "tokens-setup"} |->
    CASE t = "before-deploy" -> <<"before_deploy">>
      [] t = "core"          -> <<"markets_registry", "logic_libraries">>
      [] t = "periphery-pre" -> <<"treasury">>
      [] t = "token-setup"   -> <<"token_setup">>
      [] t = "provider"      -> <<"provider">>
      [] t = "init-pool"     -> <<"init_pool">>
      [] t = "oracles"       -> <<"init_oracles">>
      [] t = "tokens-setup"  -> <<>> ]

DependenciesAllMisspelt(s) == <<>>

\* func.dependencies
Dependencies(s) ==
  LET market   == <<"before-deploy", "core", "periphery-pre", "provider">>
      reserves == market \o <<"init-pool", "oracles">>
  IN  CASE s = "provider" -> <<"before-deploy", "core", "periphery-pre", "token-setup">>
        [] s = "token_setup" -> <<"before-deploy", "periphery-pre">>
        [] s = "price_aggregators" -> <<"before-deploy", "tokens-setup", "periphery-pre">>
        [] s = "deploy_oracles" -> <<"before-deploy">>
        [] s \in {"init_acl", "init_oracles", "init_pool"} -> market
        [] s \in {"init_reserves", "init_periphery"} -> reserves
        [] OTHER -> <<>>

\* func.skip is checkRequiredEnvironment: passed over without MARKET_NAME
NeedsMarketName == {"provider", "token_setup", "price_aggregators", "init_acl",
  "deploy_oracles", "init_oracles", "init_pool", "init_reserves", "init_periphery"}

\* hardhat-deploy puts the dependencies of a script before it, depth first,
\* and the script with func.runAtTheEnd behind all others.
Visit[order \in Seq(ToSet(Files)), s \in ToSet(Files)] ==
  IF s \in ToSet(order) THEN order
  ELSE LET before == FlattenSeq([k \in DOMAIN Dependencies(s) |-> Tagged[Dependencies(s)[k]]])
       IN  Append(FoldLeft(LAMBDA o, t : Visit[o, t], order, before), s)

RunOrder(m) ==
  LET order   == FoldLeft(LAMBDA o, s : Visit[o, s], <<>>, SelectSeq(Files, LAMBDA s : s # "after_deploy"))
      Runs(s) == ~(m = Unnamed /\ s \in NeedsMarketName)
  IN  SelectSeq(Append(order, "after_deploy"), Runs)

\* The scripts that return true and have a func.id.
Recording(m) ==
  DOMAIN StepsOf(m)
    \ ({"before_deploy", "after_deploy", "gateway", "wallet", "ui_helpers"}
       \cup (IF L2 THEN {"pool_impl"} ELSE {})
       \cup (IF Upgrade THEN {} ELSE {"upgrade"}))

\* func.id: of these scripts it does not carry the market's name.
RecordedPerNetwork == {"markets_registry", "logic_libraries", "light_dao", "treasury",
  "pool_impl", "l2_pool_impl", "pool_configurator", "init_gauges"}

IdOf(m, s) == <<s, IF s \in RecordedPerNetwork THEN Net ELSE m>>

\* Everything the steps of a run for m establish or need.
EffectsNamed(m) ==
  UNION {{step.eff} \cup step.needs : step \in UNION {ToSet(StepsOf(m)[s]) : s \in DOMAIN StepsOf(m)}}

=============================================================================
