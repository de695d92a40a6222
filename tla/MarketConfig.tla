---------------------------- MODULE MarketConfig ----------------------------
(***************************************************************************)
(* The markets under markets/ and the lookups of market-config-helpers.ts  *)
(* and init-helpers.ts that the scripts set a market's reserves up with.   *)
(* An address is abstracted to whether it is there: a table per network is *)
(* a function from networks to the symbols it has an address for, and a    *)
(* lookup that throws is one that finds none.  Of a reserve's parameters   *)
(* only those are kept that decide whether the scripts get through.        *)
(***************************************************************************)
EXTENDS Integers, SequencesExt

\* LIVE_NETWORKS; any other network is for test deployments
Live == {"main", "goerli", "sepolia", "polygon", "arbitrum", "harmony",
         "avalanche", "fantom", "optimism"}
Local   == "localhost"
Network == Live \cup {Local}

-----------------------------------------------------------------------------
(***************************************************************************)
(* Reserve parameters: interest rate strategy, baseLTVAsCollateral,        *)
(* liquidationThreshold, liquidationBonus.                                 *)
(***************************************************************************)
Terms(rate, ltv, threshold, bonus) ==
  [rate |-> rate, ltv |-> ltv, threshold |-> threshold, bonus |-> bonus]

HopeLendStrategies ==
  [ DAI    |-> Terms("StableTwo",   7500, 8000, 10500),
    USDC   |-> Terms("USDC",        7500, 8000, 10500),
    WETH   |-> Terms("WETH",        7500, 8000, 10500),
    wstETH |-> Terms("WstETH",      7000, 7500, 10700),
    WBTC   |-> Terms("WBTC",        6000, 6500, 10700),
    USDT   |-> Terms("USDT",        7500, 8000, 10500),
    HOPE   |-> Terms("HOPE",        7000, 7500, 11500),
    stHOPE |-> Terms("StakingHOPE", 6500, 7000, 12000) ]

TestStrategies ==
  [ DAI    |-> Terms("StableTwo",   7500, 8000, 10500),
    USDC   |-> Terms("StableOne",   8000, 8500, 10500),
    WETH   |-> Terms("VolatileOne", 8000, 8250, 10500),
    LINK   |-> Terms("VolatileOne", 7000, 7500, 11000),
    HOPE   |-> Terms("VolatileOne", 5000, 6500, 11000),
    stHOPE |-> Terms("VolatileOne", 5000, 6500, 11000) ]

\* rateStrategyDebtPrevention has the name of rateStrategyVolatileOne.
HarmonyStrategies ==
  [ WONE |-> Terms("VolatileOne", 2500, 4500, 11500),
    DAI  |-> Terms("VolatileOne", 7500, 8000, 10500),
    USDC |-> Terms("VolatileOne", 8000, 8500, 10500),
    HOPE |-> Terms("VolatileOne", 5000, 6500, 11000),
    WETH |-> Terms("VolatileOne", 8000, 8250, 10500),
    LINK |-> Terms("VolatileOne", 7000, 7500, 11000),
    WBTC |-> Terms("VolatileOne", 7000, 7500, 11000),
    USDT |-> Terms("VolatileOne", 7500, 8000, 10500) ]

AvalancheStrategies ==
  [ WAVAX |-> Terms("VolatileOne", 6500, 7000, 11000),
    LINK  |-> Terms("VolatileOne", 5000, 6500, 10750),
    USDC  |-> Terms("StableOne",   8250, 8500, 10400),
    HOPE  |-> Terms("VolatileOne", 6000, 7000, 10750),
    WBTC  |-> Terms("VolatileOne", 7000, 7500, 10650) ] @@ HopeLendStrategies

FantomStrategies ==
  [ WFTM  |-> Terms("VolatileOne", 2500, 4500, 11500),
    LINK  |-> Terms("VolatileOne", 5000, 6500, 10750),
    USDC  |-> Terms("StableOne",   8250, 8500, 10400),
    HOPE  |-> Terms("VolatileOne", 6000, 7000, 10750),
    WBTC  |-> Terms("VolatileOne", 7000, 7500, 10650),
    CRV   |-> Terms("VolatileOne", 7500, 8000, 10500),
    SUSHI |-> Terms("VolatileOne", 2000, 4500, 11000) ] @@ HopeLendStrategies

PolygonStrategies ==
  [ WMATIC |-> Terms("VolatileOne", 6500, 7000, 11000),
    GHST   |-> Terms("VolatileOne", 2500, 4500, 11500),
    CRV    |-> Terms("VolatileOne", 7500, 8000, 10500),
    DPI    |-> Terms("VolatileOne", 2000, 4500, 11000),
    BAL    |-> Terms("VolatileOne", 2000, 4500, 11000),
    SUSHI  |-> Terms("VolatileOne", 2000, 4500, 11000),
    LINK   |-> Terms("VolatileOne", 5000, 6500, 10750),
    EURS   |-> Terms("StableOne",   6500, 7000, 10750) ]

PolygonStables ==
  [ JEUR   |-> Terms("StableOne",      0,    0,     0),
    AGEUR  |-> Terms("StableOne",      0,    0,     0),
    USDC   |-> Terms("StableOne",   8250, 8500, 10400),
    HOPE   |-> Terms("VolatileOne", 6000, 7000, 10750),
    WBTC   |-> Terms("VolatileOne", 7000, 7500, 10650) ]

OptimisticStrategies ==
  [ SUSD |-> Terms("StableOne", 0, 0, 0) ] @@ HopeLendStrategies

-----------------------------------------------------------------------------
(***************************************************************************)
(* The markets: ReservesConfig in the order its keys are written, and for  *)
(* the networks named there, the symbols that have a non-zero address.     *)
(***************************************************************************)
HopeLendSymbols == <<"WETH", "wstETH", "USDT", "USDC", "HOPE", "stHOPE", "WBTC">>

\* HopeLendMarket with the CommonsConfig of markets/hopeLend/commons.ts
HopeLendMarket ==
  [ ReservesConfig      |-> HopeLendSymbols,
    terms               |-> HopeLendStrategies,
    RateStrategies      |-> {"WETH", "WstETH", "USDT", "USDC", "HOPE", "StakingHOPE", "WBTC"},
    ReserveAssets       |-> [n \in {"main", "goerli", "sepolia"} |-> ToSet(HopeLendSymbols)],
    ChainlinkAggregator |-> [n \in {"main", "goerli", "sepolia"} |-> ToSet(HopeLendSymbols)],
    FallbackOracle      |-> {"main", "goerli", "sepolia"} ]

\* The test market with its own CommonsConfig
TestMarket ==
  [ ReservesConfig      |-> <<"DAI", "USDC", "WETH", "LINK", "HOPE", "stHOPE">>,
    terms               |-> TestStrategies,
    RateStrategies      |-> {"VolatileOne", "StableOne", "StableTwo"},
    ReserveAssets       |-> [main |-> {"HOPE", "DAI", "USDC", "WETH", "LINK"}],
    ChainlinkAggregator |-> [main |-> {"HOPE", "DAI", "LINK", "USDC", "WBTC", "WETH",
                                       "USDT", "EURS"}],
    FallbackOracle      |-> {"main"} ]

\* { ...HopeLendMarket, ReservesConfig, ReserveAssets, ChainlinkAggregator }
Inherits(symbols, terms, assets, aggregators) ==
  [ HopeLendMarket EXCEPT !.ReservesConfig      = symbols,
                          !.terms               = terms,
                          !.ReserveAssets       = assets,
                          !.ChainlinkAggregator = aggregators ]

HarmonyMarket ==
  LET symbols == <<"DAI", "LINK", "USDC", "WBTC", "WETH", "USDT", "HOPE", "WONE">>
  IN  Inherits(symbols, HarmonyStrategies,
               [harmony |-> ToSet(symbols)], [harmony |-> ToSet(symbols)])

AvalancheMarket ==
  LET symbols == <<"DAI", "LINK", "USDC", "WBTC", "WETH", "USDT", "HOPE", "WAVAX">>
  IN  Inherits(symbols, AvalancheStrategies,
               [avalanche |-> ToSet(symbols)], [avalanche |-> ToSet(symbols)])

FantomMarket ==
  LET symbols == <<"DAI", "LINK", "USDC", "WBTC", "WETH", "USDT", "HOPE", "WFTM",
                   "CRV", "SUSHI">>
  IN  Inherits(symbols, FantomStrategies,
               [fantom |-> ToSet(symbols)], [fantom |-> ToSet(symbols)])

PolygonMarket ==
  LET symbols == <<"DAI", "LINK", "USDC", "WBTC", "WETH", "USDT", "HOPE", "WMATIC", "CRV",
                   "SUSHI", "GHST", "BAL", "DPI", "EURS", "JEUR", "AGEUR">>
  IN  Inherits(symbols, PolygonStrategies @@ PolygonStables @@ HopeLendStrategies,
               [polygon |-> ToSet(symbols)], [polygon |-> ToSet(symbols)])

OptimisticConfig ==
  LET symbols == <<"DAI", "USDC", "WBTC", "WETH", "USDT", "HOPE", "SUSD">>
  IN  Inherits(symbols, OptimisticStrategies,
               [optimism |-> ToSet(symbols) \cup {"LINK"}],
               [optimism |-> ToSet(symbols) \cup {"LINK"}])

ArbitrumConfig ==
  LET symbols == <<"DAI", "USDC", "WBTC", "WETH", "USDT", "HOPE">>
  IN  Inherits(symbols, HopeLendStrategies,
               [arbitrum |-> ToSet(symbols) \cup {"LINK", "EURS"}],
               [arbitrum |-> ToSet(symbols) \cup {"LINK", "EURS"}])

loadPoolConfig ==
  [ HopeLend   |-> HopeLendMarket,  Test     |-> TestMarket,
    Harmony    |-> HarmonyMarket,   Avalanche |-> AvalancheMarket,
    Fantom     |-> FantomMarket,    Polygon  |-> PolygonMarket,
    Optimistic |-> OptimisticConfig, Arbitrum |-> ArbitrumConfig ]

Market == DOMAIN loadPoolConfig

-----------------------------------------------------------------------------
(***************************************************************************)
(* The lookups.  No market sets TestnetMarket, so that a network alone     *)
(* decides what isProductionMarket says.                                   *)
(***************************************************************************)
isProductionMarket(network) == network \in Live

\* what a table has for a network; getRequiredParamPerNetwork throws for {}
getParamPerNetwork(param, network) ==
  IF network \in DOMAIN param THEN param[network] ELSE {}

Symbols(poolConfig) == ToSet(poolConfig.ReservesConfig)

\* token_setup and light_dao deploy a token for every symbol of the market,
\* price_aggregators_setup an aggregator for every such token.
getReserveAddresses(poolConfig, network) ==
  IF isProductionMarket(network)
  THEN getParamPerNetwork(poolConfig.ReserveAssets, network)
  ELSE Symbols(poolConfig)

getChainlinkOracles(poolConfig, network) ==
  IF isProductionMarket(network)
  THEN getParamPerNetwork(poolConfig.ChainlinkAggregator, network)
  ELSE Symbols(poolConfig)

\* deploy_oracles deploys one where the configuration has none, but only for tests.
getFallbackOracleAddress(poolConfig, network) ==
  network \in poolConfig.FallbackOracle \/ ~isProductionMarket(network)

=============================================================================
