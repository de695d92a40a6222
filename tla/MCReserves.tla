----------------------------- MODULE MCReserves -----------------------------
(***************************************************************************)
(* Model values for TLC: ReserveSetup for the markets of MarketConfig.     *)
(* The cfg's names stand one definition behind the sets, so that TLC       *)
(* computes each set once.                                                 *)
(***************************************************************************)
EXTENDS ReserveSetup, MarketConfig

PoolConfigs == {loadPoolConfig[m] : m \in Market}

AllSymbols == UNION {Symbols(poolConfig) : poolConfig \in PoolConfigs}

RatesOf(poolConfig) ==
  {poolConfig.terms[r].rate : r \in Symbols(poolConfig)} \cup poolConfig.RateStrategies

AllRates == {"none"} \cup UNION {RatesOf(poolConfig) : poolConfig \in PoolConfigs}

\* PoolConfigurator.configureReserveAsCollateral on a reserve's parameters
Sensible(terms) ==
  /\ terms.ltv <= terms.threshold
  /\ IF terms.threshold = 0 THEN terms.bonus = 0
     ELSE terms.bonus > 10000 /\ terms.threshold * terms.bonus <= 10000 * 10000

\* What a run for a market finds on a network, for all symbols there are
Found(poolConfig, network, symbols) ==
  LET own         == Symbols(poolConfig)
      rate(r)     == IF r \in own THEN poolConfig.terms[r].rate ELSE "none"
      Explicit(S) == {r \in S : TRUE}
      Such(P(_))  == {r \in own : P(poolConfig.terms[r])}
  IN  [ order      |-> poolConfig.ReservesConfig,
        token      |-> Explicit(getReserveAddresses(poolConfig, network)),
        feed       |-> Explicit(getChainlinkOracles(poolConfig, network)),
        fallback   |-> getFallbackOracleAddress(poolConfig, network),
        rate       |-> FoldSet(LAMBDA r, f : (r :> rate(r)) @@ f, <<>>, symbols),
        rates      |-> Explicit(poolConfig.RateStrategies),
        noLtv      |-> Such(LAMBDA t : t.ltv = -1),
        collateral |-> Such(LAMBDA t : t.threshold # 0),
        valid      |-> Such(Sensible) ]

\* HopeLend with an aggregator left out; without a fallback oracle; with a
\* reserve that has no baseLTV and one that is no collateral, as Polygon and
\* Optimistic have them.
Edited(hopeLend) ==
  { [hopeLend EXCEPT !.feed = @ \ {"HOPE"}],
    [hopeLend EXCEPT !.fallback = FALSE],
    [hopeLend EXCEPT !.noLtv = {"USDT"}, !.collateral = @ \ {"stHOPE"}] }

FoundOn(networks, symbols) ==
  {Found(p[1], p[2], symbols) : p \in PoolConfigs \X networks}

FoundAnywhere ==
  FoundOn(Network, AllSymbols) \cup Edited(Found(HopeLendMarket, "main", AllSymbols))

FoundLocally == FoundOn({Local}, AllSymbols)

MCReserve == AllSymbols
MCRate    == AllRates
MCConfig  == FoundAnywhere
MCLocal   == FoundLocally

(* "Unsupported pool configuration: ${configName} is not one of the        *)
(* supported configs ${Object.values(ConfigNames)}", market-config-        *)
(* helpers.ts:118: of the configurations supported, each can be set up on  *)
(* a local node when no run is killed.                                     *)
SupportedMarketsSetUp == status # "failed"

=============================================================================
