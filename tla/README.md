# A formal model of the HopeLend deployment scripts

The repository deploys and configures HopeLend markets: hardhat-deploy scripts under
`deploy/`, helpers under `helpers/`, one configuration per market under `markets/`, and
hardhat tasks under `tasks/` for what comes after (configuration, hand-over of the roles,
upgrades, gauges, reviews).  No contract of the protocol is in it, only their ABIs.  What can
go wrong is therefore not in a contract but in the *procedure*: a run of a few hundred
transactions against a chain that outlives it, killed and run again, over files that are
supposed to remember what was done.

This directory holds TLA+ models of that procedure, TLC runs over the real tables of scripts,
and TLAPS proofs for every table of scripts, every configuration and all accounts.

## 1. Inventory

| Component | State it keeps | Operations | Interacts with |
|---|---|---|---|
| Engine: `npm run deploy` = `hardhat deploy` (hardhat-deploy is external) | `deployments/<network>/*.json` (artifacts), `.migrations.json` (recorded `func.id`s), the process: current script and step | order the scripts, skip what is recorded, run a script, record it when it returns `true` | runs the scripts |
| Scripts `deploy/**` (24 files) | nothing of their own | `deploy`, `save`, `deployments.get`, chain reads, `waitForTx(tx)` | artifacts and chain state are their only channel to each other |
| Helpers `init-helpers.ts` | nothing | `initReservesByHelper`, `configureReservesByHelper`, `addMarketToRegistry`, `getPairsTokenAggregator` | called by scripts 00, 05, 08 |
| Market configuration `market-config-helpers.ts`, `deploy-ids.ts`, `env.ts`, `markets/**` | environment variables | `loadPoolConfig`, address lookup per network, ids with and without the market's name | every script |
| After-deploy tasks `setup-*`, `review-*` | nothing | one transaction per reserve and setting | called by `01-after-deploy.ts`, or by the operator |
| Hand-over `transfer-protocol-ownership.ts`, `renounce-pool-admin.ts` | roles and owners on chain | grant to the multisig, then revoke; two-step ownership transfers | the multisig accepts at any time |
| Token upgrade `upgrade-htokens*.ts` | implementation per token on chain | one upgrade transaction per token | reviews |
| Gauges `create-lending-gauge.ts`, `setup-lending-gauge.ts` | gauges at the factory, their phases, the pool's gauge per token | `createLendingGauge`, `addPhases`, `setLendingGauge` (not awaited) | the operator role and the pool admin's |
| Views, verification, single-contract tasks | nothing | print, verify, one call | |

The chain keeps what the contracts know: roles, proxies, initialized implementations, reserve
settings.  Behaviours that are hard:

* **Crash and re-run.**  The process may die at any step, including after a transaction was
  sent and before its receipt was seen.  The next run starts over from the first script that
  is not recorded, with whatever is on chain and on disk.
* **Transactions in flight.**  `deployments.get` and chain reads of the next run do not see
  what is still pending; the pending transaction is mined later.
* **Once-only transactions.**  `initialize()` of an implementation, `registerAddressesProvider`,
  `setPoolImpl` for the first proxy and `initReserves` revert when they are repeated.
* **Order.**  File order plus `func.dependencies`, one of them misspelt.
* **Several markets on one network** share ids that do not carry the market's name.
* **Loops over reserves** that read all of them before they send anything, send in chunks, or
  send without looking at what is there.
* **A transaction nobody waits for**: `setLendingGauge` is in flight when its task has ended.
* **Configurations joined by name**: eight markets that inherit from one another, tables per
  network, rate strategies looked up as artifacts.
* **Partial hand-over**: accounts must neither lose a role before someone else has it nor keep
  one after the hand-over is said to be complete.

What makes each component correct: the record is true and a finished run is complete (engine
and scripts); a run finds everything it reads, so that it fails for no reason but a repeat
(order, roles); retrying makes progress unless a named situation blocks it (liveness); the
right a script gives a helper does not outlive it; reserves get a price source before they are
listed and are listed before they are configured, in the order of the configuration
(initialization helpers); every supported configuration has what the scripts look up (markets);
settings are all made in the end, and nothing done half stays unnoticed (tasks); no role is ever
vacant and the deployer keeps none (hand-over).  The hazards, each at its line and with the properties that cover it,
are listed in `PROJECT.json`.

## 2. Modules

| Module | Models |
|---|---|
| `DeployEngine` | a run of the scripts, for any table of scripts: processes, artifacts, record, chain, pending transactions, crashes |
| `DeployScripts` | the tables: every script of `deploy/` with the helpers and tasks it calls, their order, ids and tags |
| `MCDeploy` | instance of the two for TLC, and what the comments of the scripts say of a second market |
| `DeployEngine_proofs` | theorems about `DeployEngine` for every table |
| `DeployTables` | what the properties of failures, re-runs and additions ask of a table, and their inductive invariants |
| `MCTables` | `MCDeploy` with these conditions assumed, so that TLC evaluates them on the real tables |
| `DeployTables_proofs` | theorems about `DeployEngine` for every table that meets them |
| `ReserveListing` | abstract: what the scripts promise about reserves |
| `ReserveSetup` | the check of the provider script, the price sources, `initReservesByHelper` and `configureReservesByHelper`, reserve by reserve; implements `ReserveListing` |
| `MarketConfig` | the eight markets as tables and the lookups of `market-config-helpers.ts` as functions |
| `MCReserves` | instance of `ReserveSetup` for the markets of `MarketConfig` |
| `ReserveSetup_proofs` | theorems about `ReserveSetup` for every configuration, the refinement among them |
| `ReserveTasks` | hook, reviews with `--fix`, token upgrades and gauge tasks on the reserves that are set up |
| `MCTasks` | three reserves and six menus of tasks for TLC |
| `ReserveTasks_proofs` | theorems about `ReserveTasks` for any reserves, settings and menus |
| `Succession` | abstract: what a hand-over promises of the items handed over |
| `Handover` | `transfer-protocol-ownership` and `renounce-pool-admin`: roles, owners, pending transactions, kills and re-runs, new owners that accept; implements `Succession` |
| `MCHandover` | accounts for TLC |
| `Handover_proofs` | theorems about `Handover` for all accounts |

`DeployScripts` ends where the after-deploy hook looks at `TRANSFER_OWNERSHIP`, and `Handover`
begins there: its initial states are those the scripts leave.  `ReserveSetup` refines the one
token and the two chunks that stand for the reserves in `DeployScripts`, and `ReserveTasks` does
the same for the tasks of the hook, whose place in a run is in `DeployScripts`.

### DeployEngine

A script is a sequence of steps.  A step has a kind, an effect it establishes and the effects
it needs:

| Kind | Code |
|---|---|
| `require` | `deployments.get(id)`, `loadPoolConfig`, an `if (!ok) throw` |
| `deploy` | `deployments.deploy(id, ..)`, `deployments.save(id, ..)` |
| `unless` | a chain read and the `if` over the steps that follow (`isPoolProxyPending`, `alreadyEnabled`) |
| `once` | `waitForTx` of a transaction that reverts when its effect already holds |
| `set`, `unset` | `waitForTx` of a transaction that may be repeated; that takes something away |
| `add` | `waitForTx` of a transaction that is accepted again with another effect (`addType`) |

| Variable | In the code |
|---|---|
| `artifacts`, `migrations` | `deployments/<network>/<id>.json`, `.migrations.json` |
| `chain` | state of the contracts; how often each fact was established |
| `pending` | transactions broadcast and not mined; one account, so in nonce order |
| `status`, `market`, `pos`, `pc` | the hardhat process: its `MARKET_NAME`, script, next statement |
| `crashes` | bound on the environment |

`SendTx` and `MineAwaited` are `waitForTx(await ...)`: the process is suspended in between and
`Crash` may come there, which leaves the transaction to `MineOrphan`.  `ReadChain` reads the
latest block, never `pending`.  `Deploy` creates the contract behind everything already pending
(same account), and writes the artifact; a kill between the two only leaves an unused
contract.  `FinishScript` records the id exactly when the script returns true.

### DeployScripts

One definition per file.  `StepsOf(m)` puts them in a record, `RunOrder(m)` is hardhat-deploy's
order (paths, dependencies depth first, `runAtTheEnd` last, `skip` without `MARKET_NAME`),
`Recording(m)` the scripts that return true under an id, `IdOf` their `func.id`.  Abstractions:
the reserves of a market are one token, all used as collateral, initialized in two chunks; a
loop over reserves in the after-deploy tasks is one transaction per setting; constructor
arguments are left out; the transactions of `02_light_dao_address` that are sent without `waitForTx`
are awaited here, since the script gets to them only on a node with `time.increase`, which mines on
receipt; the parts only the in-process `hardhat` network runs are left out,
since that network does not outlive the process.

### Handover

Each task is a sequence of *sections*.  A section reads who has a role or owns a contract and,
if it is the account the section is about, sends its transactions, one `waitForTx` after the
other.  The tables `Transfer` and `Renounce` list them in the order of the code:

| Kind | Read | Transactions |
|---|---|---|
| `grant` | `!isFlashBorrower`, and `flashBorrower` is not the zero address | `addFlashBorrower` |
| `move` | `isOperator(deployer)`, `isPoolAdmin(poolAdmin)`, `hasRole(0, deployer)`, .. | grant to the successor, then revoke |
| `name` | `getACLAdmin() === deployer` | `setACLAdmin` |
| `offer` | `owner() === deployer` | `transferOwnership` (two-step) |
| `renounce` | deployer and multisig are pool admins | `renounceRole` |

| Variable | In the code |
|---|---|
| `members` | the roles at `ACLManager` and the operators of `GaugeFactory` |
| `owner`, `offered` | `owner()`, `pendingOwner()`; for the provider also `getACLAdmin()` |
| `pending` | transactions broadcast and not mined, in nonce order |
| `status`, `task`, `sec`, `stage` | the hardhat process: how it runs or ended, its task, section, next statement of the section |
| `crashes` | bound on the environment |

`Exit` and `Proceed` are the checks at the top (`exit(403)`, `exit(0)`), `Read` the section's
`if`, `Throw` ethers' refusal of an `undefined` address, `Send` and `MineAwaited` the
`waitForTx`, `NextSection` the end of a section, `Finish` the table at the end.  `MineOrphan`
mines what a killed run has sent, `Accept` is `acceptOwnership()` of a new owner at any time,
and `Launch` starts either task whenever none runs, the hook's order being one of them.
All five contracts are two-step: the ABIs of the provider, the registry, `WrappedTokenGateway`,
`ReservesSetupHelper` and `HopeLendEcosystemReserveController` (the treasury controller,
`01_treasury.ts:42`) under `abi/` have `pendingOwner` and `acceptOwnership`, also where the result
table of the task reads `owner()`.
`ViewProtocolRoles` is the table of `view-protocol-roles.ts`, row by row; its rows on the asset
listing admin, the risk admin and the treasury proxy's admin are left out.
Left out: `aclAdmin`, `poolAdmin` and `deployer` may be different accounts of one operator, here
transactions are signed by one; the risk and asset-listing admins, the
treasury proxy's admin and the ownership of `GaugeFactory`, which the tasks do not touch (so
"powerless" is about the roles and contracts they do).

`Succession` knows of each role and contract only whether it is kept, shared (a successor has the role
too; the contract is offered) or moved.  One item at a time goes on, in the order of the table, a role
or contract never without the stage in between, and none goes back; an acceptance may come at any
later time.  `Handover` implements it with `Phase`, computed from who has what on chain, in the order
`HandedOverOrder`, which is written out apart from the table of sections.

### ReserveSetup and MarketConfig

A configuration is a record of what the scripts find: `ReservesConfig` in order, the symbols
with a token, with an aggregator, the fallback oracle, the strategy of each reserve and those
the market deploys, and which parameters the `PoolConfigurator` takes.  `MarketConfig` has the
markets as the files under `markets/` write them (`Inherits` is `...HopeLendMarket`), and
`MCReserves` computes the record for each market on each network (`Found`), with three edited
ones: an aggregator missing, no fallback oracle, a reserve without `baseLTVAsCollateral`.

| Variable | In the code |
|---|---|
| `config` | what all runs find for their `MARKET_NAME` on their network |
| `recorded`, `strategies` | `.migrations.json`, the artifacts `ReserveStrategy-<name>` |
| `priced`, `listed`, `configured`, `riskAdmin` | `setAssetSources`, `initReserves`, `configureReserves`, `addRiskAdmin` on chain |
| `pending`, `status`, `crashes` | as in `DeployEngine` |
| `stage`, `at`, `queue` | the statement, the reserve the loop is at, what it has collected |

`ReadReserve` and `ReadConfiguration` are one round of the two loops, each with its own read of
the latest block; `Send` sends the first chunk of the queue; `Throw` is every reason to stop that
is not a transaction.  `Throws` at stage `sources` is `getPairsTokenAggregator`: a token without
aggregator stops the run before `setAssetSources`, with the TypeError of `init-helpers.ts:192`
instead of the message of line 195, which no input reaches with an aggregator missing.
The filter on `hTokenImpl` (`init-helpers.ts:105`) is left out: every reserve under `markets/` has
`eContractid.HToken`, so it drops none.
The three scripts are those of `DeployScripts`, without their other steps.

`ReserveListing` has three actions (price, list, configure) on the same facts and says what holds
between them whoever is killed.  `ReserveSetup` implements it with
`sufficient <- Listable`: the configuration has tokens, aggregators, fallback oracle and deployed
strategies for exactly its reserves.

### ReserveTasks

A task is a plan, the steps of its loop; a step is the transaction it sends for one reserve,
with the flag of a review that reads first.  `Plans` gives the plans of each task: a review may
be restricted by `--checkOnly`, and `upgrade-htokens` and the gauge tasks may return early.
`Skip` is `continue`, `Post` is `setLendingGauge`, after which the process goes on without a
receipt; `MineOther` mines what was posted or left by a killed process.  `menu` is the set of
tasks an operator keeps to: it is chosen once and never changes, so that the six menus are
checked in one run.  The hand-over is one transaction here, after which the deployer's
transactions are refused.

The tokens begin with or without the revision `upgrade-htokens` is going to deploy; where they have
it already, the first `updateHToken` of the first upgrade reverts.  `CapKnown` are the reserves for
which `review-supply-caps` finds a cap: at any other one it ends, by `exit(3)` when `ReserveAssets`
lacks the address, by a TypeError when the symbol in upper case is not in `ReservesConfig`.  Without
`ReserveAssets` (`exit(2)`) no reserve has one, and the task ends before it sends anything.

External: the factory refuses a second gauge for a token, the token proxies refuse a second
upgrade to the same revision, `setAssetEModeCategory` needs its category, and a gauge its
creation.

## 3. Runs

| Run | Instance | Shows |
|---|---|---|
| `production` | one market, live network, 3 crashes | `TypeOK`; `RecordedMeansDone`; `FinishedMeansComplete`; `FailureIsARepeat`; `StuckIsPermanent` |
| `testnet` | one market, rollup's test network with mocks and Light-DAO, upgrade script, 2 crashes | `EngineInv`, `FailureIsARepeat` and its `RepeatInv`, `AddedOnce`; under fairness `FinishesUnlessStuck` |
| `two_markets` | two markets and runs without a name, 1 crash | `CompleteMarketReruns`, `RerunInv`; the assumptions of `MCTables` |
| `second_market` | two markets, no crash | **violates** `EveryMarketDeploys` |
| `temporal_admin` | one market, 1 crash | **violates** `NoTemporaryLeft` |
| `reserves` | the markets on their networks, three edited configurations, chunks of 3 and 4, 3 kills | `SetupInv`, `RecordedMeansSetUp`, `ListedInOrder` and its `ListOrderInv`, `SetupFailureIsExplained` and its `SetupFailureInv`; the refinement `ListingSpec`; under fairness `AllSetUp` |
| `supported_markets` | each market on a local node, no kill | **violates** `SupportedMarketsSetUp` |
| `maintenance` | three reserves, six menus of tasks, 2 kills | `TasksInv`, `PostedNeverReverts`, `GaugesReady`, `TaskFailureIsExplained` and its `TaskFailureInv`, `CutShortForGood` and `UpgradeInv`, `HookEndsWell` and `HookInv`; under fairness `HookSettles` |
| `handover` | accounts of a network with one for each purpose, 3 kills | `TypeOK`, `HandoverInv`, `OrderInv`, `HandoverComplete`, `FailureMeansHandedOver`, `ProviderAfterRoles`, `NothingComesBack`; the refinement `OneByOneInTurn`; under fairness `HandedOver` |
| `handover_undefined` | pool and ACL multisig undefined (every network but goerli), a zero flash borrower, 2 kills | `RolesNeverVacant`: the transfer throws in the middle, and no role is ever without a member |
| `handover_default` | the repository's named accounts, all account 0 | **violates** `NamedAccountsHaveRoles` |
| `handover_rerun` | one kill | **violates** `AlreadyMeansHandedOver` |

*Bounds.*  `MaxCrashes` bounds the kills.  One crash reaches every single wedge and every
half-done step; two add a crash of the recovering run, and a second transaction in flight;
three is there for margin.  Re-runs are not bounded: `Launch` is enabled from every stopped
state.  The same holds of the hand-over, where three kills leave up to three transactions in
flight behind which a fourth run reads.  Two markets are enough for every collision of ids,
which is pairwise.

`reserves` takes the markets at their full size, up to sixteen reserves, so that the chunks of
three of the code are cut in every way a kill can cut them.  The chunk of `configureReserves` is
20 in the code and larger than every market, so the run takes 4, and the loop over chunks
happens; the proofs are for every size of chunk.  In `maintenance` three reserves give every
loop a first, a middle and a last round, one of them without a supply cap that is found,
and each setting asked for by some of them only; two kills leave two transactions in flight.  The menus keep
apart tasks that write different things, and put together those that may disturb one another:
hook and review of the same setting, hook and hand-over, gauges and hand-over.

*Fairness.*  `FairSpec` has weak fairness of the process (a live hardhat process executes its
next statement), of mining (a sent transaction is mined: one sender, and later transactions
cannot overtake), and of `Launch` (the operator runs a failed or killed deployment again).
Crashes have none.

The `FairSpec` of `Handover` has weak fairness of the process, of mining and of each new owner's
acceptance, and strong fairness of launching the *transfer*: the operator may run
`renounce-pool-admin` any number of times, and must not run it forever instead.  After a kill
`HandedOver` allows one other end, the provider accepted before the transfer was run again;
`handover_rerun` shows that this end is reached.

The `FairSpec` of `ReserveSetup` is like that of the engine.  That of `ReserveTasks` has weak
fairness of the process and of mining, and strong fairness of launching the hook: an operator
who has it on the menu may run any other task in between, but does come back to it.

*The violated properties* quote the code.  `second_market`: ids without the market's name
(`02_light_dao_address.ts:250`) against the "once per market" of seven scripts.  HOPE and stHOPE
of the second market are never deployed, because the script that does it is recorded; with them
in place, the same would happen at `01a_pool_implementation.ts:52`.
`supported_markets`: the "supported configs" of `loadPoolConfig` against six markets whose
reserves name rate strategies that the `RateStrategies` they inherit does not have.
`temporal_admin`: "temporal admin" and "Remove ReservesSetupHelper from risk admins" against a
removal that stands behind the read the middle step changed.  `handover_default`: the assertions
of the result tables against grant-then-revoke of one and the same account.  `handover_rerun`:
"already transferred the ownership" against a test of the one contract that is offered in the
middle.

Two rows of the table a transfer prints (`transfer-protocol-ownership.ts:234` and `:245`) assert
`owner()` of contracts that were only just offered and so print `false` until the new owners
accept, unlike the rows that assert `pendingOwner()`; no run is spent on it.

Other disagreements that were met, on which no run is spent:

* `market-config-helpers.ts:126` says that a run without `MARKET_NAME` skips the market, but
  `02_light_dao_address` and others have no `func.skip` and call `loadPoolConfig`,
  which throws: the run aborts in `00_core`.  `two_markets` has such runs and shows that they do
  no harm to a market that is complete.
* `review-supply-caps --fix` looks symbols up in upper case (`review-supply-caps.ts:75`), so that
  it throws a TypeError at wstETH and stHOPE, after it fixed the reserves before.  `Throws` has it.
* `review-e-mode` compares the category `--id` with `StableEMode` of the configuration, whatever
  the id (`review-e-mode.ts:37`), and throws for HopeLend, which has no such category.
* "Returns true if tokens upgraded, false if not" (`upgrade-htokens.ts:16`): it never returns true.

## 4. Proofs

`DeployEngine_proofs` proves, for all constants that satisfy the three assumptions of
`DeployEngine` (the tables are well typed; an `unless` passes only over steps that lead to
what it read; once-only facts are never taken away; TLC checks them of the real tables on
every run):

* `EngineInvariant`: `Spec => []EngineInv`.  None of the other invariants is inductive by
  itself: that a recorded script is done needs to know, when `FinishScript` records it, that
  each of its steps happened, in this run or under an `unless`.  `DoneSoFar` says so of the
  current script up to `pc`; it needs `AwaitedIsLast` (a run moves on from a transaction only
  when that very transaction was accepted) and `OnlyTemporaryTaken` (nothing in flight removes
  a lasting fact).  `PassedAccounted` says it of the scripts before `pos`.
* `TypeCorrect`: `Spec => []TypeOK`.
* `RecordIsTrue`: `IdsSeparateWork => (Spec => []RecordedMeansDone)`.  The premise is necessary:
  the tables of two markets do not satisfy it, which is what `second_market` runs into.  For
  one market TLC checks it (`OneMarketIdsAssumption`).
* `FinishedIsComplete`: `IdsSeparateWork => (Spec => []FinishedMeansComplete)`.
* `StuckForGood`: `IdsSeparateWork => (Spec => StuckIsPermanent)`, from monotonicity of what is on
  chain.

`DeployTables_proofs` proves what depends on the contents of the tables, from conditions on the
tables alone.  `InOrder` says that a step needs what steps and scripts before it leave, and that a
right given for one step is given right before it; `OnceIsOwn` that a once-only transaction is one
step's; `Repeatable` that some script leaves what no other does, and that all once-only
transactions stand in recorded scripts before it; `AddsAccounted` that additions stand behind a
once-only transaction of their script.  The scripts' tables meet them: TLC evaluates the
three assumptions of `MCTables`, which say so, for one market in production (`temporal_admin`) and for
two markets on a test network, where Light-DAO does add (`two_markets`).  `InOrder` is part of
`Repeatable`.

* `FailureRepeats`: `IdsSeparateWork /\ (\A m, n : OnceIsOwn(m, n)) /\ (\A m : InOrder(m)) =>
  (Spec => []FailureIsARepeat)`.  A step finds what it needs, because what was left before is held:
  by the current run (`DoneSoFar`), or by the record (`RecordIsTrue`, hence the premise on ids, which
  leaves out two markets).  A right that is taken away again is in place where it is used
  (`TemporaryInPlace`): the transaction of a killed run that takes it away would be mined between, but nonces
  keep it before the run's own grant.  Without a kill, a once-only fact that is there belongs to a
  recorded script or to a step the live run is beyond (`OnceAccounted`), and a run is never at a script
  that is recorded (`NotYetRecorded`), so that nothing is repeated.  Together, with the position of
  a failed run, they are `RepeatInv` (`RepeatInvariant`).
* `CompleteReruns`: `Spec => [](market \in MayRepeat => CompleteMarketReruns)`.  This holds with
  several markets on one network, where a record may be false: `OwnRecordsTrue` is what is left of
  `RecordIsTrue`, for scripts that share their id with no other work.  What only the last scripts
  leave shows that all scripts before them are recorded (`ClosedInOrder`), a once-only transaction
  is then not tried again, and any other failure is one where something is missing that no pending
  transaction brings (`FailedForGood`).  They are `RerunInv`, which holds for every table
  (`RerunInvariant`).
* `AddedOnceOnly`: `AddsAccounted => (Spec => []AddedOnce)`.  `addType` is accepted again and again.
  Only one process ever gets beyond the once-only transaction that stands before it, since that of
  every other reverts; so additions are counted against the position of this one process while it lives,
  and afterwards at most one more is under way (`AddInv`).

`Handover_proofs` proves, for all accounts (undefined multisigs included) and any number of
kills:

* `TypeCorrect`: `Spec => []TypeOK`, with `AwaitedIsLast` as the strengthening: the stage of a
  section moves on only past its own transaction.
* `SuccessorsInPlace`: `SuccessorsDiffer => (Spec => []HandoverInv)`.  That a role has a member is
  not inductive: a transaction of a killed run may take the role from its last member after the
  task was launched again.  `RemovalsCovered` says of every pending removal, and
  `SuccessorFirst` of the one the task is about to send, that the successor already has the
  role and is not the one removed.  Mining keeps both, since no transaction takes a role from
  its successor.  The premise, that no role moves to the account it is taken from, is
  necessary: the default accounts do not satisfy it, which is what `handover_default` runs into.
* `NoRoleVacant`: `SuccessorsDiffer => (Spec => []RolesNeverVacant)`.

and, where in addition neither the multisig nor the treasury's admin is the deployer
(`OthersTakeOver`; an offer to oneself would be no hand-over, and the accounts of the run `handover`
meet it):

* `TransferInOrder`: `OthersTakeOver => (Spec => []OrderInv)`.  A run may find a section's work
  done or under way from a killed run, and its reads see only what is mined.  `ClearedSoFar` says of
  every section a run is beyond that it is cleared, `SentInOrder` of every transaction in flight, of
  whichever run, that it belongs to a section before which all are cleared, `AuthInOrder` that the
  right to move roles goes last and the provider is offered after six sections.  They are kept because
  no step makes a cleared section uncleared, which is `NothingComesBack`.
* `TransferComplete` (`HandoverComplete`) and `ProviderIsLast` (`ProviderAfterRoles`) follow from it.
* `ImplementsSuccession`: `OthersTakeOver => (Spec => OneByOneInTurn)`, the refinement.  A mined
  transaction begins its item, for which it is the turn by `SentInOrder`, completes it, for which
  the successor is in place by `HandoverInv`, or repeats what is done and stutters; an acceptance
  completes a contract; every other step stutters.
* `HandedOverForGood`: `NothingComesBack`, an action property: no grant in flight, of any run,
  gives a role to whom it was taken from, and no offer is overwritten by nobody.
* `FailureExplained`: `FailureMeansHandedOver`.  `SettledFailure` keeps what made a task throw or a
  transaction revert until the next launch.

`ReserveSetup_proofs` proves, for every set of configurations, sizes of chunks and number of
kills:

* `SetupInvariant`: `Spec => []SetupInv`.  That what is recorded is there is not inductive: a
  script is recorded when a run gets to its end, so `StageHolds` says for each stage what the run
  has seen to, with `Before(at) \subseteq listed \cup AsSet(queue)` as the invariant of the two
  loops, and `SentHolds` says of every transaction in flight, of this run or a killed one, that
  the oracle has a source for what it lists.  The lemmas on `Chunk` and `Rest` say that a chunk
  and what follows it are the queue again.
* `RecordIsTrue`: `Spec => []RecordedMeansSetUp`.
* `ImplementsListing`: `Spec => ListingSpec`, the refinement.  An initial state maps to an initial
  state; mining `setAssetSources`, `initReserves` or `configureReserves` maps to `Price`, `List`
  or `Configure`, or stutters when it is refused; every other step stutters.
* `NumberedInOrder`: `Spec => []ListedInOrder`.  A second run reads while the chunk of a killed one
  is in flight, and sends a list that overlaps it.  `FollowsOn` says of such a set of reserves that
  it is refused, since one of them is listed already, or goes on exactly where the list ends;
  `ListOrderInv` says it of every `initReserves` in flight and of every beginning of the queue.  Mining
  one list makes each other one follow on again, or overlap (`OrderInvariant`).
* `FailureExplained`: `Spec => []SetupFailureIsExplained`.  `SetupFailureInv` (`FailureInvariant`):
  without a kill nothing is in flight but what the run waits for and its queue holds no listed reserve; whoever
  sets parameters has the helper's right in place and nothing of other runs in flight that takes it away,
  because `configureReserves` is only reached past an awaited transaction.

`ReserveTasks_proofs` proves, for any reserves, settings, menus and number of kills:

* `TasksInvariant`: `Spec => []TasksInv`.  That the posted `setLendingGauge` is accepted depends on
  what is in flight when it is mined: nobody may give the powers away before it.  `SentReady` says
  that an `addPhases` or `setLendingGauge` in flight is the oldest transaction, because the task
  waited for what came before it, and waited for the gauge it created itself; a second gauge for
  a token is refused, so no other task ever gets that far with it (`PlanReady`, `InStep`).
* `PostedIsAccepted`: `Spec => []PostedNeverReverts`, and `GaugesAreReady`: `Spec => []GaugesReady`.
* `FailureExplained`: `Spec => []TaskFailureIsExplained`, with what is left of a plan as the invariant
  (`TaskFailureInv`, `FailureInvariant`): an asset stands behind its category, and what works only once
  is tried for one reserve at a time.
* `CutShortIsForGood`: `Spec => CutShortForGood`, a property of all continuations: from a state at
  rest with some tokens upgraded, no continuation upgrades another.  Every upgrade begins with the
  first token of the pool's list, which is upgraded already whenever any is (`UpgradeInv`,
  `UpgradeInvariant`); so its first transaction reverts, and nobody gets to the second.  Likewise
  for a gauge without phases, whose task fails at creating it.
* `HookDoesItsWork`: `SomethingWanted => (Spec => HookEndsWell)`.  `HookInv` (`HookInvariant`) says
  that each setting is there or still in the plan.  That the deployer has its powers at the end needs
  a write of the hook's own after which nothing of a killed hand-over can be in flight, which is
  why the configuration must want some setting; every market does.

Only model-checked: `FinishesUnlessStuck`, `HandedOver`, `AllSetUp` and `HookSettles`, which are
liveness under fairness and out of the prover's reach; `CompleteMarketReruns` for a run without
`MARKET_NAME`, whose table leaves nothing of its own and is not in `MayRepeat` (such a run throws
at `loadPoolConfig`, before scripts whose work under no name no other run does); and the properties that are violated.  Every other safety
property of a passing run is a theorem.

## 5. Not modelled

* Addresses and interest rate curves, ABIs, type declarations, compiler and network settings,
  verification on explorers, printing, reviews without `--fix`: data, or they write nothing.
* Tasks of one call (`set-fallback-oracle`, `transfer-ownership`, `market-registry_add`, the
  `deploy-*` tasks): no state of their own, and no second step that could be cut off.
* The contracts, but for which transactions they accept and what these change.
* `aclAdmin`, `poolAdmin` and `deployer` as signers of different machines: one account signs.
* A test network in the process (`hardhat`), which does not outlive it, and a *live* test network,
  where `time.increase` of Light-DAO throws at every run.
* Reserves that the configuration takes away or adds between runs; a run finds the same files.

## 6. Plan

Done: the engine, the tables of the scripts, the hand-over, the reserves and their configurations
with the refinement, the tasks, and theorems for the safety properties of all of them.  What would
come next:

1. An abstract deployment (scripts done at once, in any recorded order) that `DeployEngine`
   implements, with the refinement as a theorem.
2. Runs of selected tags: order and closure of a selection.
3. The composition of `ReserveTasks` with all of `Handover` in place of its one transaction.
