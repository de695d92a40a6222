---------------------------- MODULE ReserveSetup ----------------------------
(***************************************************************************)
(* How the reserves of a market come to be listed and configured, reserve  *)
(* by reserve: the check in 02_market/00_setup_addresses_provider, the     *)
(* price sources of 05_init_oracles, and 08_init_reserves with             *)
(* initReservesByHelper and configureReservesByHelper.  The process may be *)
(* killed at any step, with a transaction under way, and run again.        *)
(*                                                                         *)
(* Simplifications.  What these scripts do besides is in DeployScripts,    *)
(* where the reserves are one token; here the three follow one another.    *)
(* Every reserve has hTokenImpl HToken, as all under markets/ have, so the *)
(* filter of initReservesByHelper drops none.                              *)
(* All transactions are of one account, so they are mined in the order     *)
(* sent; a call reads the latest block.                                    *)
(*                                                                         *)
(* An operator or action whose name goes on after the name of the one      *)
(* below it is a faulty variant, which the properties must tell from it.   *)
(***************************************************************************)
EXTENDS Naturals, Sequences

CONSTANTS
  Reserve,      \* the symbols of reserves
  Rate,         \* the names of interest rate strategies
  Config,       \* the configurations a run may find
  InitChunks,   \* reserves in a transaction of initReserves
  EnableChunks, \* and of configureReserves
  MaxCrashes    \* bound: how often the process is killed

(* What a run finds in a configuration: ReservesConfig in the order of its *)
(* keys; which symbols have an address and which an aggregator; whether    *)
(* there is a fallback oracle; the strategy of each reserve, and those the *)
(* market deploys; the reserves without baseLTVAsCollateral ('-1'), those  *)
(* with a liquidation threshold, and those with parameters the             *)
(* PoolConfigurator takes.                                                 *)
Configuration ==
  [ order : Seq(Reserve) \ {<<>>}, token : SUBSET Reserve, feed : SUBSET Reserve,
    fallback : BOOLEAN, rate : [Reserve -> Rate], rates : SUBSET Rate,
    noLtv : SUBSET Reserve, collateral : SUBSET Reserve, valid : SUBSET Reserve ]

\* An object has a key once.
NoneTwice(s) == \A i, j \in DOMAIN s : s[i] = s[j] => i = j

ASSUME SetupAssumption ==
  /\ Config \subseteq Configuration
  /\ \A c \in Config : NoneTwice(c.order)
  /\ InitChunks \in Nat \ {0} /\ EnableChunks \in Nat \ {0}
  /\ MaxCrashes \in Nat

Script == {"provider", "oracles", "reserves"}
Kind   == {"sources", "list", "grant", "configure", "revoke"}
Stage  == Kind \cup {"provider", "fallback", "rates", "enable", "save", "end"}
Tx     == [kind : Kind, on : SUBSET Reserve]

VARIABLES
  config,      \* what all runs find: their market on their network
  recorded,    \* the scripts .migrations.json has
  strategies,  \* the artifacts ReserveStrategy-<name>
  priced,      \* reserves the oracle has a source for
  listed,      \* reserves the pool knows
  configured,  \* reserves whose parameters were set
  riskAdmin,   \* whether ReservesSetupHelper is a risk admin
  pending,     \* transactions sent and not yet mined, oldest first
  status,      \* "idle", "running", "waiting"; "killed", "failed", "done"
  stage,       \* what a run is about to do
  at,          \* the reserve a loop reads next
  queue,       \* the reserves a loop has collected and not yet sent
  crashes      \* how often the process was killed so far

chain   == <<priced, listed, configured, riskAdmin>>
disk    == <<recorded, strategies>>
process == <<status, stage, at, queue>>
vars    == <<config, disk, chain, pending, process, crashes>>

AsSet(s)   == {s[k] : k \in DOMAIN s}
ReservesOf == AsSet(config.order)

\* The first chunk of a list, and what follows it
Chunk(s, n) == SubSeq(s, 1, IF Len(s) < n THEN Len(s) ELSE n)

RestOffByOne(s, n) == SubSeq(s, n + 2, Len(s))

Rest(s, n)  == SubSeq(s, n + 1, Len(s))

\* The scripts run in this order, without those that are recorded.
FirstStage(done) ==
  CASE "provider" \notin done -> "provider"
    [] "provider" \in done /\ "oracles" \notin done -> "sources"
    [] {"provider", "oracles"} \subseteq done /\ "reserves" \notin done -> "rates"
    [] OTHER -> "end"

Running(s) == status = "running" /\ stage = s
InLoop     == at \in DOMAIN config.order

\* Reserves a loop passes over, as it finds the chain
SkippedNoneListed(r) == r \notin config.token

Skipped(r) == r \notin config.token \/ r \in listed

\* usageAsCollateralEnabled: a liquidation threshold that is not zero was set
AlreadyEnabled(r) ==
  r \notin config.token \/ r \in config.noLtv \/ r \in configured \cap config.collateral

\* What makes a run throw: another set of tokens than the reserves configured;
\* a token without aggregator; no fallback oracle; a strategy not deployed.
ThrowsLate ==
  CASE stage = "provider" -> config.token # ReservesOf
    [] stage = "sources"  -> ~(config.token \subseteq config.feed)
    [] stage = "fallback" -> FALSE
    [] stage = "list"     -> /\ InLoop
                             /\ ~Skipped(config.order[at])
                             /\ config.rate[config.order[at]] \notin strategies
    [] OTHER -> FALSE

Throws ==
  CASE stage = "provider" -> config.token # ReservesOf
    [] stage = "sources"  -> ~(config.token \subseteq config.feed)
    [] stage = "fallback" -> ~config.fallback
    [] stage = "list"     -> /\ InLoop
                             /\ ~Skipped(config.order[at])
                             /\ config.rate[config.order[at]] \notin strategies
    [] OTHER -> FALSE

\* The reserves the next transaction is about: with ETH and USD left out,
\* which no market has, getPairsTokenAggregator pairs every token.
Subject ==
  CASE stage = "sources"   -> config.token
    [] stage = "list"      -> AsSet(Chunk(queue, InitChunks))
    [] stage = "configure" -> AsSet(Chunk(queue, EnableChunks))
    [] OTHER -> {}

CurrentTx == [kind |-> stage, on |-> Subject]

\* Where a run goes on after its transaction
RestOf ==
  CASE stage = "list"      -> Rest(queue, InitChunks)
    [] stage = "configure" -> Rest(queue, EnableChunks)
    [] OTHER -> queue

StageAfter ==
  CASE stage = "sources"   -> "fallback"
    [] stage = "list"      -> "list"
    [] stage = "grant"     -> "configure"
    [] stage = "configure" -> IF RestOf = <<>> THEN "revoke" ELSE "configure"
    [] OTHER -> "save"

-----------------------------------------------------------------------------
\* initReserves reverts for a reserve the pool has; configureReserves when the
\* helper has no right to or the parameters make no sense.
Accepted(t) ==
  CASE t.kind = "list"      -> t.on \cap listed = {}
    [] t.kind = "configure" -> riskAdmin /\ t.on \subseteq listed \cap config.valid
    [] OTHER -> TRUE

Execute(t) ==
  IF ~Accepted(t) THEN UNCHANGED chain
  ELSE
    /\ priced'     = IF t.kind = "sources" THEN priced \cup t.on ELSE priced
    /\ listed'     = IF t.kind = "list" THEN listed \cup t.on ELSE listed
    /\ configured' = IF t.kind = "configure" THEN configured \cup t.on ELSE configured
    /\ riskAdmin'  = (t.kind = "grant" \/ (riskAdmin /\ t.kind # "revoke"))

Init ==
  /\ config \in Config
  /\ recorded = {} /\ strategies = {}
  /\ priced = {} /\ listed = {} /\ configured = {} /\ riskAdmin = FALSE
  /\ pending = <<>>
  /\ status = "idle" /\ stage = "provider" /\ at = 1 /\ queue = <<>>
  /\ crashes = 0

Launch ==
  /\ status \notin {"running", "waiting"}
  /\ status' = "running"
  /\ stage' = FirstStage(recorded)
  /\ at' = 1 /\ queue' = <<>>
  /\ UNCHANGED <<config, disk, chain, pending, crashes>>

Throw ==
  /\ status = "running" /\ Throws
  /\ status' = "failed"
  /\ UNCHANGED <<config, disk, chain, pending, stage, at, queue, crashes>>

\* A script returns true and hardhat-deploy records it.
Record(script) ==
  /\ recorded' = recorded \cup {script}
  /\ stage' = FirstStage(recorded')
  /\ UNCHANGED <<config, strategies, chain, pending, status, at, queue, crashes>>

CheckProvider == Running("provider") /\ ~Throws /\ Record("provider")
CheckFallback == Running("fallback") /\ ~Throws /\ Record("oracles")
Save          == Running("save") /\ Record("reserves")

DeployRates ==
  /\ Running("rates")
  /\ strategies' = strategies \cup config.rates
  /\ stage' = "list" /\ at' = 1 /\ queue' = <<>>
  /\ UNCHANGED <<config, recorded, chain, pending, status, crashes>>

\* One round of the loop over ReservesConfig
Collect(skip) ==
  /\ at' = at + 1
  /\ queue' = IF skip THEN queue ELSE Append(queue, config.order[at])
  /\ UNCHANGED <<config, disk, chain, pending, status, stage, crashes>>

ReadReserve ==
  Running("list") /\ InLoop /\ ~Throws /\ Collect(Skipped(config.order[at]))

ListDoneKeepsAt ==
  /\ Running("list") /\ ~InLoop /\ queue = <<>>
  /\ stage' = "enable"
  /\ UNCHANGED <<config, disk, chain, pending, status, at, queue, crashes>>

ListDone ==
  /\ Running("list") /\ ~InLoop /\ queue = <<>>
  /\ stage' = "enable" /\ at' = 1
  /\ UNCHANGED <<config, disk, chain, pending, status, queue, crashes>>

ReadConfiguration ==
  Running("enable") /\ InLoop /\ Collect(AlreadyEnabled(config.order[at]))

EnableDoneNoGrant ==
  /\ Running("enable") /\ ~InLoop
  /\ stage' = IF queue = <<>> THEN "save" ELSE "configure"
  /\ UNCHANGED <<config, disk, chain, pending, status, at, queue, crashes>>

EnableDone ==
  /\ Running("enable") /\ ~InLoop
  /\ stage' = IF queue = <<>> THEN "save" ELSE "grant"
  /\ UNCHANGED <<config, disk, chain, pending, status, at, queue, crashes>>

Send ==
  /\ status = "running" /\ stage \in Kind /\ ~Throws
  /\ stage = "list" => ~InLoop /\ queue # <<>>
  /\ pending' = Append(pending, CurrentTx)
  /\ status' = "waiting"
  /\ UNCHANGED <<config, disk, chain, stage, at, queue, crashes>>

MineOrphan ==
  /\ pending # <<>>
  /\ status = "waiting" => Len(pending) > 1
  /\ Execute(Head(pending))
  /\ pending' = Tail(pending)
  /\ UNCHANGED <<config, disk, process, crashes>>

MineAwaitedRevertIgnored ==
  /\ status = "waiting" /\ Len(pending) = 1
  /\ Execute(Head(pending))
  /\ pending' = <<>>
  /\ status' = "running" /\ stage' = StageAfter /\ queue' = RestOf
  /\ UNCHANGED <<config, disk, at, crashes>>

MineAwaited ==
  /\ status = "waiting" /\ Len(pending) = 1
  /\ Execute(Head(pending))
  /\ pending' = <<>>
  /\ IF Accepted(Head(pending))
     THEN status' = "running" /\ stage' = StageAfter /\ queue' = RestOf
     ELSE status' = "failed" /\ UNCHANGED <<stage, queue>>
  /\ UNCHANGED <<config, disk, at, crashes>>

Finish ==
  /\ Running("end")
  /\ status' = "done"
  /\ UNCHANGED <<config, disk, chain, pending, stage, at, queue, crashes>>

Crash ==
  /\ status \in {"running", "waiting"}
  /\ crashes < MaxCrashes
  /\ status' = "killed"
  /\ crashes' = crashes + 1
  /\ UNCHANGED <<config, disk, chain, pending, stage, at, queue>>

Progress ==
  \/ Throw \/ CheckProvider \/ CheckFallback \/ DeployRates \/ ReadReserve \/ ListDone
  \/ ReadConfiguration \/ EnableDone \/ Send \/ Save \/ Finish
Mine == MineOrphan \/ MineAwaited
Next == Launch \/ Progress \/ Mine \/ Crash

Spec == Init /\ [][Next]_vars

(* The process runs on, what is sent gets mined, and the operator runs the *)
(* scripts again.                                                          *)
FairSpec == Spec /\ WF_vars(Progress) /\ WF_vars(Mine) /\ WF_vars(Launch)

-----------------------------------------------------------------------------
(***************************************************************************)
(* Properties                                                              *)
(***************************************************************************)
(* The variables hold what their comments say.                             *)
TypeOK ==
  /\ config \in Config
  /\ recorded \subseteq Script /\ strategies \subseteq Rate
  /\ priced \subseteq Reserve /\ listed \subseteq Reserve /\ configured \subseteq Reserve
  /\ riskAdmin \in BOOLEAN
  /\ pending \in Seq(Tx)
  /\ status \in {"idle", "running", "waiting", "killed", "failed", "done"}
  /\ stage \in Stage
  /\ at \in 1 .. Len(config.order) + 1
  /\ queue \in Seq(ReservesOf)
  /\ crashes \in 0 .. MaxCrashes

\* The configuration gets the market's reserves listed; and configured.
Listable ==
  /\ config.token = ReservesOf
  /\ config.token \subseteq config.feed
  /\ config.fallback
  /\ \A r \in ReservesOf : config.rate[r] \in config.rates

Deployable == Listable /\ ReservesOf \ config.noLtv \subseteq config.valid

(* The promise of the three scripts.                                       *)
Listing == INSTANCE ReserveListing WITH sufficient <- Listable
ListingSpec == Listing!Spec

(***************************************************************************)
(* The inductive invariant.                                                *)
(***************************************************************************)
RecordHolds ==
  /\ "provider" \in recorded => config.token = ReservesOf
  /\ "oracles" \in recorded => /\ "provider" \in recorded /\ config.fallback
                              /\ config.token \subseteq config.feed \cap priced
  /\ "reserves" \in recorded => /\ ReservesOf \subseteq listed
                               /\ ReservesOf \ config.noLtv \subseteq configured

Before(k) == {config.order[i] : i \in 1 .. k - 1}

\* What a run has seen to when it comes to a stage
StageHolds ==
  /\ stage \in {"sources", "fallback"} => "provider" \in recorded
  /\ stage = "fallback" => config.token \subseteq config.feed \cap priced
  /\ stage \in {"rates", "list", "enable", "grant", "configure", "revoke", "save"} =>
       "oracles" \in recorded
  /\ stage = "list" => /\ Before(at) \subseteq listed \cup AsSet(queue)
                       /\ \A r \in Before(at) : config.rate[r] \in config.rates
  /\ stage \in {"enable", "grant", "configure", "revoke", "save"} =>
       ReservesOf \subseteq listed
  /\ stage = "enable" => Before(at) \ config.noLtv \subseteq configured \cup AsSet(queue)
  /\ stage \in {"grant", "configure"} =>
       ReservesOf \ config.noLtv \subseteq configured \cup AsSet(queue)
  /\ stage \in {"revoke", "save"} => ReservesOf \ config.noLtv \subseteq configured

\* What was sent: the last is the one waited for.
SentHolds ==
  /\ \A k \in DOMAIN pending :
       pending[k].kind = "list" => Listable /\ pending[k].on \subseteq priced
  /\ status = "waiting" =>
       /\ pending # <<>> /\ stage \in Kind /\ pending[Len(pending)] = CurrentTx
       /\ stage = "sources" => config.token \subseteq config.feed

(* No run is at a stage, and no transaction under way, before what it      *)
(* builds on is there, whatever the runs before it left.                   *)
SetupInv ==
  /\ TypeOK
  /\ strategies \subseteq config.rates
  /\ Listing!InStages
  /\ RecordHolds
  /\ StageHolds
  /\ SentHolds

(* What is recorded is there: a later run does not look at it again.       *)
RecordedMeansSetUp ==
  /\ "oracles" \in recorded => ReservesOf \subseteq priced
  /\ "reserves" \in recorded => /\ ReservesOf \subseteq listed
                                /\ ReservesOf \ config.noLtv \subseteq configured

(* The pool numbers its reserves in the order of ReservesConfig, and never *)
(* leaves one out, however runs and transactions of killed runs overlap:   *)
(* the scripts never list a reserve twice or after one that follows it.    *)
ListedInOrder ==
  \E n \in 0 .. Len(config.order) : listed = AsSet(SubSeq(config.order, 1, n))

\* What is to be listed goes on where the pool's list will end, unless the
\* pool is going to refuse it.
FollowsOn(S) ==
  S \cap listed = {} => \E n \in 0 .. Len(config.order) : listed \cup S = Before(n + 1)

(* So does every transaction under way and every part of a run's list: the *)
(* inductive invariant behind ListedInOrder.                               *)
ListOrderInv ==
  /\ ListedInOrder
  /\ \A k \in DOMAIN pending : pending[k].kind = "list" => FollowsOn(pending[k].on)
  /\ stage = "list" => \A n \in 0 .. Len(queue) : FollowsOn(AsSet(SubSeq(queue, 1, n)))

(* A run stops only for the configuration, or because a transaction of a   *)
(* killed run listed a reserve that the run had read as missing.           *)
SetupFailureIsExplained ==
  status = "failed" =>
    \/ ~Deployable
    \/ crashes > 0 /\ stage = "list" /\ Subject \cap listed # {}

\* Nothing is under way but what the run waits for.
NoOrphans == IF status = "waiting" THEN Len(pending) = 1 ELSE pending = <<>>

(* Without a kill a run meets no other's transactions, and lists nothing   *)
(* that is listed; when it sets parameters the kills before it are over.   *)
(* The inductive invariant behind SetupFailureIsExplained.                 *)
SetupFailureInv ==
  /\ SetupFailureIsExplained
  /\ crashes = 0 => NoOrphans /\ (stage = "list" => AsSet(queue) \cap listed = {})
  /\ stage = "list" => /\ config.rates \subseteq strategies
                       /\ NoneTwice(queue) /\ AsSet(queue) \subseteq Before(at)
  /\ stage \in {"enable", "grant", "configure"} => AsSet(queue) \cap config.noLtv = {}
  /\ stage = "configure" /\ status \in {"running", "waiting"} => riskAdmin /\ NoOrphans

(* With a configuration that suffices, all reserves get listed and their   *)
(* parameters set in the end, and the script is recorded.                  *)
AllSetUp ==
  Deployable ~> /\ "reserves" \in recorded
                /\ ReservesOf \subseteq listed
                /\ ReservesOf \ config.noLtv \subseteq configured

=============================================================================
