---------------------------- MODULE DeployEngine ----------------------------
(***************************************************************************)
(* A deployment of HopeLend is one or more runs of "hardhat deploy" (npm   *)
(* run deploy) against one network.  A run executes the scripts under      *)
(* deploy/ in a fixed order; a script is a straight line of steps, each    *)
(* of which reads an artifact, deploys a contract, reads chain state, or   *)
(* sends one transaction and waits for it.  Three things survive the       *)
(* process: the chain, the artifacts under deployments/<network>/, and the *)
(* .migrations.json file in which hardhat-deploy records func.id of every  *)
(* script that returned true.  The operator may kill the process at any    *)
(* moment and run the same command again.                                  *)
(*                                                                         *)
(* This module is the engine: it runs any table of scripts.  The tables    *)
(* translated from deploy/ are in DeployScripts.                           *)
(*                                                                         *)
(* Simplifications.  A contract creation and the write of its artifact are *)
(* one step: a process killed in between leaves an orphan contract no      *)
(* later step refers to.  All named accounts have index 0                  *)
(* (DEFAULT_NAMED_ACCOUNTS), so all transactions of all runs come from one *)
(* account and are mined in the order sent.                                *)
(*                                                                         *)
(* An action whose name goes on after the name of the action below it is a *)
(* faulty variant of that one, which the properties must tell from it.     *)
(***************************************************************************)
EXTENDS Naturals, Sequences, FiniteSets

CONSTANTS
  Market,       \* values of MARKET_NAME the operator runs with
  Script,       \* the scripts under deploy/
  Effect,       \* artifacts, and facts of chain state, that steps establish
  Order,        \* Order[m]: the scripts in the order a run for m takes them
  Steps,        \* Steps[m][s]: the steps of script s in a run for market m
  MigrationId,  \* MigrationId[m][s]: func.id of s in a run for m
  Records,      \* Records[m]: the scripts that return true under an id
  MaxCrashes    \* bound: how often the process is killed

(***************************************************************************)
(* The kinds of step.                                                      *)
(*   require deployments.get(..), or a check that throws when it fails     *)
(*   deploy  deploy(id, ..) or save(id, ..): reuses a saved artifact       *)
(*   unless  reads the chain; skips the next "skip" steps if eff holds     *)
(*   once    a transaction that reverts when eff already holds             *)
(*   set     a transaction that may be repeated                            *)
(*   unset   a transaction that takes eff away                             *)
(*   add     a transaction that is accepted again, with another effect     *)
(* A deploy throws, and a transaction reverts, unless its needs hold.      *)
(***************************************************************************)
TxKinds == {"once", "set", "unset", "add"}
Establishing == {"deploy", "once", "set", "add"}
Kinds   == TxKinds \cup {"require", "deploy", "unless"}

Step == [kind : Kinds, eff : Effect, needs : SUBSET Effect, skip : Nat]

ASSUME TablesAssumption ==
  /\ Order \in [Market -> Seq(Script)]
  /\ Steps \in [Market -> [Script -> Seq(Step)]]
  /\ Records \in [Market -> SUBSET Script]
  /\ MaxCrashes \in Nat

EffectsOf(m, s, kinds) ==
  {Steps[m][s][k].eff : k \in {j \in DOMAIN Steps[m][s] : Steps[m][s][j].kind \in kinds}}

\* What scripts take away again, and what a script is there to leave behind.
Temporary      == UNION {EffectsOf(m, s, {"unset"}) : m \in Market, s \in Script}
Provides(m, s) == EffectsOf(m, s, Establishing) \ Temporary

\* An "unless" passes over steps that lead to what it read, or are temporary.
ASSUME GuardsAssumption ==
  \A m \in Market, s \in Script : \A j \in DOMAIN Steps[m][s] :
    Steps[m][s][j].kind = "unless" =>
      /\ Steps[m][s][j].eff \notin Temporary
      /\ j + Steps[m][s][j].skip <= Len(Steps[m][s])
      /\ \A k \in j + 1 .. j + Steps[m][s][j].skip :
           Steps[m][s][k].eff \in Temporary \cup {Steps[m][s][j].eff}

\* What can be done only once is not taken away again.
ASSUME OnceAssumption ==
  \A m \in Market, s \in Script : EffectsOf(m, s, {"once"}) \cap Temporary = {}

VARIABLES
  artifacts,   \* ids saved under deployments/<network>/
  chain,       \* chain[f]: how often fact f was established (0: it does not hold)
  pending,     \* transactions sent and not yet mined, oldest first
  migrations,  \* ids in .migrations.json
  status,      \* "down" (not started or killed), "running", "waiting", "failed", "done"
  market,      \* the market of the current, or the last, run
  pos,         \* the script of the current run, a position in Order[market]
  pc,          \* 0: the script has not started; k: its k-th step is next
  crashes      \* how often the process was killed so far

vars == <<artifacts, chain, pending, migrations, status, market, pos, pc, crashes>>
disk == <<artifacts, migrations>>

-----------------------------------------------------------------------------
Held == artifacts \cup {f \in Effect : chain[f] > 0}

CurrentScript == Order[market][pos]
CurrentSteps  == Steps[market][CurrentScript]
CurrentStep   == CurrentSteps[pc]

AtScript == status = "running" /\ pos \in 1..Len(Order[market])
AtStep(kinds) ==
  /\ AtScript
  /\ pc \in 1..Len(CurrentSteps)
  /\ CurrentStep.kind \in kinds

\* Whether the chain accepts transaction t, and the chain once t is mined.
Accepted(t) ==
  /\ t.needs \subseteq Held
  /\ t.kind = "once" => chain[t.eff] = 0

Mined(t) ==
  IF ~Accepted(t) THEN chain
  ELSE [chain EXCEPT ![t.eff] =
          IF t.kind = "unset" THEN 0 ELSE IF t.kind = "add" THEN @ + 1 ELSE 1]

RecordedIgnored(m, s) == FALSE

Recorded(m, s) == s \in Records[m] /\ MigrationId[m][s] \in migrations

-----------------------------------------------------------------------------
Init ==
  /\ artifacts = {}
  /\ chain = [f \in Effect |-> 0]
  /\ pending = <<>>
  /\ migrations = {}
  /\ status = "down"
  /\ market \in Market
  /\ pos = 1
  /\ pc = 0
  /\ crashes = 0

(* The operator runs the command; a finished deployment may be run again. *)
Launch ==
  /\ status \in {"down", "failed", "done"}
  /\ status' = "running"
  /\ market' \in Market
  /\ pos' = 1
  /\ pc' = 0
  /\ UNCHANGED <<disk, chain, pending, crashes>>

(* A script whose id is in .migrations.json is passed over. *)
SkipRecorded ==
  /\ AtScript /\ pc = 0
  /\ Recorded(market, CurrentScript)
  /\ pos' = pos + 1
  /\ UNCHANGED <<disk, chain, pending, status, market, pc, crashes>>

BeginScriptRecordsIt ==
  /\ AtScript /\ pc = 0
  /\ ~Recorded(market, CurrentScript)
  /\ pc' = 1
  /\ migrations' = IF CurrentScript \in Records[market]
                   THEN migrations \cup {MigrationId[market][CurrentScript]}
                   ELSE migrations
  /\ UNCHANGED <<artifacts, chain, pending, status, market, pos, crashes>>

BeginScript ==
  /\ AtScript /\ pc = 0
  /\ ~Recorded(market, CurrentScript)
  /\ pc' = 1
  /\ UNCHANGED <<disk, chain, pending, status, market, pos, crashes>>

FinishScriptWhateverReturned ==
  /\ AtScript /\ pc = Len(CurrentSteps) + 1
  /\ migrations' = migrations \cup {MigrationId[market][CurrentScript]}
  /\ pos' = pos + 1
  /\ pc' = 0
  /\ UNCHANGED <<artifacts, chain, pending, status, market, crashes>>

(* The script returned: hardhat-deploy records its id if it returned true. *)
FinishScript ==
  /\ AtScript /\ pc = Len(CurrentSteps) + 1
  /\ migrations' = IF CurrentScript \in Records[market]
                   THEN migrations \cup {MigrationId[market][CurrentScript]}
                   ELSE migrations
  /\ pos' = pos + 1
  /\ pc' = 0
  /\ UNCHANGED <<artifacts, chain, pending, status, market, crashes>>

FinishRun ==
  /\ status = "running" /\ pos = Len(Order[market]) + 1
  /\ status' = "done"
  /\ UNCHANGED <<disk, chain, pending, market, pos, pc, crashes>>

-----------------------------------------------------------------------------
(* An exception leaves the script and ends the run. *)
Throw ==
  /\ AtStep({"require", "deploy"})
  /\ ~(CurrentStep.needs \subseteq Held)
  /\ status' = "failed"
  /\ UNCHANGED <<disk, chain, pending, market, pos, pc, crashes>>

Check ==
  /\ AtStep({"require"})
  /\ CurrentStep.needs \subseteq Held
  /\ pc' = pc + 1
  /\ UNCHANGED <<disk, chain, pending, status, market, pos, crashes>>

(* A new contract is created behind every transaction sent before it. *)
Deploy ==
  /\ AtStep({"deploy"})
  /\ CurrentStep.needs \subseteq Held
  /\ CurrentStep.eff \notin artifacts => pending = <<>>
  /\ artifacts' = artifacts \cup {CurrentStep.eff}
  /\ pc' = pc + 1
  /\ UNCHANGED <<chain, pending, migrations, status, market, pos, crashes>>

ReadChainIgnored ==
  /\ AtStep({"unless"})
  /\ pc' = pc + 1
  /\ UNCHANGED <<disk, chain, pending, status, market, pos, crashes>>

(* A read of the latest block: it does not see pending transactions. *)
ReadChain ==
  /\ AtStep({"unless"})
  /\ pc' = IF chain[CurrentStep.eff] > 0 THEN pc + 1 + CurrentStep.skip ELSE pc + 1
  /\ UNCHANGED <<disk, chain, pending, status, market, pos, crashes>>

SendTxNotAwaited ==
  /\ AtStep(TxKinds)
  /\ pending' = Append(pending, CurrentStep)
  /\ pc' = pc + 1
  /\ UNCHANGED <<disk, chain, status, market, pos, crashes>>

SendTx ==
  /\ AtStep(TxKinds)
  /\ pending' = Append(pending, CurrentStep)
  /\ status' = "waiting"
  /\ UNCHANGED <<disk, chain, market, pos, pc, crashes>>

(* A transaction of a killed run is mined; nobody waits for it. *)
MineOrphan ==
  /\ pending # <<>>
  /\ status = "waiting" => Len(pending) > 1
  /\ chain' = Mined(Head(pending))
  /\ pending' = Tail(pending)
  /\ UNCHANGED <<disk, status, market, pos, pc, crashes>>

MineAwaitedRevertIgnored ==
  /\ status = "waiting"
  /\ Len(pending) = 1
  /\ chain' = Mined(Head(pending))
  /\ pending' = <<>>
  /\ status' = "running" /\ pc' = pc + 1
  /\ UNCHANGED <<disk, market, pos, crashes>>

(* The awaited transaction is mined and waitForTx returns, or throws. *)
MineAwaited ==
  /\ status = "waiting"
  /\ Len(pending) = 1
  /\ chain' = Mined(Head(pending))
  /\ pending' = <<>>
  /\ IF Accepted(Head(pending))
     THEN status' = "running" /\ pc' = pc + 1
     ELSE status' = "failed" /\ pc' = pc
  /\ UNCHANGED <<disk, market, pos, crashes>>

Crash ==
  /\ status \in {"running", "waiting"}
  /\ crashes < MaxCrashes
  /\ status' = "down"
  /\ crashes' = crashes + 1
  /\ UNCHANGED <<disk, chain, pending, market, pos, pc>>

Progress == \/ SkipRecorded \/ BeginScript \/ FinishScript \/ FinishRun
            \/ Throw \/ Check \/ Deploy \/ ReadChain \/ SendTx
Mine     == MineOrphan \/ MineAwaited
Next     == Launch \/ Progress \/ Mine \/ Crash

Spec == Init /\ [][Next]_vars

(* The process runs on, sent transactions get mined, the operator runs the *)
(* command again; nothing is assumed of crashes.                           *)
FairSpec == Spec /\ WF_vars(Progress) /\ WF_vars(Mine) /\ WF_vars(Launch)

-----------------------------------------------------------------------------
(***************************************************************************)
(* Properties                                                              *)
(***************************************************************************)
(* The variables hold what their comments say; .migrations.json holds ids  *)
(* of scripts that return true, and none else.                             *)
TypeOK ==
  /\ artifacts \subseteq Effect
  /\ chain \in [Effect -> Nat]
  /\ pending \in Seq(Step)
  /\ migrations \subseteq UNION {{MigrationId[m][s] : s \in Records[m]} : m \in Market}
  /\ status \in {"down", "running", "waiting", "failed", "done"}
  /\ market \in Market
  /\ pos \in 1 .. Len(Order[market]) + 1
  /\ pc \in 0 .. (IF pos \in DOMAIN Order[market] THEN Len(CurrentSteps) + 1 ELSE 0)
  /\ crashes \in 0 .. MaxCrashes

(* Scripts of two runs that are recorded under the same id do the same.    *)
IdsSeparateWork ==
  \A m, n \in Market : \A s \in Records[m], t \in Records[n] :
    MigrationId[m][s] = MigrationId[n][t] => Steps[m][s] = Steps[n][t]

(* What .migrations.json says is there is there: a later run, which passes *)
(* the script over, finds every contract and setting the script leaves,    *)
(* wherever earlier runs were killed and whatever was then still pending.  *)
RecordedMeansDone ==
  \A m \in Market, s \in Script : Recorded(m, s) => Provides(m, s) \subseteq Held

(* The transaction a run waits for is its current step's, and the last     *)
(* that was sent.                                                          *)
AwaitedIsLast ==
  status = "waiting" =>
    /\ pos \in DOMAIN Order[market]
    /\ pc \in DOMAIN CurrentSteps
    /\ pending # <<>>
    /\ pending[Len(pending)] = CurrentStep
    /\ CurrentStep.kind \in TxKinds

\* No pending transaction takes away anything but what is temporary.
OnlyTemporaryTaken ==
  \A i \in DOMAIN pending : pending[i].kind = "unset" => pending[i].eff \in Temporary

\* A run that is beyond a step has its effect, or it was temporary.
DoneSoFar ==
  pos \in DOMAIN Order[market] =>
    \A k \in DOMAIN CurrentSteps :
      k < pc /\ CurrentSteps[k].kind \in Establishing =>
        CurrentSteps[k].eff \in Held \cup Temporary

\* A run that is beyond a script has it on record, or else its effects.
PassedAccounted ==
  \A i \in DOMAIN Order[market] :
    i < pos => IF Order[market][i] \in Records[market]
               THEN Recorded(market, Order[market][i])
               ELSE Provides(market, Order[market][i]) \subseteq Held

DoneIsTheEnd == status = "done" => pos = Len(Order[market]) + 1

(* The inductive invariant of the engine: where a process is, alive or     *)
(* dead, tells what the chain, the artifacts and the record hold.          *)
EngineInv ==
  /\ TypeOK
  /\ AwaitedIsLast
  /\ OnlyTemporaryTaken
  /\ DoneSoFar
  /\ PassedAccounted
  /\ DoneIsTheEnd

Complete(m) == \A i \in DOMAIN Order[m] : Provides(m, Order[m][i]) \subseteq Held

(* A run that ends well has a complete market behind it, whether its       *)
(* scripts ran in this run or in earlier ones.                             *)
FinishedMeansComplete ==
  status = "done" => Complete(market)

(* Every script finds what it reads: the only reason for a run to fail is  *)
(* a once-only transaction of a killed run that went through.              *)
FailureIsARepeat ==
  status = "failed" =>
    /\ crashes > 0
    /\ CurrentStep.kind = "once"
    /\ chain[CurrentStep.eff] > 0

(* Step k of script s of a run for m: can an "unless" pass over it?        *)
Guarded(m, s, k) ==
  \E j \in 1 .. k - 1 : /\ Steps[m][s][j].kind = "unless"
                       /\ k <= j + Steps[m][s][j].skip

(* A live process is in script s of m, or one with its id, beyond step k.  *)
LiveBeyond(m, s, k) ==
  /\ status \in {"running", "waiting"}
  /\ pos \in DOMAIN Order[market]
  /\ CurrentScript \in Records[market]
  /\ MigrationId[market][CurrentScript] = MigrationId[m][s]
  /\ pc > k

(* The once-only step k of script s went through, the script is not on     *)
(* record, and the process that could have recorded it is gone.            *)
StuckAt(m, s, k) ==
  /\ Steps[m][s][k].kind = "once"
  /\ chain[Steps[m][s][k].eff] > 0
  /\ ~Guarded(m, s, k)
  /\ MigrationId[m][s] \notin migrations
  /\ ~LiveBeyond(m, s, k)

Stuck(m) ==
  \E i \in DOMAIN Order[m] :
    /\ Order[m][i] \in Records[m]
    /\ \E k \in DOMAIN Steps[m][Order[m][i]] : StuckAt(m, Order[m][i], k)

(* A deployment killed between an initialize() and the record of its       *)
(* script never gets out of that: no later run of the command, and no      *)
(* further crash, leads to a finished deployment of that market.           *)
StuckIsPermanent ==
  [][\A m \in Market : Stuck(m) => Stuck(m)' /\ ~(status' = "done" /\ market' = m)]_vars

(* ... and nothing else keeps a deployment from finishing: if crashes      *)
(* leave no market stuck, repeating the command finishes one.              *)
FinishesUnlessStuck == <>[](\E m \in Market : Stuck(m)) \/ []<>(status = "done")

(* A market once complete may be deployed again at any time: the run finds *)
(* nothing to fail at, whatever runs for other markets did in between.     *)
CompleteMarketReruns == status = "failed" => ~Complete(market)

(* No run leaves behind the rights it gives itself for its own duration.   *)
(* "Set hTokenAndRatesDeployer as temporal admin", init-helpers.ts:306,    *)
(* "Remove ReservesSetupHelper from risk admins", init-helpers.ts:329.     *)
NoTemporaryLeft == status = "done" => Temporary \cap Held = {}

\* The steps of a script that add to f
AddsOf(m, s, f) ==
  {j \in DOMAIN Steps[m][s] : Steps[m][s][j].kind = "add" /\ Steps[m][s][j].eff = f}

(* However often the script is killed and run again, what it adds is there *)
(* no more often than the script says: the gauge controller gets the       *)
(* staking type 0 and the swap type 1 and no more, and init_gauges and     *)
(* create-lending-gauge use 2 as the type of lending gauges.               *)
AddedOnce ==
  \A m \in Market, s \in Script : \A j \in DOMAIN Steps[m][s] :
    Steps[m][s][j].kind = "add" =>
      chain[Steps[m][s][j].eff] <= Cardinality(AddsOf(m, s, Steps[m][s][j].eff))

-----------------------------------------------------------------------------
(***************************************************************************)
(* The inductive invariant behind FailureIsARepeat.                        *)
(***************************************************************************)
\* Nothing is under way but what the run waits for.
NoOthers == IF status = "waiting" THEN Len(pending) = 1 ELSE pending = <<>>

\* A run that is in a script found it not recorded, and it is not yet.
NotYetRecorded ==
  pos \in DOMAIN Order[market] /\ pc > 0 => ~Recorded(market, CurrentScript)

\* A step that needs what is temporary has it, and no orphan takes it away.
TemporaryInPlace ==
  /\ status \in {"running", "waiting"} /\ pos \in DOMAIN Order[market]
  /\ pc \in DOMAIN CurrentSteps /\ CurrentStep.needs \cap Temporary # {}
  => CurrentStep.needs \cap Temporary \subseteq Held /\ NoOthers

\* Without a crash, what was done once is on record or the run is beyond it.
OnceAccounted ==
  crashes = 0 =>
    /\ NoOthers
    /\ \A m \in Market, s \in Script : \A k \in DOMAIN Steps[m][s] :
         Steps[m][s][k].kind = "once" /\ chain[Steps[m][s][k].eff] > 0 =>
           Recorded(m, s) \/ LiveBeyond(m, s, k)

(* Without a crash nothing that can be done only once is done again, and   *)
(* with any, a step finds what it needs.                                   *)
RepeatInv ==
  /\ NotYetRecorded /\ TemporaryInPlace /\ OnceAccounted
  /\ status = "failed" => pos \in DOMAIN Order[market] /\ pc \in DOMAIN CurrentSteps
  /\ FailureIsARepeat

=============================================================================
