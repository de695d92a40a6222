---------------------------- MODULE ReserveTasks ----------------------------
(***************************************************************************)
(* The tasks an operator runs on a market whose reserves are set up: the   *)
(* after-deploy hook with the setup-* and review-* tasks it calls, reviews *)
(* with --fix, upgrade-htokens and create- or setup-lending-gauge.  Each   *)
(* goes through reserves, one transaction for each, and may be killed and  *)
(* run again; setLendingGauge is sent and nobody waits for its receipt.    *)
(*                                                                         *)
(* Simplifications.  A setting of a reserve either follows the market's    *)
(* configuration or differs from it; symbols are those of the              *)
(* configuration; a review without --fix writes nothing and is left out;   *)
(* the hand-over, in Handover, is here one transaction after which the     *)
(* deployer has no right to any of the others.                             *)
(*                                                                         *)
(* An operator or action whose name goes on after the name of the one      *)
(* below it is a faulty variant, which the properties must tell from it.   *)
(***************************************************************************)
EXTENDS Naturals, Sequences

CONSTANTS
  Reserve,     \* the symbols of reserves
  Order,       \* ReservesConfig and the pool's list: the reserves in order
  CapKnown,    \* the reserves for which review-supply-caps finds a cap
  Wanted,      \* the reserves whose configuration asks for a setting
  Found,       \* which settings follow the configuration before any task
  Menu,        \* the sets of tasks an operator may keep to
  MaxCrashes   \* bound: how often a process is killed

Reviewed   == {"stable", "rate", "cap"}
Configured == {"ceiling", "isolation", "emode", "fee"}
Gauge      == {"gauge", "phases", "attach"}
Kind       == Reviewed \cup Configured \cup Gauge \cup {"category", "revision", "transfer"}
Task       == {"hook", "hook and transfer", "review-stable-borrow", "review-rate-strategies",
               "review-supply-caps", "review-e-mode", "upgrade-htokens", "lending-gauge"}

ASSUME TasksAssumption ==
  /\ Order \in Seq(Reserve) /\ Reserve = {Order[k] : k \in DOMAIN Order}
  /\ CapKnown \subseteq Reserve
  /\ Wanted \in [Configured -> SUBSET Reserve]
  /\ Found \subseteq [Reviewed -> SUBSET Reserve]
  /\ Menu \subseteq SUBSET Task
  /\ MaxCrashes \in Nat

\* One transaction of a task, which a review leaves out when there is no need
Step == [kind : Kind, on : SUBSET Reserve, review : BOOLEAN]

VARIABLES
  menu,     \* the tasks in use
  follows,  \* for each kind of transaction, the reserves it has its effect on
  phases,   \* how often phases were added to a reserve's gauge
  powers,   \* whether the deployer has its roles
  pending,  \* transactions sent and not yet mined, oldest first
  status,   \* "idle", "running", "waiting"; "killed", "failed", "done"
  task,     \* the task that runs, or ran last
  plan,     \* the steps it has not been through, the current one first
  crashes   \* how often a process was killed so far

chain   == <<follows, phases, powers>>
process == <<status, task, plan>>
vars    == <<menu, chain, pending, process, crashes>>

-----------------------------------------------------------------------------
(***************************************************************************)
(* The steps of the tasks                                                  *)
(***************************************************************************)
On(kind, review, S) == [kind |-> kind, on |-> S, review |-> review]

\* A loop over all reserves, for those in S
ForEach(kind, review, S) ==
  [k \in DOMAIN Order |-> On(kind, review, {Order[k]} \cap S)]

Review(kind, S) == ForEach(kind, TRUE, S)
Setup(kind)     == ForEach(kind, FALSE, Wanted[kind])
EModeCategory   == <<On("category", FALSE, Wanted["emode"])>>

\* setup-e-modes: the category, then the assets it names
SetupEModesAssetsFirst == Setup("emode") \o EModeCategory

SetupEModes == EModeCategory \o Setup("emode")

HookNoFee == Review("stable", Reserve) \o Setup("ceiling") \o Setup("isolation") \o SetupEModes

Hook == Review("stable", Reserve) \o Setup("ceiling") \o Setup("isolation")
          \o SetupEModes \o Setup("fee")

LendingGaugeAttachFirst(r) ==
  << On("gauge", FALSE, {r}), On("attach", FALSE, {r}), On("phases", FALSE, {r}) >>

LendingGauge(r) ==
  << On("gauge", FALSE, {r}), On("phases", FALSE, {r}), On("attach", FALSE, {r}) >>

(* What a task may turn out to do: --checkOnly restricts a review, and     *)
(* upgrade-htokens with another revision than the one it deployed and a    *)
(* gauge task with a symbol the pool does not have return early.           *)
Plans(t) ==
  CASE t = "hook" -> {Hook}
    [] t = "hook and transfer" -> {Hook \o <<On("transfer", FALSE, {})>>}
    [] t = "review-stable-borrow" -> {Review("stable", S) : S \in SUBSET Reserve}
    [] t = "review-rate-strategies" -> {Review("rate", S) : S \in SUBSET Reserve}
    [] t = "review-supply-caps" -> {Review("cap", S) : S \in SUBSET Reserve}
    [] t = "review-e-mode" -> {<<On("category", TRUE, Wanted["emode"])>>}
    [] t = "upgrade-htokens" -> {<<>>, ForEach("revision", FALSE, Reserve)}
    [] t = "lending-gauge" -> {<<>>} \cup {LendingGauge(r) : r \in Reserve}

Current == Head(plan)
Active  == status \in {"running", "waiting"}
Working == status = "running" /\ plan # <<>>

\* A loop passes over a reserve, or a review finds nothing to fix.
Skipped ==
  \/ Current.on = {} /\ Current.kind # "transfer"
  \/ Current.review /\ Current.on \subseteq follows[Current.kind]

\* review-supply-caps exits where ReserveAssets lacks an address, and looks the
\* symbol up in upper case; review-e-mode reads the category StableEMode, which
\* not every market has.
Throws ==
  /\ Current.review
  /\ \/ Current.kind = "cap" /\ ~(Current.on \subseteq CapKnown)
     \/ Current.kind = "category" /\ Current.on = {}

-----------------------------------------------------------------------------
\* Which transactions of the deployer the contracts accept: a category before
\* its assets, one gauge for a reserve, no second upgrade to one revision.
Accepted(t) ==
  /\ powers
  /\ t.kind = "emode"             => t.on \subseteq follows["category"]
  /\ t.kind = "phases"            => t.on \subseteq follows["gauge"]
  /\ t.kind = "attach"            => t.on \subseteq follows["gauge"]
  /\ t.kind \in {"gauge", "revision"} => t.on \cap follows[t.kind] = {}

Execute(t) ==
  IF ~Accepted(t) THEN UNCHANGED chain
  ELSE
    /\ follows' = [follows EXCEPT ![t.kind] = @ \cup t.on]
    /\ phases' = [r \in Reserve |->
                    IF t.kind = "phases" /\ r \in t.on THEN phases[r] + 1 ELSE phases[r]]
    /\ powers' = (t.kind # "transfer")

\* After the scripts: what a review looks at may follow or differ, and so may
\* the revision of the tokens from that of the implementation to come.
Init ==
  /\ menu \in Menu
  /\ \E f \in Found, upgraded \in {{}, Reserve} :
       follows = [k \in Kind |-> IF k \in Reviewed THEN f[k]
                                 ELSE IF k = "revision" THEN upgraded ELSE {}]
  /\ phases = [r \in Reserve |-> 0]
  /\ powers = TRUE
  /\ pending = <<>>
  /\ status = "idle" /\ task \in menu /\ plan = <<>>
  /\ crashes = 0

Launch(t) ==
  /\ ~Active /\ t \in menu
  /\ status' = "running" /\ task' = t /\ plan' \in Plans(t)
  /\ UNCHANGED <<menu, chain, pending, crashes>>

Throw ==
  /\ Working /\ Throws
  /\ status' = "failed"
  /\ UNCHANGED <<menu, chain, pending, task, plan, crashes>>

Skip ==
  /\ Working /\ ~Throws /\ Skipped
  /\ plan' = Tail(plan)
  /\ UNCHANGED <<menu, chain, pending, status, task, crashes>>

SendNotAwaited ==
  /\ Working /\ ~Throws /\ ~Skipped /\ Current.kind # "attach"
  /\ pending' = Append(pending, Current)
  /\ plan' = Tail(plan)
  /\ UNCHANGED <<menu, chain, status, task, crashes>>

Send ==
  /\ Working /\ ~Throws /\ ~Skipped /\ Current.kind # "attach"
  /\ pending' = Append(pending, Current)
  /\ status' = "waiting"
  /\ UNCHANGED <<menu, chain, task, plan, crashes>>

\* setLendingGauge, without waitForTx
Post ==
  /\ Working /\ Current.kind = "attach"
  /\ pending' = Append(pending, Current)
  /\ plan' = Tail(plan)
  /\ UNCHANGED <<menu, chain, status, task, crashes>>

MineAwaitedRevertIgnored ==
  /\ status = "waiting" /\ Len(pending) = 1
  /\ Execute(Head(pending))
  /\ pending' = <<>>
  /\ status' = "running" /\ plan' = Tail(plan)
  /\ UNCHANGED <<menu, task, crashes>>

MineAwaited ==
  /\ status = "waiting" /\ Len(pending) = 1
  /\ Execute(Head(pending))
  /\ pending' = <<>>
  /\ IF Accepted(Head(pending))
     THEN status' = "running" /\ plan' = Tail(plan)
     ELSE status' = "failed" /\ UNCHANGED plan
  /\ UNCHANGED <<menu, task, crashes>>

\* A transaction nobody waits for: of a killed process, or posted.
MineOther ==
  /\ pending # <<>>
  /\ status = "waiting" => Len(pending) > 1
  /\ Execute(Head(pending))
  /\ pending' = Tail(pending)
  /\ UNCHANGED <<menu, process, crashes>>

Finish ==
  /\ status = "running" /\ plan = <<>>
  /\ status' = "done"
  /\ UNCHANGED <<menu, chain, pending, task, plan, crashes>>

Crash ==
  /\ Active /\ crashes < MaxCrashes
  /\ status' = "killed" /\ plan' = <<>> /\ crashes' = crashes + 1
  /\ UNCHANGED <<menu, chain, pending, task>>

Progress == Throw \/ Skip \/ Send \/ Post \/ Finish
Mine     == MineAwaited \/ MineOther
Next     == (\E t \in Task : Launch(t)) \/ Progress \/ Mine \/ Crash

Spec == Init /\ [][Next]_vars

(* A process runs on, what is sent gets mined, and an operator who uses    *)
(* the hook runs it again and again, whatever else is run in between.      *)
FairSpec ==
  Spec /\ WF_vars(Progress) /\ WF_vars(Mine) /\ SF_vars(Launch("hook"))

-----------------------------------------------------------------------------
(***************************************************************************)
(* Properties                                                              *)
(***************************************************************************)
(* The variables hold what their comments say.                             *)
TypeOK ==
  /\ menu \in Menu
  /\ follows \in [Kind -> SUBSET Reserve]
  /\ phases \in [Reserve -> Nat]
  /\ powers \in BOOLEAN
  /\ pending \in Seq(Step) /\ plan \in Seq(Step)
  /\ status \in {"idle", "running", "waiting", "killed", "failed", "done"}
  /\ task \in Task
  /\ crashes \in 0 .. MaxCrashes

Attaching == pending # <<>> /\ Head(pending).kind = "attach"

(* Nobody looks at the receipt of setLendingGauge, so a revert would leave *)
(* a gauge the pool does not use after a task that says "configuration     *)
(* completed!": it never reverts, nor is it mined on a gauge without its   *)
(* phases, whatever was pending or handed over before.                     *)
PostedNeverReverts ==
  Attaching => Accepted(Head(pending)) /\ \A r \in Head(pending).on : phases[r] = 1

(* A gauge the pool uses has its phases, and has them once: neither the    *)
(* orphans of a killed task nor a repeated one add them again.             *)
GaugesReady ==
  \A r \in Reserve : /\ phases[r] <= 1
                     /\ r \in follows["attach"] => r \in follows["gauge"] /\ phases[r] = 1

(***************************************************************************)
(* The inductive invariant.                                                *)
(***************************************************************************)
\* Phases come after a gauge, and setLendingGauge after phases.
InStep(p) ==
  \A k \in DOMAIN p :
    /\ p[k].kind \in Gauge => ~p[k].review /\ p[k].on # {}
    /\ k > 1 /\ p[k].kind = "phases" => p[k - 1] = On("gauge", FALSE, p[k].on)
    /\ k > 1 /\ p[k].kind = "attach" => p[k - 1] = On("phases", FALSE, p[k].on)

\* What addPhases and setLendingGauge need
Ready(t) ==
  t.kind \in {"phases", "attach"} =>
    powers /\ \A r \in t.on : /\ r \in follows["gauge"]
                             /\ phases[r] = (IF t.kind = "phases" THEN 0 ELSE 1)

GaugeFirst == \A r \in Reserve : phases[r] > 0 => r \in follows["gauge"]

PlanReady ==
  status = "running" /\ plan # <<>> =>
    Ready(Current) /\ (Current.kind \in {"phases", "attach"} => pending = <<>>)

WaitsForLast ==
  status = "waiting" => plan # <<>> /\ pending # <<>> /\ pending[Len(pending)] = Current

SentReady ==
  \A k \in DOMAIN pending :
    pending[k].kind \in {"phases", "attach"} => k = 1 /\ Ready(pending[k])

(* A transaction of addPhases or setLendingGauge is sent when nothing else *)
(* is under way and what it needs is there, and stays the next to be mined.*)
TasksInv ==
  TypeOK /\ GaugesReady /\ GaugeFirst /\ InStep(plan) /\ PlanReady /\ WaitsForLast /\ SentReady

(* A task stops only for a lookup it cannot make, for powers handed over,  *)
(* or because it repeats what can be done only once.                       *)
TaskFailureIsExplained ==
  status = "failed" =>
    \/ ~powers
    \/ Throws
    \/ Current.kind \in {"gauge", "revision"} /\ Current.on \subseteq follows[Current.kind]

\* An asset gets into a category that is there or is made before it.
CategoryFirst ==
  \A k \in DOMAIN plan : plan[k].kind = "emode" =>
    \/ plan[k].on \subseteq follows["category"]
    \/ \E j \in 1 .. k - 1 : /\ plan[j].kind = "category" /\ ~plan[j].review
                             /\ plan[k].on \subseteq plan[j].on

\* What can be done only once is done reserve by reserve.
OneByOne ==
  \A k \in DOMAIN plan : plan[k].kind \in {"gauge", "revision"} =>
    \E r \in Reserve : plan[k] = On(plan[k].kind, FALSE, {r})

(* What is left of a plan can fail for these reasons only: the inductive   *)
(* invariant behind TaskFailureIsExplained.                                *)
TaskFailureInv == TaskFailureIsExplained /\ CategoryFirst /\ OneByOne

\* No task runs, and no transaction is under way.
AtRest == pending = <<>> /\ ~Active

HalfUpgraded  == follows["revision"] \notin {{}, Reserve}
WithoutPhases == {r \in follows["gauge"] : phases[r] = 0}

(* An upgrade or a gauge is completed by the run that began it or never:   *)
(* run again, upgrade-htokens fails at the first token, and the gauge task *)
(* at createLendingGauge.                                                  *)
CutShortForGood ==
  /\ [](AtRest /\ HalfUpgraded => []HalfUpgraded)
  /\ \A r \in Reserve : [](AtRest /\ r \in WithoutPhases => [](r \in WithoutPhases))

(* The first token of the pool's list is upgraded before all others: no    *)
(* step is sent for another, and none is left in a plan behind its own,    *)
(* before it is.  So an upgrade of what was left half-way fails at it.     *)
UpgradeInv ==
  /\ follows["revision"] # {} => Order[1] \in follows["revision"]
  /\ \A k \in DOMAIN pending :
       pending[k].kind = "revision" => Order[1] \in pending[k].on \cup follows["revision"]
  /\ Active /\ (\E k \in DOMAIN plan : plan[k].kind = "revision") =>
       \/ Order[1] \in follows["revision"]
       \/ Current.kind = "revision" /\ Order[1] \in Current.on

HookDone ==
  /\ Reserve \subseteq follows["stable"]
  /\ \A k \in Configured : Wanted[k] \subseteq follows[k]

(* A hook that ends well, whatever was killed before it, found or made the *)
(* settings as configured; and it ends well only before the hand-over: any *)
(* later hardhat deploy fails at the settings it sends unread.             *)
HookEndsWell ==
  [][ status' = "done" /\ status # "done" /\ task = "hook" =>
        HookDone /\ powers ]_vars

\* The reserves a plan has steps of a kind for
ToDo(kind) == UNION {plan[k].on : k \in {j \in DOMAIN plan : plan[j].kind = kind}}

SomethingWanted == \E k \in Configured : Wanted[k] # {}

\* Nothing is under way but what the task waits for.
NoOthers == IF status = "waiting" THEN Len(pending) = 1 ELSE pending = <<>>

(* While the hook runs, each setting is there or still in its plan; and    *)
(* once it had a transaction accepted the deployer keeps its powers to the *)
(* end.  The inductive invariant behind HookEndsWell.                      *)
HookInv ==
  Active /\ task = "hook" =>
    /\ Reserve \subseteq follows["stable"] \cup ToDo("stable")
    /\ \A k \in Configured : Wanted[k] \subseteq follows[k] \cup ToDo(k)
    /\ \A k \in DOMAIN plan : /\ plan[k].kind \notin Gauge \cup {"transfer"}
                              /\ plan[k].kind \in Configured => ~plan[k].review
    /\ SomethingWanted =>
         (\E k \in Configured : ToDo(k) # {}) \/ (powers /\ NoOthers)

(* Run again and again, the hook gets all its settings made, unless the    *)
(* deployer has handed over its powers.                                    *)
HookSettles == "hook" \in menu ~> HookDone \/ ~powers

=============================================================================
