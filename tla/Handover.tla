------------------------------ MODULE Handover ------------------------------
(***************************************************************************)
(* tasks/misc/transfer-protocol-ownership.ts and renounce-pool-admin.ts:   *)
(* the deployer's account gives its roles and contracts to multisigs, one  *)
(* transaction after another.  The after-deploy hook runs the two tasks in *)
(* this order; an operator may run each at any time, kill it and run it    *)
(* again.  All five contracts are Ownable2Step, as their files under abi/  *)
(* show: the new owner has to accept, and does so whenever it likes.       *)
(*                                                                         *)
(* Simplifications.  aclAdmin and deployer, who sign, are one account, as  *)
(* DEFAULT_NAMED_ACCOUNTS has it, so transactions are mined in the order   *)
(* sent.  A multisig does nothing but accept.                              *)
(*                                                                         *)
(* An action or table whose name goes on after the name of the one below   *)
(* it is a faulty variant, which the properties must tell from it.         *)
(***************************************************************************)
EXTENDS Naturals, Sequences

CONSTANTS
  Account,       \* the accounts
  NoAccount,     \* an address helpers/constants.ts leaves undefined
  ZeroAddress,   \* the address that is nobody's
  Deployer, PoolAdmin, EmergencyAdmin, Operator, GatewayOwner,
  TreasuryAdmin, FlashBorrower,           \* the named accounts
  Multisig, PoolMultisig, AclMultisig,    \* the desired multisigs of the network
  MaxCrashes     \* bound: how often a task is killed

ASSUME AccountAssumption ==
  /\ {Deployer, PoolAdmin, EmergencyAdmin, Operator, GatewayOwner,
      TreasuryAdmin, FlashBorrower, ZeroAddress} \subseteq Account
  /\ {Multisig, PoolMultisig, AclMultisig} \subseteq Account \cup {NoAccount}
  /\ NoAccount \notin Account
  /\ MaxCrashes \in Nat

\* Who gets the roles that move, at the ACLManager and the GaugeFactory.
SuccessorNamedPoolAdmin == [ gaugeOperator  |-> Operator,
                             emergencyAdmin |-> EmergencyAdmin,
                             poolAdmin      |-> PoolAdmin,
                             defaultAdmin   |-> AclMultisig ]

Successor == [ gaugeOperator  |-> Operator,
               emergencyAdmin |-> EmergencyAdmin,
               poolAdmin      |-> PoolMultisig,
               defaultAdmin   |-> AclMultisig ]
Moved == DOMAIN Successor
Role  == Moved \cup {"flashBorrower"}

\* The contracts with a two-step owner, and the ACL admin the provider names.
Contract == {"registry", "provider", "gateway", "helper", "treasuryController"}
Owned    == Contract \cup {"aclAdmin"}

-----------------------------------------------------------------------------
(***************************************************************************)
(* The sections of the tasks.  Each reads who has obj, and if it is the    *)
(* account the section is about sends the transactions of its kind.        *)
(***************************************************************************)
Section(kind, obj, from, to) == [kind |-> kind, obj |-> obj, from |-> from, to |-> to]
Move(role, from)   == Section("move", role, from, Successor[role])
Offer(contract, to) == Section("offer", contract, Deployer, to)

NameAclAdmin == Section("name", "aclAdmin", Deployer, AclMultisig)

TransferAdminFirst ==
  << Section("grant", "flashBorrower", Deployer, FlashBorrower),
     Move("defaultAdmin", Deployer), Move("gaugeOperator", Deployer),
     Move("emergencyAdmin", Deployer), Move("poolAdmin", PoolAdmin), NameAclAdmin,
     Offer("registry", Multisig), Offer("provider", Multisig), Offer("gateway", Multisig),
     Offer("helper", Multisig), Offer("treasuryController", TreasuryAdmin) >>

TransferProviderFirst ==
  << Offer("provider", Multisig), Section("grant", "flashBorrower", Deployer, FlashBorrower),
     Move("gaugeOperator", Deployer), Move("emergencyAdmin", Deployer),
     Move("poolAdmin", PoolAdmin), NameAclAdmin,
     Offer("registry", Multisig), Offer("gateway", Multisig), Offer("helper", Multisig),
     Offer("treasuryController", TreasuryAdmin), Move("defaultAdmin", Deployer) >>

TransferNoHelper ==
  << Section("grant", "flashBorrower", Deployer, FlashBorrower),
     Move("gaugeOperator", Deployer), Move("emergencyAdmin", Deployer),
     Move("poolAdmin", PoolAdmin), NameAclAdmin,
     Offer("registry", Multisig), Offer("provider", Multisig), Offer("gateway", Multisig),
     Offer("treasuryController", TreasuryAdmin), Move("defaultAdmin", Deployer) >>

Transfer ==
  << Section("grant", "flashBorrower", Deployer, FlashBorrower),
     Move("gaugeOperator", Deployer),
     Move("emergencyAdmin", Deployer),
     Move("poolAdmin", PoolAdmin),
     NameAclAdmin,
     Offer("registry", Multisig),
     Offer("provider", Multisig),
     Offer("gateway", Multisig),
     Offer("helper", Multisig),
     Offer("treasuryController", TreasuryAdmin),
     Move("defaultAdmin", Deployer) >>

Renounce == << Section("renounce", "poolAdmin", Deployer, PoolMultisig) >>

Sections == [transfer |-> Transfer, renounce |-> Renounce]
Task     == DOMAIN Sections

ActsRevokeFirst ==
  [ grant |-> <<"grant">>, move |-> <<"revoke", "grant">>, name |-> <<"name">>,
    offer |-> <<"offer">>, renounce |-> <<"renounce">> ]

ActsGrantOnly ==
  [ grant |-> <<"grant">>, move |-> <<"grant">>, name |-> <<"name">>,
    offer |-> <<"offer">>, renounce |-> <<"renounce">> ]

Acts ==
  [ grant    |-> <<"grant">>,
    move     |-> <<"grant", "revoke">>,
    name     |-> <<"name">>,
    offer    |-> <<"offer">>,
    renounce |-> <<"renounce">> ]

Removing == {"revoke", "renounce"}

Tx == [act : {"grant", "revoke", "renounce", "name", "offer"},
       obj : Role \cup Owned, who : Account]

VARIABLES
  members,   \* members[r]: the accounts with role r
  owner,     \* owner[c]: owner() of contract c; getACLAdmin() of the provider
  offered,   \* offered[c]: pendingOwner() of c
  pending,   \* transactions sent and not yet mined, oldest first
  status,    \* "idle", "running", "waiting"; or how the last task ended:
             \* "killed", "failed", "refused" (403), "already" (0) and "done"
  task,      \* the task that runs, or ran last
  sec,       \* its section; 0: it has not passed its first checks
  stage,     \* 0: the section reads; k: its k-th transaction is next
  crashes    \* how often a task was killed so far

vars == <<members, owner, offered, pending, status, task, sec, stage, crashes>>
auth == <<members, owner, offered>>

-----------------------------------------------------------------------------
CurrentSection == Sections[task][sec]
CurrentActs    == Acts[CurrentSection.kind]

CurrentTx ==
  [ act |-> CurrentActs[stage],
    obj |-> CurrentSection.obj,
    who |-> IF CurrentActs[stage] \in Removing THEN CurrentSection.from ELSE CurrentSection.to ]

InSection  == status = "running" /\ sec \in DOMAIN Sections[task]
AtTx       == InSection /\ stage \in DOMAIN CurrentActs

\* What a section reads: is there anything to hand over?
Wanted(s) ==
  CASE s.kind = "grant"    -> s.to # ZeroAddress /\ s.to \notin members[s.obj]
    [] s.kind = "move"     -> s.from \in members[s.obj]
    [] s.kind = "renounce" -> {s.from, s.to} \subseteq members[s.obj]
    [] OTHER               -> owner[s.obj] = s.from

\* Whether a contract accepts transaction t of the deployer.
Accepted(t) ==
  CASE t.act = "offer"    -> owner[t.obj] = Deployer
    [] t.act = "name"     -> owner["provider"] = Deployer
    [] t.act = "renounce" -> t.who = Deployer
    [] OTHER -> t.obj = "gaugeOperator" \/ Deployer \in members["defaultAdmin"]

Execute(t) ==
  IF ~Accepted(t) THEN UNCHANGED auth
  ELSE
    /\ members' = IF t.act = "grant" THEN [members EXCEPT ![t.obj] = @ \cup {t.who}]
                  ELSE IF t.act \in Removing THEN [members EXCEPT ![t.obj] = @ \ {t.who}]
                  ELSE members
    /\ owner'   = IF t.act = "name" THEN [owner EXCEPT !["aclAdmin"] = t.who] ELSE owner
    /\ offered' = IF t.act = "offer" THEN [offered EXCEPT ![t.obj] = t.who] ELSE offered

-----------------------------------------------------------------------------
\* What the deploy scripts leave: with the accounts of now, or with others
\* configured later, when the deployer had the role by default.
Init ==
  /\ \E emergency \in {Deployer, EmergencyAdmin} :
       members = [ gaugeOperator |-> {Deployer}, emergencyAdmin |-> {emergency},
                   poolAdmin |-> {PoolAdmin}, defaultAdmin |-> {Deployer},
                   flashBorrower |-> {} ]
  /\ \E gateway \in {Deployer, GatewayOwner}, treasury \in {Deployer, TreasuryAdmin} :
       owner = [ registry |-> Deployer, provider |-> Deployer, gateway |-> gateway,
                 helper |-> Deployer, treasuryController |-> treasury,
                 aclAdmin |-> Deployer ]
  /\ offered = [c \in Contract |-> NoAccount]
  /\ pending = <<>>
  /\ status = "idle"
  /\ task = "transfer"
  /\ sec = 0
  /\ stage = 0
  /\ crashes = 0

Launch ==
  /\ status \notin {"running", "waiting"}
  /\ status' = "running"
  /\ task' \in Task
  /\ sec' = 0
  /\ stage' = 0
  /\ UNCHANGED <<auth, pending, crashes>>

\* Whether a task calls exit() before it does anything.
Exits ==
  IF task = "transfer"
  THEN Multisig = NoAccount \/ owner["provider"] = Multisig \/ owner["provider"] # PoolAdmin
  ELSE PoolMultisig = NoAccount

Exit ==
  /\ status = "running" /\ sec = 0
  /\ Exits
  /\ status' = IF task = "transfer" /\ owner["provider"] = Multisig
               THEN "already" ELSE "refused"
  /\ UNCHANGED <<auth, pending, task, sec, stage, crashes>>

Proceed ==
  /\ status = "running" /\ sec = 0
  /\ ~Exits
  /\ sec' = 1
  /\ UNCHANGED <<auth, pending, status, task, stage, crashes>>

\* The section reads the latest block and starts, or is passed over.
Read ==
  /\ InSection /\ stage = 0
  /\ IF Wanted(CurrentSection) THEN stage' = 1 /\ sec' = sec ELSE stage' = 0 /\ sec' = sec + 1
  /\ UNCHANGED <<auth, pending, status, task, crashes>>

\* ethers throws for an undefined address.
Throw ==
  /\ AtTx
  /\ CurrentTx.who = NoAccount
  /\ status' = "failed"
  /\ UNCHANGED <<auth, pending, task, sec, stage, crashes>>

Send ==
  /\ AtTx
  /\ CurrentTx.who # NoAccount
  /\ pending' = Append(pending, CurrentTx)
  /\ status' = "waiting"
  /\ UNCHANGED <<auth, task, sec, stage, crashes>>

NextSectionKeepsStage ==
  /\ InSection /\ stage = Len(CurrentActs) + 1
  /\ sec' = sec + 1
  /\ UNCHANGED <<auth, pending, status, task, stage, crashes>>

NextSection ==
  /\ InSection /\ stage = Len(CurrentActs) + 1
  /\ sec' = sec + 1
  /\ stage' = 0
  /\ UNCHANGED <<auth, pending, status, task, crashes>>

Finish ==
  /\ status = "running" /\ sec = Len(Sections[task]) + 1
  /\ status' = "done"
  /\ UNCHANGED <<auth, pending, task, sec, stage, crashes>>

MineOrphan ==
  /\ pending # <<>>
  /\ status = "waiting" => Len(pending) > 1
  /\ Execute(Head(pending))
  /\ pending' = Tail(pending)
  /\ UNCHANGED <<status, task, sec, stage, crashes>>

MineAwaited ==
  /\ status = "waiting"
  /\ Len(pending) = 1
  /\ Execute(Head(pending))
  /\ pending' = <<>>
  /\ IF Accepted(Head(pending))
     THEN status' = "running" /\ stage' = stage + 1
     ELSE status' = "failed" /\ stage' = stage
  /\ UNCHANGED <<task, sec, crashes>>

Crash ==
  /\ status \in {"running", "waiting"}
  /\ crashes < MaxCrashes
  /\ status' = "killed"
  /\ crashes' = crashes + 1
  /\ UNCHANGED <<auth, pending, task, sec, stage>>

\* acceptOwnership() by the account a contract is offered to
Accept(c) ==
  /\ offered[c] # NoAccount
  /\ owner' = [owner EXCEPT ![c] = offered[c]]
  /\ offered' = [offered EXCEPT ![c] = NoAccount]
  /\ UNCHANGED <<members, pending, status, task, sec, stage, crashes>>

Progress == Exit \/ Proceed \/ Read \/ Throw \/ Send \/ NextSection \/ Finish
Mine     == MineOrphan \/ MineAwaited
Next     == Launch \/ Progress \/ Mine \/ Crash \/ (\E c \in Contract : Accept(c))

Spec == Init /\ [][Next]_vars

(* The task runs on, what is sent gets mined, new owners accept in the end, *)
(* and the operator runs the transfer when no task has finished it.        *)
FairSpec ==
  /\ Spec
  /\ WF_vars(Progress) /\ WF_vars(Mine)
  /\ SF_vars(Launch /\ task' = "transfer")
  /\ \A c \in Contract : WF_vars(Accept(c))

-----------------------------------------------------------------------------
(***************************************************************************)
(* Properties                                                              *)
(***************************************************************************)
(* The variables hold what their comments say; a task is in a section of   *)
(* its own and no undefined address was ever sent to the chain.            *)
TypeOK ==
  /\ members \in [Role -> SUBSET Account]
  /\ owner \in [Owned -> Account]
  /\ offered \in [Contract -> Account \cup {NoAccount}]
  /\ pending \in Seq(Tx)
  /\ status \in {"idle", "running", "waiting", "killed", "failed", "refused", "already", "done"}
  /\ task \in Task
  /\ sec \in 0 .. Len(Sections[task]) + 1
  /\ stage \in 0 .. (IF sec \in DOMAIN Sections[task] THEN Len(CurrentActs) + 1 ELSE 0)
  /\ crashes \in 0 .. MaxCrashes

(* No role is without a member at any time, also while the task is between *)
(* a grant and its revoke, is killed there and run again over stale reads. *)
RolesNeverVacant == \A r \in Moved : members[r] # {}

(* The transaction a task waits for is its section's, the last one sent.   *)
AwaitedIsLast ==
  status = "waiting" =>
    /\ sec \in DOMAIN Sections[task]
    /\ stage \in DOMAIN CurrentActs
    /\ pending # <<>>
    /\ pending[Len(pending)] = CurrentTx

\* Whoever a pending transaction takes a role from, the successor has it.
RemovalsCovered ==
  \A k \in DOMAIN pending :
    pending[k].act \in Removing =>
      /\ pending[k].obj \in Moved
      /\ pending[k].who # Successor[pending[k].obj]
      /\ Successor[pending[k].obj] \in members[pending[k].obj]

\* A task that is about to take a role away has its successor in place.
SuccessorFirst ==
  /\ status \in {"running", "waiting"}
  /\ sec \in DOMAIN Sections[task]
  /\ stage \in DOMAIN CurrentActs
  /\ CurrentActs[stage] \in Removing
  => CurrentSection.to \in members[CurrentSection.obj]

(* The inductive invariant behind RolesNeverVacant.                        *)
HandoverInv ==
  /\ TypeOK
  /\ AwaitedIsLast
  /\ RemovalsCovered
  /\ SuccessorFirst
  /\ RolesNeverVacant

\* Whom the contracts are offered to.
NewOwner == [c \in Contract |-> IF c = "treasuryController" THEN TreasuryAdmin ELSE Multisig]

\* What section s of the transfer is there for has been achieved.
Cleared(s) ==
  CASE s.kind = "grant" -> s.to = ZeroAddress \/ s.to \in members[s.obj]
    [] s.kind = "move"  -> s.from \notin members[s.obj]
    [] s.kind = "offer" -> owner[s.obj] = Deployer => offered[s.obj] # NoAccount
    [] OTHER            -> owner[s.obj] # Deployer

ClearedUpTo(n) == \A i \in 1 .. n : Cleared(Transfer[i])

\* Where a transfer is, or ended, tells what it has achieved.
ClearedSoFar ==
  task = "transfer" =>
    /\ ClearedUpTo(sec - 1)
    /\ sec \in DOMAIN Transfer /\ stage > Len(CurrentActs) => Cleared(Transfer[sec])

\* Transaction t is one of section s.
BelongsTo(t, s) ==
  \E k \in DOMAIN Acts[s.kind] :
    t = [ act |-> Acts[s.kind][k],
          obj |-> s.obj,
          who |-> IF Acts[s.kind][k] \in Removing THEN s.from ELSE s.to ]

\* It is renounce-pool-admin's, or a section's of the transfer after those cleared.
InOrder(t) ==
  \/ BelongsTo(t, Renounce[1])
  \/ \E i \in DOMAIN Transfer : ClearedUpTo(i - 1) /\ BelongsTo(t, Transfer[i])

SentInOrder == \A k \in DOMAIN pending : InOrder(pending[k])

\* What the contracts hold follows it too, whoever accepted what.
AuthInOrder ==
  /\ \A c \in Contract : offered[c] \in {NoAccount, NewOwner[c]}
  /\ owner["provider"] # Deployer \/ offered["provider"] # NoAccount => ClearedUpTo(6)
  /\ Deployer \notin members["defaultAdmin"] => ClearedUpTo(10)
  /\ Deployer = PoolAdmin \/ Deployer \notin members["poolAdmin"]

(* What a run is beyond is cleared, and what is under way, of whichever    *)
(* run, was sent with everything before its section cleared; so the        *)
(* deployer gives up the right to move roles last.  The inductive          *)
(* invariant behind the properties of the transfer that follow.            *)
OrderInv ==
  /\ ClearedSoFar
  /\ SentInOrder
  /\ AuthInOrder
  /\ status = "done" => sec = Len(Sections[task]) + 1

(* What was handed over never comes back to the account that had it, nor   *)
(* is an offer withdrawn, whatever is run again over stale reads, mined    *)
(* for a killed run or accepted in between.                                *)
NothingReturns ==
  /\ \A r \in Moved, a \in {Deployer, PoolAdmin} : a \notin members[r] => a \notin members'[r]
  /\ members["flashBorrower"] \subseteq members'["flashBorrower"]
  /\ \A c \in Owned : owner[c] # Deployer => owner'[c] # Deployer
  /\ \A c \in Contract :
       offered[c] # NoAccount => offered'[c] # NoAccount \/ owner'[c] # Deployer

NothingComesBack == [][NothingReturns]_vars

\* No role moves to the account it is taken from.
SuccessorsDiffer ==
  \A r \in Moved : Successor[r] \notin {Deployer, PoolAdmin}

\* Nor is a contract offered to the deployer.
OthersTakeOver == SuccessorsDiffer /\ Multisig # Deployer /\ TreasuryAdmin # Deployer

(* The deployer has none of the roles the tasks move, and what it owns is  *)
(* offered to others.                                                      *)
DeployerPowerless ==
  /\ \A r \in Moved : Deployer \notin members[r]
  /\ owner["aclAdmin"] # Deployer
  /\ \A c \in Contract : owner[c] = Deployer => offered[c] \notin {NoAccount, Deployer}

(* A transfer that ends well leaves the deployer without any power, also   *)
(* when earlier runs were killed or contracts were accepted in between.    *)
HandoverComplete == status = "done" /\ task = "transfer" => DeployerPowerless

(* The task fails only for an undefined address, or because a transaction  *)
(* of a killed run, or an acceptance, has done what it was about to do.    *)
FailureMeansHandedOver ==
  status = "failed" => CurrentTx.who = NoAccount \/ ~Wanted(CurrentSection)

(* Nobody takes over the addresses provider, which then names the ACL      *)
(* admin and ends all later runs of the task, before the roles of the      *)
(* pool, the registry and the name of the ACL admin have moved.            *)
ProviderAfterRoles ==
  owner["provider"] # Deployer =>
    /\ \A r \in Moved \ {"defaultAdmin"} : Deployer \notin members[r]
    /\ owner["aclAdmin"] # Deployer
    /\ owner["registry"] = Deployer => offered["registry"] = Multisig

(* The hand-over as Succession has it.  A role is moved when who gives it  *)
(* does not have it, and shared while its successor has it too; a contract *)
(* is shared when it is offered.                                           *)
HandedOverOrder ==
  << "flashBorrower", "gaugeOperator", "emergencyAdmin", "poolAdmin", "aclAdmin", "registry",
     "provider", "gateway", "helper", "treasuryController", "defaultAdmin" >>

Giver == [r \in Moved |-> IF r = "poolAdmin" THEN PoolAdmin ELSE Deployer]

PhaseOf(i) ==
  CASE i = "flashBorrower" -> IF FlashBorrower \in members[i] \cup {ZeroAddress} THEN "moved" ELSE "kept"
    [] i \in Moved ->
         IF Giver[i] \notin members[i] THEN "moved"
         ELSE IF Successor[i] \in members[i] THEN "shared" ELSE "kept"
    [] i \in Contract ->
         IF owner[i] # Deployer THEN "moved"
         ELSE IF offered[i] # NoAccount THEN "shared" ELSE "kept"
    [] i = "aclAdmin" -> IF owner[i] # Deployer THEN "moved" ELSE "kept"

Phase == [i \in Role \cup Owned |-> PhaseOf(i)]

InTurn == INSTANCE Succession WITH
  Order <- HandedOverOrder, Single <- {"flashBorrower", "aclAdmin"}, phase <- Phase

(* Whatever overlaps, the chain sees the items handed over one by one in   *)
(* the order of the table, shared before they move, and none taken back.   *)
OneByOneInTurn == InTurn!Spec

\* The rows of the table view-protocol-roles prints, and what each asserts.
ViewProtocolRoles ==
  [ provider           |-> owner["provider"] = Multisig,
    registry           |-> owner["registry"] = Multisig,
    gateway            |-> owner["gateway"] = Multisig,
    helper             |-> owner["helper"] = Multisig,
    treasuryController |-> owner["treasuryController"] = TreasuryAdmin,
    aclAdmin           |-> owner["aclAdmin"] = AclMultisig,
    adminGranted       |-> AclMultisig \in members["defaultAdmin"],
    adminRevoked       |-> Deployer \notin members["defaultAdmin"],
    flashBorrower      |-> FlashBorrower \in members["flashBorrower"],
    poolAdmin          |-> PoolMultisig \in members["poolAdmin"],
    poolAdminRevoked   |-> Deployer \notin members["poolAdmin"],
    emergencyAdmin     |-> EmergencyAdmin \in members["emergencyAdmin"],
    gaugeOperator      |-> Operator \in members["gaugeOperator"] ]

\* A gateway that never was the deployer's stays with its owner, and the zero
\* address gets no role.
RolesAsViewed ==
  \A row \in DOMAIN ViewProtocolRoles :
    \/ ViewProtocolRoles[row]
    \/ row = "gateway" /\ owner["gateway"] = GatewayOwner
    \/ row = "flashBorrower" /\ FlashBorrower = ZeroAddress

(* A transfer nobody kills hands everything over in the end, all new       *)
(* owners have accepted, and view-protocol-roles finds its assertions      *)
(* true.  After a kill there is one other end: the provider is accepted    *)
(* before the transfer is run again.                                       *)
HandedOver ==
  \/ <>[](/\ DeployerPowerless
          /\ \A c \in Contract : offered[c] = NoAccount
          /\ RolesAsViewed)
  \/ <>[](crashes > 0 /\ owner["provider"] = Multisig /\ ~DeployerPowerless)

(* "- This market already transferred the ownership to desired multisig",  *)
(* transfer-protocol-ownership.ts:86, when the task exits with 0.          *)
AlreadyMeansHandedOver == status = "already" => DeployerPowerless

(* "assert: await gaugeFactory.isOperator(operator)" of the table the task  *)
(* prints at its end (transfer-protocol-ownership.ts:229), and "assert:    *)
(* await aclManager.isEmergencyAdmin(emergencyAdmin)" of view-protocol-    *)
(* roles.ts:206.                                                           *)
NamedAccountsHaveRoles ==
  status = "done" /\ task = "transfer" =>
    /\ Operator \in members["gaugeOperator"]
    /\ EmergencyAdmin \in members["emergencyAdmin"]

=============================================================================
