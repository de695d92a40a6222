-------------------------- MODULE Handover_proofs --------------------------
(***************************************************************************)
(* Proofs about Handover, for all accounts: type correctness; that no role *)
(* is vacant when no role moves to the account it is taken from; and, when *)
(* no contract is offered to the deployer either, that a transfer goes in  *)
(* its order, is complete when it ends well, fails only at what is done,   *)
(* is never undone, and implements Succession.                             *)
(***************************************************************************)
EXTENDS Handover, SequenceTheorems, TLAPS

-----------------------------------------------------------------------------
(* The tables.                                                             *)
\* What the tables say of a section, whatever the accounts are.
SectionOK(s) ==
  /\ s.kind \in {"grant", "move", "name", "offer", "renounce"}
  /\ s.obj \in Role \cup Owned
  /\ s.from \in {Deployer, PoolAdmin}
  /\ s.from \in Account
  /\ s.to \in Account \cup {NoAccount}
  /\ s.kind \in {"move", "renounce"} => s.obj \in Moved /\ s.to = Successor[s.obj]

\* The roles that move.
LEMMA MovedRoles ==
  /\ Moved = {"gaugeOperator", "emergencyAdmin", "poolAdmin", "defaultAdmin"}
  /\ \A r \in Moved : Successor[r] \in Account \cup {NoAccount}
BY AccountAssumption DEF Moved, Successor

\* Every section of both tasks is as SectionOK says.
LEMMA SectionsOK ==
  ASSUME NEW t \in Task, NEW i \in DOMAIN Sections[t]
  PROVE  SectionOK(Sections[t][i])
<1>1. CASE t = "renounce"
  <2>1. i = 1 /\ Sections[t][i] = Section("renounce", "poolAdmin", Deployer, PoolMultisig)
    BY <1>1 DEF Sections, Renounce
  <2>2. QED BY <2>1, MovedRoles, AccountAssumption DEF SectionOK, Section, Successor, Role
<1>2. CASE t = "transfer"
  <2>1. Sections[t] = Transfer
    BY <1>2 DEF Sections
  <2>2. i \in 1..11
    BY <2>1 DEF Transfer
  <2>3. CASE i = 1
    BY <2>1, <2>3, AccountAssumption DEF Transfer, SectionOK, Section, Role
  <2>4. CASE i = 2
    BY <2>1, <2>4, MovedRoles, AccountAssumption DEF Transfer, SectionOK, Section, Move, Role
  <2>5. CASE i = 3
    BY <2>1, <2>5, MovedRoles, AccountAssumption DEF Transfer, SectionOK, Section, Move, Role
  <2>6. CASE i = 4
    BY <2>1, <2>6, MovedRoles, AccountAssumption DEF Transfer, SectionOK, Section, Move, Role
  <2>7. CASE i = 5
    BY <2>1, <2>7, AccountAssumption DEF Transfer, SectionOK, Section, NameAclAdmin, Owned
  <2>8. CASE i \in 6..10
    BY <2>1, <2>8, AccountAssumption DEF Transfer, SectionOK, Section, Offer, Owned, Contract
  <2>9. CASE i = 11
    BY <2>1, <2>9, MovedRoles, AccountAssumption DEF Transfer, SectionOK, Section, Move, Role
  <2>10. QED BY <2>2, <2>3, <2>4, <2>5, <2>6, <2>7, <2>8, <2>9
<1>3. QED BY <1>1, <1>2 DEF Task, Sections

\* The transactions of a section.
LEMMA ActsOfKinds ==
  /\ \A k \in {"grant", "name", "offer", "renounce"} : Acts[k] = <<k>>
  /\ Acts["move"] = <<"grant", "revoke">>
BY DEF Acts

\* Both tasks are sequences of sections, each of a sequence of transactions.
LEMMA TablesAreSequences ==
  /\ \A t \in Task : Len(Sections[t]) \in Nat /\ DOMAIN Sections[t] = 1..Len(Sections[t])
  /\ \A k \in {"grant", "move", "name", "offer", "renounce"} :
       Len(Acts[k]) \in Nat \ {0} /\ DOMAIN Acts[k] = 1..Len(Acts[k])
<1>1. /\ Sections["transfer"] = Transfer /\ Sections["renounce"] = Renounce
      /\ Task = {"transfer", "renounce"}
  BY DEF Sections, Task
<1>2. Len(Transfer) = 11 /\ DOMAIN Transfer = 1..11
  BY DEF Transfer
<1>3. Len(Renounce) = 1 /\ DOMAIN Renounce = 1..1
  BY DEF Renounce
<1>4. ASSUME NEW t \in Task
      PROVE  Len(Sections[t]) \in Nat /\ DOMAIN Sections[t] = 1..Len(Sections[t])
  BY <1>1, <1>2, <1>3
<1>5. ASSUME NEW k \in {"grant", "move", "name", "offer", "renounce"}
      PROVE  Len(Acts[k]) \in Nat \ {0} /\ DOMAIN Acts[k] = 1..Len(Acts[k])
  BY ActsOfKinds
<1>6. QED BY <1>4, <1>5

\* A role is taken only as the last transaction of a move, or by the renouncing.
LEMMA ActsOfSections ==
  ASSUME NEW k \in {"grant", "move", "name", "offer", "renounce"}, NEW i \in DOMAIN Acts[k]
  PROVE  /\ Acts[k][i] \in {"grant", "revoke", "renounce", "name", "offer"}
         /\ Acts[k][i] \in Removing =>
              (k = "move" /\ i = 2 /\ Acts[k][1] = "grant") \/ (k = "renounce" /\ i = 1)
BY ActsOfKinds, TablesAreSequences DEF Removing

\* What a task sends to the chain, to a defined address, is a transaction.
LEMMA CurrentTxOK ==
  ASSUME TypeOK, sec \in DOMAIN Sections[task], stage \in DOMAIN CurrentActs
  PROVE  /\ SectionOK(CurrentSection)
         /\ CurrentTx.who # NoAccount => CurrentTx \in Tx
<1>1. SectionOK(CurrentSection)
  BY SectionsOK DEF TypeOK, CurrentSection
<1>2. CurrentActs[stage] \in {"grant", "revoke", "renounce", "name", "offer"}
  BY <1>1, ActsOfSections DEF SectionOK, CurrentActs
<1>3. ASSUME CurrentTx.who # NoAccount
      PROVE  CurrentTx \in Tx
  BY <1>1, <1>2, <1>3 DEF CurrentTx, Tx, SectionOK
<1>4. QED BY <1>1, <1>3

-----------------------------------------------------------------------------
(* Type correctness.                                                       *)
\* The part of HandoverInv that holds for any accounts, inductive by itself.
TypeInv == TypeOK /\ AwaitedIsLast

\* A mined transaction leaves roles, owners and offers of the right type.
LEMMA ExecuteTypes ==
  ASSUME TypeOK, NEW t \in Tx, Execute(t)
  PROVE  /\ members' \in [Role -> SUBSET Account]
         /\ owner' \in [Owned -> Account]
         /\ offered' \in [Contract -> Account \cup {NoAccount}]
<1>1. CASE ~Accepted(t)
  BY <1>1 DEF TypeOK, Execute, auth
<1>2. CASE Accepted(t)
  <2>1. members' \in [Role -> SUBSET Account]
    BY <1>2 DEF TypeOK, Execute, Tx
  <2>2. owner' \in [Owned -> Account]
    BY <1>2 DEF TypeOK, Execute, Tx
  <2>3. offered' \in [Contract -> Account \cup {NoAccount}]
    BY <1>2 DEF TypeOK, Execute, Tx
  <2>4. QED BY <2>1, <2>2, <2>3
<1>3. QED BY <1>1, <1>2

\* The initial states satisfy TypeInv.
LEMMA InitTypeInv == Init => TypeInv
<1>1. SUFFICES ASSUME Init PROVE TypeInv
  OBVIOUS
<1>2. members \in [Role -> SUBSET Account]
  BY <1>1, MovedRoles, AccountAssumption DEF Init, Role
<1>3. owner \in [Owned -> Account]
  BY <1>1, AccountAssumption DEF Init, Owned, Contract
<1>4. /\ offered \in [Contract -> Account \cup {NoAccount}]
      /\ pending \in Seq(Tx)
      /\ task \in Task /\ sec = 0 /\ stage = 0 /\ crashes \in 0..MaxCrashes
  BY <1>1, AccountAssumption DEF Init, Task, Sections
<1>5. TypeOK
  BY <1>1, <1>2, <1>3, <1>4, TablesAreSequences DEF TypeOK, Init
<1>6. QED BY <1>1, <1>5 DEF TypeInv, AwaitedIsLast, Init

\* Every step keeps TypeInv.
LEMMA StepTypeInv == TypeInv /\ [Next]_vars => TypeInv'
<1> SUFFICES ASSUME TypeInv, [Next]_vars PROVE TypeInv'
  OBVIOUS
<1> USE DEF TypeInv
<1>0. /\ Len(Sections[task]) \in Nat
      /\ DOMAIN Sections[task] = 1..Len(Sections[task])
  BY TablesAreSequences DEF TypeOK
<1>1. ASSUME sec \in DOMAIN Sections[task]
      PROVE  Len(CurrentActs) \in Nat \ {0} /\ DOMAIN CurrentActs = 1..Len(CurrentActs)
  BY <1>1, SectionsOK, TablesAreSequences DEF TypeOK, CurrentActs, CurrentSection, SectionOK
<1>2. CASE Launch
  <2>1. /\ UNCHANGED <<members, owner, offered, pending, crashes>>
        /\ status' = "running" /\ task' \in Task /\ sec' = 0 /\ stage' = 0
    BY <1>2 DEF Launch, auth
  <2>2. sec' \in 0..Len(Sections[task']) + 1 /\ sec' \notin DOMAIN Sections[task']
    BY <2>1, TablesAreSequences
  <2>3. TypeOK'
    BY <2>1, <2>2 DEF TypeOK
  <2>4. QED BY <2>1, <2>3 DEF AwaitedIsLast
<1>3. CASE Exit
  BY <1>3 DEF Exit, TypeOK, AwaitedIsLast, auth, CurrentActs, CurrentSection
<1>4. CASE Proceed
  <2>1. sec' \in 0..Len(Sections[task])+1 /\ task' = task /\ stage = 0 /\ stage' = 0
    BY <1>4, <1>0 DEF Proceed, TypeOK
  <2>2. stage' \in 0 .. (IF sec' \in DOMAIN Sections[task'] THEN Len(CurrentActs') + 1 ELSE 0)
    BY <2>1, SectionsOK, TablesAreSequences
    DEF TypeOK, CurrentActs, CurrentSection, SectionOK
  <2>3. QED BY <1>4, <2>1, <2>2 DEF Proceed, TypeOK, AwaitedIsLast, auth
<1>5. CASE Read
  <2>1. task' = task /\ sec \in DOMAIN Sections[task] /\ stage = 0
    BY <1>5 DEF Read, InSection
  <2>2. CASE Wanted(CurrentSection)
    <3>1. stage' = 1 /\ sec' = sec /\ CurrentActs' = CurrentActs
      BY <1>5, <2>1, <2>2 DEF Read, CurrentActs, CurrentSection
    <3>2. stage' \in 0 .. (IF sec' \in DOMAIN Sections[task'] THEN Len(CurrentActs') + 1 ELSE 0)
      BY <3>1, <2>1, <1>1
    <3>3. QED BY <1>5, <2>1, <3>1, <3>2 DEF Read, TypeOK, AwaitedIsLast, InSection, auth
  <2>3. CASE ~Wanted(CurrentSection)
    <3>1. stage' = 0 /\ sec' = sec + 1 /\ sec' \in 0..Len(Sections[task])+1
      BY <1>5, <2>1, <2>3, <1>0 DEF Read
    <3>2. stage' \in 0 .. (IF sec' \in DOMAIN Sections[task'] THEN Len(CurrentActs') + 1 ELSE 0)
      BY <3>1, <2>1, SectionsOK, TablesAreSequences
      DEF TypeOK, CurrentActs, CurrentSection, SectionOK
    <3>3. QED BY <1>5, <2>1, <3>1, <3>2 DEF Read, TypeOK, AwaitedIsLast, InSection, auth
  <2>4. QED BY <2>2, <2>3
<1>6. CASE Throw
  BY <1>6 DEF Throw, TypeOK, AwaitedIsLast, auth, CurrentActs, CurrentSection
<1>7. CASE Send
  <2>1. /\ sec \in DOMAIN Sections[task] /\ stage \in DOMAIN CurrentActs
        /\ CurrentTx.who # NoAccount /\ pending' = Append(pending, CurrentTx)
    BY <1>7 DEF Send, AtTx, InSection
  <2>2. CurrentTx \in Tx
    BY <2>1, CurrentTxOK
  <2>3. UNCHANGED <<task, sec, stage, crashes, members, owner, offered>>
    BY <1>7 DEF Send, auth
  <2>4. pending' \in Seq(Tx) /\ pending' # <<>> /\ pending'[Len(pending')] = CurrentTx
    BY <2>1, <2>2 DEF TypeOK
  <2>5. CurrentTx' = CurrentTx /\ CurrentActs' = CurrentActs
    BY <2>3 DEF CurrentTx, CurrentActs, CurrentSection
  <2>6. status' = "waiting"
    BY <1>7 DEF Send
  <2>7. TypeOK'
    BY <2>3, <2>4, <2>5, <2>6 DEF TypeOK
  <2>8. QED BY <2>1, <2>3, <2>4, <2>5, <2>7 DEF AwaitedIsLast
<1>8. CASE NextSection
  <2>1. task' = task /\ stage' = 0 /\ sec' = sec + 1 /\ sec' \in 0..Len(Sections[task])+1
    BY <1>8, <1>0 DEF NextSection, InSection
  <2>2. stage' \in 0 .. (IF sec' \in DOMAIN Sections[task'] THEN Len(CurrentActs') + 1 ELSE 0)
    BY <2>1, SectionsOK, TablesAreSequences
    DEF TypeOK, CurrentActs, CurrentSection, SectionOK
  <2>3. QED BY <1>8, <2>1, <2>2 DEF NextSection, InSection, TypeOK, AwaitedIsLast, auth
<1>9. CASE Finish
  BY <1>9 DEF Finish, TypeOK, AwaitedIsLast, auth, CurrentActs, CurrentSection
<1>10. CASE MineOrphan
  <2>1. Head(pending) \in Tx /\ pending' \in Seq(Tx)
    BY <1>10 DEF MineOrphan, TypeOK
  <2>2. UNCHANGED <<status, task, sec, stage, crashes>> /\ Execute(Head(pending))
    BY <1>10 DEF MineOrphan
  <2>3. CurrentTx' = CurrentTx /\ CurrentActs' = CurrentActs
    BY <2>2 DEF CurrentTx, CurrentActs, CurrentSection
  <2>4. TypeOK'
    BY <2>1, <2>2, <2>3, ExecuteTypes DEF TypeOK
  <2>5. ASSUME status' = "waiting"
        PROVE  pending' # <<>> /\ pending'[Len(pending')] = pending[Len(pending)]
    <3>1. pending \in Seq(Tx) /\ Len(pending) > 1 /\ pending' = Tail(pending)
      BY <1>10, <2>2, <2>5 DEF MineOrphan, TypeOK
    <3>2. Len(pending') = Len(pending) - 1
      BY <3>1
    <3>3. pending'[Len(pending) - 1] = pending[Len(pending)]
      BY <3>1
    <3>4. pending' # <<>>
      <4>1. Len(pending') # 0
        BY <3>1, <3>2
      <4>2. Len(<<>>) = 0
        OBVIOUS
      <4>3. QED BY <4>1, <4>2
    <3>5. Len(pending') = Len(pending) - 1 /\ pending'[Len(pending')] = pending'[Len(pending) - 1]
      BY <3>2
    <3>6. QED BY <3>3, <3>4, <3>5
  <2>6. QED BY <2>2, <2>3, <2>4, <2>5 DEF AwaitedIsLast
<1>11. CASE MineAwaited
  <2>1. /\ Head(pending) \in Tx /\ Execute(Head(pending)) /\ pending' = <<>>
        /\ sec \in DOMAIN Sections[task] /\ stage \in DOMAIN CurrentActs
        /\ UNCHANGED <<task, sec, crashes>>
    BY <1>11 DEF MineAwaited, TypeOK, AwaitedIsLast
  <2>2. CurrentActs' = CurrentActs
    BY <2>1 DEF CurrentActs, CurrentSection
  <2>3. /\ status' \in {"running", "failed"}
        /\ stage' \in 0..Len(CurrentActs)+1
    BY <1>11, <2>1, <1>1 DEF MineAwaited
  <2>4. pending' \in Seq(Tx)
    BY <2>1
  <2>5. QED BY <2>1, <2>2, <2>3, <2>4, ExecuteTypes DEF TypeOK, AwaitedIsLast
<1>12. CASE Crash
  BY <1>12, AccountAssumption
  DEF Crash, TypeOK, AwaitedIsLast, auth, CurrentActs, CurrentSection
<1>13. ASSUME NEW c \in Contract, Accept(c)
       PROVE  TypeInv'
  <2>1. offered[c] \in Account /\ owner' \in [Owned -> Account]
    BY <1>13, AccountAssumption DEF Accept, TypeOK
  <2>2. offered' \in [Contract -> Account \cup {NoAccount}]
    BY <1>13 DEF Accept, TypeOK
  <2>3. UNCHANGED <<members, pending, status, task, sec, stage, crashes>>
    BY <1>13 DEF Accept
  <2>4. QED BY <2>1, <2>2, <2>3
        DEF TypeOK, AwaitedIsLast, CurrentActs, CurrentSection, CurrentTx
<1>14. CASE UNCHANGED vars
  BY <1>14 DEF vars, TypeOK, AwaitedIsLast, CurrentActs, CurrentSection, CurrentTx
<1>15. QED
  BY <1>2, <1>3, <1>4, <1>5, <1>6, <1>7, <1>8, <1>9, <1>10, <1>11, <1>12, <1>13, <1>14
  DEF Next, Progress, Mine

(* The variables keep their types, for all accounts and any number of kills. *)
THEOREM TypeCorrect == Spec => []TypeOK
<1>1. Init => TypeInv
  BY InitTypeInv
<1>2. TypeInv /\ [Next]_vars => TypeInv'
  BY StepTypeInv
<1>3. TypeInv => TypeOK
  BY DEF TypeInv
<1>4. QED BY <1>1, <1>2, <1>3, PTL DEF Spec

-----------------------------------------------------------------------------
(* No role is vacant.                                                      *)
\* A mined transaction leaves a member, and the successors, in every role
\* when whoever it takes a role from has one who is not the successor.
LEMMA ExecuteKeepsSuccessors ==
  ASSUME TypeOK, RolesNeverVacant, NEW t \in Tx, Execute(t),
         t.act \in Removing => /\ t.obj \in Moved
                               /\ t.who # Successor[t.obj]
                               /\ Successor[t.obj] \in members[t.obj]
  PROVE  /\ RolesNeverVacant'
         /\ \A r \in Moved : Successor[r] \in members[r] => Successor[r] \in members'[r]
<1>0. /\ members \in [Role -> SUBSET Account]
      /\ Moved \subseteq Role
  BY DEF TypeOK, Role
<1>1. CASE ~Accepted(t)
  BY <1>1 DEF Execute, auth, RolesNeverVacant
<1>2. CASE Accepted(t) /\ t.act = "grant"
  <2>1. members' = [members EXCEPT ![t.obj] = @ \cup {t.who}]
    BY <1>2 DEF Execute
  <2>2. \A r \in Moved : members[r] \subseteq members'[r]
    BY <2>1, <1>0
  <2>3. QED BY <2>2 DEF RolesNeverVacant
<1>3. CASE Accepted(t) /\ t.act \in Removing
  <2>1. members' = [members EXCEPT ![t.obj] = @ \ {t.who}]
    BY <1>3 DEF Execute, Removing
  <2>2. \A r \in Moved : members'[r] = IF r = t.obj THEN members[r] \ {t.who} ELSE members[r]
    BY <2>1, <1>0
  <2>3. Successor[t.obj] \in members'[t.obj]
    BY <1>3, <2>2
  <2>4. QED BY <1>3, <2>2, <2>3 DEF RolesNeverVacant
<1>4. CASE Accepted(t) /\ t.act # "grant" /\ t.act \notin Removing
  BY <1>4 DEF Execute, RolesNeverVacant
<1>5. QED BY <1>1, <1>2, <1>3, <1>4

\* What Send appends takes a role only from one who is not the successor.
LEMMA SentIsCovered ==
  ASSUME SuccessorsDiffer, TypeOK, SuccessorFirst, status = "running",
         sec \in DOMAIN Sections[task], stage \in DOMAIN CurrentActs,
         CurrentTx.act \in Removing
  PROVE  /\ CurrentTx.obj \in Moved
         /\ CurrentTx.who # Successor[CurrentTx.obj]
         /\ Successor[CurrentTx.obj] \in members[CurrentTx.obj]
<1>1. /\ SectionOK(CurrentSection)
      /\ CurrentTx.act = CurrentActs[stage] /\ CurrentTx.obj = CurrentSection.obj
      /\ CurrentTx.who = CurrentSection.from
  BY CurrentTxOK DEF CurrentTx
<1>2. CurrentSection.kind \in {"move", "renounce"}
  BY <1>1, ActsOfSections DEF CurrentActs, SectionOK
<1>3. CurrentSection.obj \in Moved /\ CurrentSection.to = Successor[CurrentSection.obj]
  BY <1>1, <1>2 DEF SectionOK
<1>4. QED BY <1>1, <1>3 DEF SuccessorsDiffer, SuccessorFirst, SectionOK

\* The initial states satisfy HandoverInv.
LEMMA InitHandoverInv == Init => HandoverInv
<1>1. SUFFICES ASSUME Init PROVE HandoverInv
  OBVIOUS
<1>2. TypeOK /\ AwaitedIsLast
  BY <1>1, InitTypeInv DEF TypeInv
<1>3. RolesNeverVacant
  BY <1>1, MovedRoles DEF Init, RolesNeverVacant
<1>4. RemovalsCovered /\ SuccessorFirst
  BY <1>1 DEF Init, RemovalsCovered, SuccessorFirst
<1>5. QED BY <1>2, <1>3, <1>4 DEF HandoverInv

\* Mining a pending transaction keeps the roles filled and the rest covered.
LEMMA MineKeepsRoles ==
  ASSUME HandoverInv, pending # <<>>, Execute(Head(pending)), pending' = Tail(pending)
  PROVE  /\ RolesNeverVacant' /\ RemovalsCovered'
         /\ \A r \in Moved : Successor[r] \in members[r] => Successor[r] \in members'[r]
<1>1. pending \in Seq(Tx) /\ Head(pending) \in Tx /\ Head(pending) = pending[1]
      /\ 1 \in DOMAIN pending
  BY DEF HandoverInv, TypeOK
<1>2. Head(pending).act \in Removing =>
        /\ Head(pending).obj \in Moved
        /\ Head(pending).who # Successor[Head(pending).obj]
        /\ Successor[Head(pending).obj] \in members[Head(pending).obj]
  BY <1>1 DEF HandoverInv, RemovalsCovered
<1>3. /\ RolesNeverVacant'
      /\ \A r \in Moved : Successor[r] \in members[r] => Successor[r] \in members'[r]
  BY <1>1, <1>2, ExecuteKeepsSuccessors DEF HandoverInv
<1>4. ASSUME NEW k \in DOMAIN pending'
      PROVE  k + 1 \in DOMAIN pending /\ pending'[k] = pending[k + 1]
  BY <1>1, <1>4
<1>5. RemovalsCovered'
  BY <1>3, <1>4 DEF HandoverInv, RemovalsCovered
<1>6. QED BY <1>3, <1>5

\* Every step keeps HandoverInv.
LEMMA StepHandoverInv ==
  ASSUME SuccessorsDiffer, HandoverInv, [Next]_vars
  PROVE  HandoverInv'
<1> USE DEF HandoverInv
<1>0. TypeOK' /\ AwaitedIsLast'
  BY StepTypeInv DEF TypeInv
<1>1. SUFFICES RemovalsCovered' /\ SuccessorFirst' /\ RolesNeverVacant'
  BY <1>0
<1>2. CASE UNCHANGED <<members, pending>> /\ status' \notin {"running", "waiting"}
  BY <1>2 DEF RemovalsCovered, SuccessorFirst, RolesNeverVacant
<1>3. CASE UNCHANGED <<members, pending>> /\ stage' = 0
  <2>1. ASSUME sec' \in DOMAIN Sections[task']
        PROVE  stage' \notin DOMAIN CurrentActs'
    <3>1. SectionOK(CurrentSection)'
      BY <1>0, <2>1, SectionsOK DEF TypeOK, CurrentSection, SectionOK
    <3>2. DOMAIN CurrentActs' = 1..Len(CurrentActs')
      BY <3>1, TablesAreSequences DEF CurrentActs, SectionOK
    <3>3. QED BY <1>3, <3>2
  <2>2. SuccessorFirst'
    BY <2>1 DEF SuccessorFirst
  <2>3. QED BY <1>3, <2>2 DEF RemovalsCovered, RolesNeverVacant
<1>4. CASE Launch
  BY <1>3, <1>4 DEF Launch, auth
<1>5. CASE Exit
  BY <1>2, <1>5 DEF Exit, auth
<1>6. CASE Proceed
  <2>1. stage = 0
    BY <1>6, TablesAreSequences DEF Proceed, TypeOK
  <2>2. QED BY <1>3, <1>6, <2>1 DEF Proceed, auth
<1>7. CASE Read
  <2>1. CASE ~Wanted(CurrentSection)
    BY <1>3, <1>7, <2>1 DEF Read, auth
  <2>2. CASE Wanted(CurrentSection)
    <3>1. /\ stage' = 1 /\ sec \in DOMAIN Sections[task] /\ UNCHANGED <<members, pending>>
          /\ CurrentSection' = CurrentSection /\ CurrentActs' = CurrentActs
      BY <1>7, <2>2 DEF Read, InSection, CurrentSection, CurrentActs, auth
    <3>2. SectionOK(CurrentSection)
      BY <3>1, SectionsOK DEF TypeOK, CurrentSection
    <3>3. ASSUME 1 \in DOMAIN CurrentActs, CurrentActs[1] \in Removing
          PROVE  CurrentSection.to \in members[CurrentSection.obj]
      <4>1. CurrentSection.kind = "renounce"
        BY <3>2, <3>3, ActsOfSections DEF SectionOK, CurrentActs
      <4>2. QED BY <2>2, <4>1 DEF Wanted
    <3>4. SuccessorFirst'
      BY <3>1, <3>3 DEF SuccessorFirst
    <3>5. QED BY <3>1, <3>4 DEF RemovalsCovered, RolesNeverVacant
  <2>3. QED BY <2>1, <2>2
<1>8. CASE Throw
  BY <1>2, <1>8 DEF Throw, auth
<1>9. CASE Send
  <2>1. /\ status = "running" /\ sec \in DOMAIN Sections[task]
        /\ stage \in DOMAIN CurrentActs /\ CurrentTx.who # NoAccount
        /\ pending' = Append(pending, CurrentTx)
        /\ UNCHANGED <<members, task, sec, stage>>
    BY <1>9 DEF Send, AtTx, InSection, auth
  <2>2. CurrentSection' = CurrentSection /\ CurrentActs' = CurrentActs
    BY <2>1 DEF CurrentSection, CurrentActs
  <2>3. CurrentTx \in Tx /\ pending \in Seq(Tx)
    BY <2>1, CurrentTxOK DEF TypeOK
  <2>4. SuccessorFirst'
    BY <2>1, <2>2 DEF SuccessorFirst
  <2>5. ASSUME NEW k \in DOMAIN pending'
        PROVE  \/ k \in DOMAIN pending /\ pending'[k] = pending[k]
               \/ pending'[k] = CurrentTx
    BY <2>1, <2>3, <2>5
  <2>6. RemovalsCovered'
    BY <2>1, <2>5, SentIsCovered DEF RemovalsCovered
  <2>7. QED BY <2>1, <2>4, <2>6 DEF RolesNeverVacant
<1>10. CASE NextSection
  BY <1>3, <1>10 DEF NextSection, auth
<1>11. CASE Finish
  BY <1>2, <1>11 DEF Finish, auth
<1>12. CASE MineOrphan
  <2>1. /\ RolesNeverVacant' /\ RemovalsCovered'
        /\ \A r \in Moved : Successor[r] \in members[r] => Successor[r] \in members'[r]
    BY <1>12, MineKeepsRoles DEF MineOrphan
  <2>2. /\ UNCHANGED <<status, task, sec, stage>>
        /\ CurrentSection' = CurrentSection /\ CurrentActs' = CurrentActs
    BY <1>12 DEF MineOrphan, CurrentSection, CurrentActs
  <2>3. ASSUME sec \in DOMAIN Sections[task], stage \in DOMAIN CurrentActs,
               CurrentActs[stage] \in Removing
        PROVE  CurrentSection.obj \in Moved /\ CurrentSection.to = Successor[CurrentSection.obj]
    BY <2>3, SectionsOK, ActsOfSections DEF TypeOK, CurrentSection, CurrentActs, SectionOK
  <2>4. SuccessorFirst'
    BY <2>1, <2>2, <2>3 DEF SuccessorFirst
  <2>5. QED BY <2>1, <2>4
<1>13. CASE MineAwaited
  <2>1. /\ pending \in Seq(Tx) /\ pending # <<>> /\ Len(pending) = 1
        /\ pending[Len(pending)] = CurrentTx
        /\ sec \in DOMAIN Sections[task] /\ stage \in DOMAIN CurrentActs
        /\ UNCHANGED <<task, sec>> /\ pending' = <<>> /\ Execute(Head(pending))
    BY <1>13 DEF MineAwaited, TypeOK, AwaitedIsLast
  <2>2. Head(pending) = CurrentTx /\ pending' = Tail(pending)
    <3>1. Head(pending) = CurrentTx
      BY <2>1
    <3>2. Tail(pending) \in Seq(Tx) /\ Len(Tail(pending)) = 0
      BY <2>1
    <3>3. Tail(pending) = <<>>
      BY <3>2, EmptySeq
    <3>4. QED BY <2>1, <3>1, <3>3
  <2>3. RolesNeverVacant' /\ RemovalsCovered'
    BY <2>1, <2>2, MineKeepsRoles
  <2>4. CurrentSection' = CurrentSection /\ CurrentActs' = CurrentActs
    BY <2>1 DEF CurrentSection, CurrentActs
  <2>5. SectionOK(CurrentSection)
    BY <2>1, SectionsOK DEF TypeOK, CurrentSection
  <2>6. CASE ~Accepted(CurrentTx)
    <3>1. status' = "failed"
      BY <1>13, <2>2, <2>6 DEF MineAwaited
    <3>2. QED BY <2>3, <3>1 DEF SuccessorFirst
  <2>7. CASE Accepted(CurrentTx)
    <3>1. stage' = stage + 1 /\ stage \in Nat /\ stage > 0
      BY <1>13, <2>1, <2>2, <2>5, <2>7, TablesAreSequences
      DEF MineAwaited, CurrentActs, SectionOK
    <3>2. ASSUME stage' \in DOMAIN CurrentActs, CurrentActs[stage'] \in Removing
          PROVE  CurrentSection.to \in members'[CurrentSection.obj]
      <4>1. CurrentSection.kind = "move" /\ stage = 1 /\ CurrentActs[1] = "grant"
        BY <2>5, <3>1, <3>2, ActsOfSections DEF SectionOK, CurrentActs
      <4>2. /\ CurrentTx.act = "grant" /\ CurrentTx.obj = CurrentSection.obj
            /\ CurrentTx.who = CurrentSection.to
        BY <4>1 DEF CurrentTx, Removing
      <4>3. members' = [members EXCEPT ![CurrentTx.obj] = @ \cup {CurrentTx.who}]
        BY <2>1, <2>2, <2>7, <4>2 DEF Execute
      <4>4. CurrentSection.obj \in Role
        BY <2>5, <4>1 DEF SectionOK, Role
      <4>5. QED BY <4>2, <4>3, <4>4 DEF TypeOK
    <3>3. SuccessorFirst'
      BY <2>4, <3>2 DEF SuccessorFirst
    <3>4. QED BY <2>3, <3>3
  <2>8. QED BY <2>6, <2>7
<1>14. CASE Crash
  BY <1>2, <1>14 DEF Crash, auth
<1>15. ASSUME NEW c \in Contract, Accept(c)
       PROVE  RemovalsCovered' /\ SuccessorFirst' /\ RolesNeverVacant'
  BY <1>15
  DEF Accept, RemovalsCovered, SuccessorFirst, RolesNeverVacant, CurrentSection, CurrentActs
<1>16. CASE UNCHANGED vars
  BY <1>16
  DEF vars, RemovalsCovered, SuccessorFirst, RolesNeverVacant, CurrentSection, CurrentActs
<1>17. QED
  BY <1>4, <1>5, <1>6, <1>7, <1>8, <1>9, <1>10, <1>11, <1>12, <1>13, <1>14, <1>15, <1>16
  DEF Next, Progress, Mine

(* HandoverInv, for all accounts of which none takes over a role from      *)
(* itself and any number of kills: what a task is about to take away, and  *)
(* every removal still pending, has its successor in place.                *)
THEOREM SuccessorsInPlace == SuccessorsDiffer => (Spec => []HandoverInv)
<1> SUFFICES ASSUME SuccessorsDiffer PROVE Spec => []HandoverInv
  OBVIOUS
<1>1. Init => HandoverInv
  BY InitHandoverInv
<1>2. HandoverInv /\ [Next]_vars => HandoverInv'
  BY StepHandoverInv
<1>3. QED BY <1>1, <1>2, PTL DEF Spec

(* Under the same premise no role is ever without a member.                *)
THEOREM NoRoleVacant == SuccessorsDiffer => (Spec => []RolesNeverVacant)
<1>1. HandoverInv => RolesNeverVacant
  BY DEF HandoverInv
<1>2. QED BY <1>1, SuccessorsInPlace, PTL

-----------------------------------------------------------------------------
(* The order of the transfer.                                              *)
\* The table of the transfer, section by section.
LEMMA TransferTable ==
  /\ Len(Transfer) = 11 /\ DOMAIN Transfer = 1..11
  /\ Sections["transfer"] = Transfer /\ Sections["renounce"] = Renounce
  /\ Task = {"transfer", "renounce"}
BY DEF Transfer, Sections, Task

TransferSectionOK(i) ==
  LET s == Transfer[i]
  IN  /\ s.kind \in {"grant", "move", "name", "offer"}
      /\ s.kind = "grant" => s.obj = "flashBorrower" /\ s.to = FlashBorrower
      /\ s.kind = "move" => /\ s.obj \in Moved /\ s.to = Successor[s.obj]
                            /\ s.from = IF s.obj = "poolAdmin" THEN PoolAdmin ELSE Deployer
                            /\ s.obj = "defaultAdmin" => i = 11
      /\ i = 11 => s.kind = "move" /\ s.obj = "defaultAdmin"
      /\ s.kind = "name" => /\ s.obj = "aclAdmin" /\ s.from = Deployer
                            /\ s.to = AclMultisig /\ i <= 6
      /\ s.kind = "offer" => /\ s.obj \in Contract /\ s.from = Deployer
                             /\ s.to = NewOwner[s.obj]
                             /\ s.obj = "provider" => i = 7

LEMMA TransferSectionsOK == \A i \in 1..11 : TransferSectionOK(i)
<1> SUFFICES ASSUME NEW i \in 1..11 PROVE TransferSectionOK(i)
  OBVIOUS
<1>1. CASE i = 1
  BY <1>1 DEF Transfer, TransferSectionOK, Section
<1>2. CASE i = 2
  BY <1>2, MovedRoles DEF Transfer, TransferSectionOK, Section, Move
<1>3. CASE i = 3
  BY <1>3, MovedRoles DEF Transfer, TransferSectionOK, Section, Move
<1>4. CASE i = 4
  BY <1>4, MovedRoles DEF Transfer, TransferSectionOK, Section, Move
<1>5. CASE i = 5
  BY <1>5 DEF Transfer, TransferSectionOK, Section, NameAclAdmin
<1>6. CASE i = 6
  BY <1>6 DEF Transfer, TransferSectionOK, Section, Offer, NewOwner, Contract
<1>7. CASE i = 7
  BY <1>7 DEF Transfer, TransferSectionOK, Section, Offer, NewOwner, Contract
<1>8. CASE i = 8
  BY <1>8 DEF Transfer, TransferSectionOK, Section, Offer, NewOwner, Contract
<1>9. CASE i = 9
  BY <1>9 DEF Transfer, TransferSectionOK, Section, Offer, NewOwner, Contract
<1>10. CASE i = 10
  BY <1>10 DEF Transfer, TransferSectionOK, Section, Offer, NewOwner, Contract
<1>11. CASE i = 11
  BY <1>11, MovedRoles DEF Transfer, TransferSectionOK, Section, Move
<1>12. QED
  BY <1>1, <1>2, <1>3, <1>4, <1>5, <1>6, <1>7, <1>8, <1>9, <1>10, <1>11

\* What the tables say of a transaction of theirs.
AsTabled(t) ==
  /\ t.act \in {"grant", "revoke", "renounce", "name", "offer"}
  /\ t.act = "grant" => \/ t.obj = "flashBorrower" /\ t.who = FlashBorrower
                        \/ t.obj \in Moved /\ t.who = Successor[t.obj]
  /\ t.act \in Removing => /\ t.obj \in Moved
                           /\ t.who = Giver[t.obj] \/ (t.obj = "poolAdmin" /\ t.who = Deployer)
  /\ t.act = "name" => t.obj = "aclAdmin" /\ t.who = AclMultisig
  /\ t.act = "offer" => t.obj \in Contract /\ t.who = NewOwner[t.obj]

\* A transaction in order is as the tables say, and what it is about is the
\* turn of its section.
LEMMA InOrderIsTabled ==
  ASSUME NEW t, InOrder(t)
  PROVE  /\ AsTabled(t)
         /\ t.act # "renounce" =>
              \E i \in 1..11 : ClearedUpTo(i - 1) /\ t.obj = Transfer[i].obj
         /\ t.act = "offer" /\ t.obj = "provider" => ClearedUpTo(6)
         /\ t.act \in Removing /\ t.obj = "defaultAdmin" => ClearedUpTo(10)
<1>1. CASE BelongsTo(t, Renounce[1])
  <2>1. t.act = "renounce" /\ t.obj = "poolAdmin" /\ t.who = Deployer
    <3>1. Renounce[1].kind = "renounce" /\ Renounce[1].obj = "poolAdmin" /\ Renounce[1].from = Deployer
      BY DEF Renounce, Section
    <3>2. QED BY <1>1, <3>1, ActsOfKinds DEF BelongsTo, Removing
  <2>2. QED BY <2>1, MovedRoles DEF AsTabled, Removing
<1>2. ASSUME NEW i \in 1..11, ClearedUpTo(i - 1), BelongsTo(t, Transfer[i])
      PROVE  /\ AsTabled(t) /\ t.obj = Transfer[i].obj
             /\ t.act = "offer" /\ t.obj = "provider" => ClearedUpTo(6)
             /\ t.act \in Removing /\ t.obj = "defaultAdmin" => ClearedUpTo(10)
  <2> DEFINE s == Transfer[i]
  <2>1. TransferSectionOK(i)
    BY TransferSectionsOK
  <2>2. PICK k \in DOMAIN Acts[s.kind] :
          /\ t.act = Acts[s.kind][k] /\ t.obj = s.obj
          /\ t.who = IF Acts[s.kind][k] \in Removing THEN s.from ELSE s.to
    BY <1>2 DEF BelongsTo
  <2>3. CASE s.kind = "grant"
    <3>1. t.act = "grant" /\ t.obj = "flashBorrower" /\ t.who = FlashBorrower
      BY <2>1, <2>2, <2>3, ActsOfKinds DEF TransferSectionOK, Removing
    <3>2. QED BY <2>2, <3>1 DEF AsTabled, Removing
  <2>4. CASE s.kind = "move"
    <3>1. /\ t.act \in {"grant", "revoke"} /\ t.obj \in Moved
          /\ t.act = "grant" => t.who = Successor[t.obj]
          /\ t.act = "revoke" => t.who = Giver[t.obj]
          /\ t.obj = "defaultAdmin" => i = 11
      BY <2>1, <2>2, <2>4, ActsOfKinds DEF TransferSectionOK, Removing, Giver
    <3>2. QED BY <1>2, <2>2, <3>1 DEF AsTabled, Removing
  <2>5. CASE s.kind = "name"
    <3>1. t.act = "name" /\ t.obj = "aclAdmin" /\ t.who = AclMultisig
      BY <2>1, <2>2, <2>5, ActsOfKinds DEF TransferSectionOK, Removing
    <3>2. QED BY <2>2, <3>1 DEF AsTabled, Removing
  <2>6. CASE s.kind = "offer"
    <3>1. /\ t.act = "offer" /\ t.obj \in Contract /\ t.who = NewOwner[t.obj]
          /\ t.obj = "provider" => i = 7
      BY <2>1, <2>2, <2>6, ActsOfKinds DEF TransferSectionOK, Removing
    <3>2. QED BY <1>2, <2>2, <3>1 DEF AsTabled, Removing
  <2>7. QED BY <2>1, <2>3, <2>4, <2>5, <2>6 DEF TransferSectionOK
<1>3. QED BY <1>1, <1>2, TransferTable DEF InOrder

\* After a step that gives nothing back a section that was cleared still is.
LEMMA ClearedStays ==
  ASSUME NothingReturns
  PROVE  /\ \A i \in 1..11 : Cleared(Transfer[i]) => Cleared(Transfer[i])'
         /\ \A n \in 0..11 : ClearedUpTo(n) => ClearedUpTo(n)'
         /\ \A t : InOrder(t) => InOrder(t)'
<1>1. ASSUME NEW i \in 1..11, Cleared(Transfer[i])
      PROVE  Cleared(Transfer[i])'
  <2>1. TransferSectionOK(i)
    BY TransferSectionsOK
  <2>2. CASE Transfer[i].kind = "grant"
    BY <1>1, <2>1, <2>2 DEF NothingReturns, Cleared, TransferSectionOK
  <2>3. CASE Transfer[i].kind = "move"
    BY <1>1, <2>1, <2>3 DEF NothingReturns, Cleared, TransferSectionOK
  <2>4. CASE Transfer[i].kind = "name"
    BY <1>1, <2>1, <2>4 DEF NothingReturns, Cleared, TransferSectionOK, Owned
  <2>5. CASE Transfer[i].kind = "offer"
    BY <1>1, <2>1, <2>5 DEF NothingReturns, Cleared, TransferSectionOK, Owned
  <2>6. QED BY <2>1, <2>2, <2>3, <2>4, <2>5 DEF TransferSectionOK
<1>2. \A n \in 0..11 : ClearedUpTo(n) => ClearedUpTo(n)'
  BY <1>1 DEF ClearedUpTo
<1>3. ASSUME NEW t, InOrder(t)
      PROVE  InOrder(t)'
  <2>1. CASE BelongsTo(t, Renounce[1])
    BY <2>1 DEF InOrder, BelongsTo
  <2>2. ASSUME NEW i \in DOMAIN Transfer, ClearedUpTo(i - 1), BelongsTo(t, Transfer[i])
        PROVE  InOrder(t)'
    <3>1. i - 1 \in 0..11
      BY <2>2, TransferTable
    <3>2. ClearedUpTo(i - 1)'
      BY <1>2, <2>2, <3>1
    <3>3. BelongsTo(t, Transfer[i])'
      BY <2>2 DEF BelongsTo
    <3>4. QED BY <2>2, <3>2, <3>3 DEF InOrder
  <2>3. QED BY <1>3, <2>1, <2>2 DEF InOrder
<1>4. QED BY <1>1, <1>2, <1>3

\* Steps that leave the contracts alone return nothing.
LEMMA AuthUnchanged ==
  ASSUME UNCHANGED auth
  PROVE  NothingReturns /\ (AuthInOrder => AuthInOrder')
BY DEF auth, NothingReturns, AuthInOrder, ClearedUpTo, Cleared

\* A mined transaction that is in order returns nothing and keeps the order.
LEMMA ExecuteInOrder ==
  ASSUME OthersTakeOver, TypeOK, AuthInOrder, NEW t \in Tx, InOrder(t), Execute(t)
  PROVE  NothingReturns /\ AuthInOrder'
<1>0. /\ members \in [Role -> SUBSET Account] /\ owner \in [Owned -> Account]
      /\ offered \in [Contract -> Account \cup {NoAccount}]
      /\ Moved \subseteq Role /\ "flashBorrower" \in Role /\ "flashBorrower" \notin Moved
      /\ Contract \subseteq Owned /\ "aclAdmin" \in Owned /\ "provider" \in Contract
      /\ {"defaultAdmin", "poolAdmin"} \subseteq Moved /\ "aclAdmin" \notin Contract
  BY MovedRoles DEF TypeOK, Role, Owned, Contract
<1>1. /\ Deployer \in Account /\ PoolAdmin \in Account /\ NoAccount \notin Account
      /\ t.who \in Account
  BY AccountAssumption DEF Tx
<1>t. /\ AsTabled(t)
      /\ t.act = "offer" /\ t.obj = "provider" => ClearedUpTo(6)
      /\ t.act \in Removing /\ t.obj = "defaultAdmin" => ClearedUpTo(10)
  BY InOrderIsTabled
<1>2. CASE ~Accepted(t)
  BY <1>2, AuthUnchanged DEF Execute
<1>3. CASE Accepted(t) /\ t.act = "grant"
  <2>1. members' = [members EXCEPT ![t.obj] = @ \cup {t.who}] /\ UNCHANGED <<owner, offered>>
    BY <1>3 DEF Execute
  <2>2. \A r \in Moved : members'[r] \subseteq members[r] \cup {Successor[r]}
    BY <2>1, <1>0, <1>3, <1>t DEF AsTabled
  <2>3. \A r \in Role : members[r] \subseteq members'[r]
    BY <2>1, <1>0
  <2>4. NothingReturns
    BY <2>1, <2>2, <2>3, <1>0 DEF NothingReturns, OthersTakeOver, SuccessorsDiffer
  <2>5. Deployer \notin members'["defaultAdmin"] => Deployer \notin members["defaultAdmin"]
    BY <2>3, <1>0
  <2>6. Deployer \notin members["poolAdmin"] => Deployer \notin members'["poolAdmin"]
    BY <2>4, <1>0 DEF NothingReturns
  <2>7. QED BY <2>1, <2>4, <2>5, <2>6, ClearedStays DEF AuthInOrder
<1>4. CASE Accepted(t) /\ t.act \in Removing
  <2>1. members' = [members EXCEPT ![t.obj] = @ \ {t.who}] /\ UNCHANGED <<owner, offered>>
    BY <1>4 DEF Execute, Removing
  <2>2. \A r \in Role : members'[r] \subseteq members[r]
    BY <2>1, <1>0
  <2>3. members'["flashBorrower"] = members["flashBorrower"]
    BY <2>1, <1>0, <1>4, <1>t DEF AsTabled
  <2>4. NothingReturns
    BY <2>1, <2>2, <2>3, <1>0 DEF NothingReturns
  <2>5. Deployer \notin members'["defaultAdmin"] =>
          Deployer \notin members["defaultAdmin"] \/ t.obj = "defaultAdmin"
    BY <2>1, <1>0
  <2>6. Deployer \notin members["poolAdmin"] => Deployer \notin members'["poolAdmin"]
    BY <2>4, <1>0 DEF NothingReturns
  <2>7. QED BY <2>1, <2>4, <2>5, <2>6, <1>4, <1>t, ClearedStays DEF AuthInOrder
<1>5. CASE Accepted(t) /\ t.act = "name"
  <2>1. owner' = [owner EXCEPT !["aclAdmin"] = t.who] /\ UNCHANGED <<members, offered>>
    BY <1>5 DEF Execute, Removing
  <2>2. owner'["aclAdmin"] # Deployer /\ \A c \in Contract : owner'[c] = owner[c]
    BY <2>1, <1>0, <1>5, <1>t, MovedRoles
    DEF AsTabled, OthersTakeOver, SuccessorsDiffer, Successor
  <2>3. NothingReturns
    BY <2>1, <2>2, <1>0 DEF NothingReturns, Owned
  <2>4. QED BY <2>1, <2>2, <2>3, <1>0, ClearedStays DEF AuthInOrder
<1>6. CASE Accepted(t) /\ t.act = "offer"
  <2>1. offered' = [offered EXCEPT ![t.obj] = t.who] /\ UNCHANGED <<members, owner>>
    BY <1>6 DEF Execute, Removing
  <2>2. t.obj \in Contract /\ t.who = NewOwner[t.obj]
    BY <1>6, <1>t DEF AsTabled
  <2>3. \A c \in Contract : offered'[c] = IF c = t.obj THEN t.who ELSE offered[c]
    BY <2>1, <1>0
  <2>4. NothingReturns
    BY <2>1, <2>3, <1>1 DEF NothingReturns
  <2>5. \A c \in Contract : offered'[c] \in {NoAccount, NewOwner[c]}
    BY <2>2, <2>3 DEF AuthInOrder
  <2>6. offered'["provider"] # NoAccount =>
          offered["provider"] # NoAccount \/ t.obj = "provider"
    BY <2>3, <1>0
  <2>7. QED BY <2>1, <2>4, <2>5, <2>6, <1>6, <1>t, ClearedStays DEF AuthInOrder
<1>7. QED BY <1>2, <1>3, <1>4, <1>5, <1>6 DEF Tx, Removing

\* Nor does an acceptance return anything.
LEMMA AcceptInOrder ==
  ASSUME OthersTakeOver, TypeOK, AuthInOrder, NEW c \in Contract, Accept(c)
  PROVE  NothingReturns /\ AuthInOrder'
<1>1. /\ owner' = [owner EXCEPT ![c] = offered[c]]
      /\ offered' = [offered EXCEPT ![c] = NoAccount] /\ members' = members
  BY DEF Accept
<1>2. offered[c] # NoAccount /\ offered[c] = NewOwner[c] /\ NewOwner[c] # Deployer
  BY DEF Accept, AuthInOrder, NewOwner, OthersTakeOver
<1>3. /\ \A d \in Owned : owner'[d] = IF d = c THEN offered[c] ELSE owner[d]
      /\ \A d \in Contract : offered'[d] = IF d = c THEN NoAccount ELSE offered[d]
      /\ Contract \subseteq Owned /\ "provider" \in Contract
  BY <1>1 DEF TypeOK, Owned, Contract
<1>4. NothingReturns
  BY <1>1, <1>2, <1>3 DEF NothingReturns
<1>5. owner'["provider"] # Deployer \/ offered'["provider"] # NoAccount =>
        owner["provider"] # Deployer \/ offered["provider"] # NoAccount
  BY <1>2, <1>3
<1>6. QED BY <1>1, <1>3, <1>4, <1>5, ClearedStays DEF AuthInOrder

\* The initial states are in order.
LEMMA InitOrderInv == OthersTakeOver /\ Init => OrderInv
<1> SUFFICES ASSUME OthersTakeOver, Init PROVE OrderInv
  OBVIOUS
<1>1. ClearedSoFar
  BY TransferTable DEF Init, ClearedSoFar, ClearedUpTo
<1>2. \A c \in Contract : offered[c] \in {NoAccount, NewOwner[c]}
  BY DEF Init
<1>3. owner["provider"] = Deployer /\ offered["provider"] = NoAccount
  BY DEF Init, Contract
<1>4. Deployer \in members["defaultAdmin"] /\ members["poolAdmin"] = {PoolAdmin}
  BY DEF Init
<1>5. AuthInOrder
  BY <1>2, <1>3, <1>4 DEF AuthInOrder
<1>6. QED BY <1>1, <1>5 DEF OrderInv, SentInOrder, Init

\* Whatever a task sends is in order.
LEMMA CurrentTxInOrder ==
  ASSUME TypeOK, ClearedSoFar, sec \in DOMAIN Sections[task], stage \in DOMAIN CurrentActs
  PROVE  InOrder(CurrentTx)
<1>1. BelongsTo(CurrentTx, CurrentSection)
  BY DEF BelongsTo, CurrentTx, CurrentActs
<1>2. CASE task = "renounce"
  <2>1. CurrentSection = Renounce[1]
    BY <1>2, TransferTable DEF CurrentSection, Renounce
  <2>2. QED BY <1>1, <2>1 DEF InOrder
<1>3. CASE task = "transfer"
  <2>1. sec \in DOMAIN Transfer /\ CurrentSection = Transfer[sec] /\ ClearedUpTo(sec - 1)
    BY <1>3, TransferTable DEF CurrentSection, ClearedSoFar
  <2>2. QED BY <1>1, <2>1 DEF InOrder
<1>4. QED BY <1>2, <1>3, TransferTable DEF TypeOK

\* A section that finds nothing to do, or whose last transaction is mined,
\* is cleared.
LEMMA UnwantedIsCleared ==
  ASSUME NEW i \in 1..11, ~Wanted(Transfer[i])
  PROVE  Cleared(Transfer[i])
BY TransferSectionsOK DEF TransferSectionOK, Wanted, Cleared

LEMMA MinedIsCleared ==
  ASSUME OthersTakeOver, TypeOK, task = "transfer", sec \in DOMAIN Sections[task],
         stage \in DOMAIN CurrentActs, stage + 1 > Len(CurrentActs),
         CurrentTx.who # NoAccount, Accepted(CurrentTx), Execute(CurrentTx), UNCHANGED sec
  PROVE  Cleared(Transfer[sec])'
<1>1. /\ sec \in 1..11 /\ CurrentSection = Transfer[sec] /\ TransferSectionOK(sec)
      /\ CurrentTx.act = CurrentActs[stage] /\ CurrentTx.obj = CurrentSection.obj
      /\ CurrentTx.who = IF CurrentActs[stage] \in Removing
                         THEN CurrentSection.from ELSE CurrentSection.to
  BY TransferTable, TransferSectionsOK DEF CurrentSection, CurrentTx
<1>2. /\ members \in [Role -> SUBSET Account] /\ owner \in [Owned -> Account]
      /\ offered \in [Contract -> Account \cup {NoAccount}]
      /\ Moved \subseteq Role /\ "flashBorrower" \in Role /\ "aclAdmin" \in Owned
  BY DEF TypeOK, Role, Owned
<1> DEFINE s == Transfer[sec]
<1>3. CASE s.kind = "grant"
  <2>1. CurrentTx.act = "grant" /\ CurrentTx.obj = s.obj /\ CurrentTx.who = s.to
    BY <1>1, <1>3, ActsOfKinds DEF CurrentActs, Removing
  <2>2. members' = [members EXCEPT ![s.obj] = @ \cup {s.to}]
    BY <2>1 DEF Execute
  <2>3. s.to \in members'[s.obj]
    BY <2>2, <1>1, <1>2, <1>3 DEF TransferSectionOK
  <2>4. QED BY <2>3, <1>3 DEF Cleared
<1>4. CASE s.kind = "move"
  <2>1. CurrentTx.act = "revoke" /\ CurrentTx.obj = s.obj /\ CurrentTx.who = s.from
    BY <1>1, <1>4, ActsOfKinds DEF CurrentActs, Removing
  <2>2. members' = [members EXCEPT ![s.obj] = @ \ {s.from}]
    BY <2>1 DEF Execute, Removing
  <2>3. s.from \notin members'[s.obj]
    BY <2>2, <1>1, <1>2, <1>4 DEF TransferSectionOK
  <2>4. QED BY <2>3, <1>4 DEF Cleared
<1>5. CASE s.kind = "name"
  <2>1. CurrentTx.act = "name" /\ CurrentTx.who = AclMultisig /\ s.obj = "aclAdmin"
    BY <1>1, <1>5, ActsOfKinds DEF CurrentActs, Removing, TransferSectionOK
  <2>2. owner' = [owner EXCEPT !["aclAdmin"] = AclMultisig]
    BY <2>1 DEF Execute, Removing
  <2>3. owner'["aclAdmin"] # Deployer
    BY <2>2, <1>2, MovedRoles DEF OthersTakeOver, SuccessorsDiffer, Successor
  <2>4. QED BY <2>1, <2>3, <1>5 DEF Cleared
<1>6. CASE s.kind = "offer"
  <2>1. CurrentTx.act = "offer" /\ CurrentTx.obj = s.obj /\ CurrentTx.who = s.to
    BY <1>1, <1>6, ActsOfKinds DEF CurrentActs, Removing
  <2>2. offered' = [offered EXCEPT ![s.obj] = s.to]
    BY <2>1 DEF Execute, Removing
  <2>3. offered'[s.obj] # NoAccount
    BY <2>1, <2>2, <1>1, <1>2, <1>6 DEF TransferSectionOK
  <2>4. QED BY <2>3, <1>6 DEF Cleared
<1>7. QED BY <1>1, <1>3, <1>4, <1>5, <1>6 DEF TransferSectionOK

\* What mining the oldest transaction leaves in order.
LEMMA MineInOrder ==
  ASSUME OthersTakeOver, TypeOK, OrderInv, pending # <<>>, Execute(Head(pending)),
         pending' = Tail(pending)
  PROVE  NothingReturns /\ AuthInOrder' /\ SentInOrder'
<1>1. /\ pending \in Seq(Tx) /\ Head(pending) \in Tx /\ Head(pending) = pending[1]
      /\ 1 \in DOMAIN pending
  BY DEF TypeOK
<1>2. NothingReturns /\ AuthInOrder'
  BY <1>1, ExecuteInOrder DEF OrderInv, SentInOrder
<1>3. ASSUME NEW k \in DOMAIN pending'
      PROVE  k + 1 \in DOMAIN pending /\ pending'[k] = pending[k + 1]
  BY <1>1, <1>3
<1>4. SentInOrder'
  BY <1>2, <1>3, ClearedStays DEF OrderInv, SentInOrder, InOrder
<1>5. QED BY <1>2, <1>4

\* Where a transfer may be.
LEMMA SectionOfTransfer ==
  ASSUME TypeOK, task = "transfer"
  PROVE  sec \in 0..12
<1>1. Sections[task] = Transfer /\ Len(Transfer) = 11
  BY TransferTable
<1>2. Len(Sections[task]) + 1 = 12
  BY <1>1
<1>3. sec \in 0 .. Len(Sections[task]) + 1
  BY DEF TypeOK
<1>4. QED BY <1>2, <1>3

\* Every step keeps OrderInv and gives nothing back.
LEMMA StepOrderInv ==
  ASSUME OthersTakeOver, TypeInv, OrderInv, [Next]_vars
  PROVE  OrderInv' /\ NothingReturns
<1> USE DEF TypeInv
<1>0. TypeOK' /\ AwaitedIsLast'
  BY StepTypeInv
<1>1. /\ sec \in Nat /\ stage \in Nat /\ task \in Task
      /\ Len(Sections[task]) \in Nat /\ DOMAIN Sections[task] = 1..Len(Sections[task])
  BY TablesAreSequences DEF TypeOK
<1>2. ASSUME sec \in DOMAIN Sections[task]
      PROVE  Len(CurrentActs) \in Nat \ {0} /\ DOMAIN CurrentActs = 1..Len(CurrentActs)
  BY <1>2, SectionsOK, TablesAreSequences DEF TypeOK, CurrentActs, CurrentSection, SectionOK
<1>3. ASSUME UNCHANGED <<auth, pending>>
      PROVE  NothingReturns /\ AuthInOrder' /\ SentInOrder'
  BY <1>3, AuthUnchanged, ClearedStays DEF OrderInv, SentInOrder, InOrder
<1>4. ASSUME NothingReturns, UNCHANGED <<task, sec, stage>>
      PROVE  ClearedSoFar'
  <2>1. /\ CurrentActs' = CurrentActs
        /\ task = "transfer" => sec \in 0..12
    <3>1. CurrentActs' = CurrentActs
      BY <1>4 DEF CurrentActs, CurrentSection
    <3>2. QED BY <3>1, SectionOfTransfer
  <2>2. ASSUME task = "transfer", ClearedUpTo(sec - 1)
        PROVE  ClearedUpTo(sec - 1)'
    <3>1. CASE sec = 0
      BY <1>4, <3>1 DEF ClearedUpTo
    <3>2. CASE sec \in 1..12
      BY <1>4, <2>2, <3>2, ClearedStays DEF ClearedUpTo
    <3>3. QED BY <2>1, <2>2, <3>1, <3>2
  <2>3. ASSUME sec \in DOMAIN Transfer, Cleared(Transfer[sec])
        PROVE  Cleared(Transfer[sec])'
    BY <1>4, <2>3, ClearedStays, TransferTable DEF Cleared
  <2>4. QED BY <1>4, <2>1, <2>2, <2>3 DEF OrderInv, ClearedSoFar
<1>5. ASSUME NothingReturns, UNCHANGED task, sec \in DOMAIN Sections[task],
             sec' = sec + 1, stage' = 0, task = "transfer" => Cleared(Transfer[sec])
      PROVE  ClearedSoFar'
  <2>1. SUFFICES ASSUME task = "transfer" PROVE ClearedSoFar'
    BY <1>5 DEF ClearedSoFar
  <2>2. sec \in 1..11 /\ ClearedUpTo(sec - 1) /\ Cleared(Transfer[sec])
    BY <1>5, <2>1, TransferTable DEF OrderInv, ClearedSoFar
  <2>3. ClearedUpTo(sec)
    BY <2>2 DEF ClearedUpTo
  <2>4. \A i \in 1..sec : Cleared(Transfer[i])
    BY <2>3 DEF ClearedUpTo
  <2>5. \A i \in 1..11 : Cleared(Transfer[i]) => Cleared(Transfer[i])'
    BY <1>5, ClearedStays
  <2>6. ClearedUpTo(sec - 1)'
    BY <1>5, <2>2, <2>4, <2>5 DEF ClearedUpTo
  <2>7. ASSUME sec' \in DOMAIN Transfer
        PROVE  ~(stage' > Len(CurrentActs'))
    <3>1. SectionOK(CurrentSection)'
      BY <1>0, <1>5, <2>1, <2>7, SectionsOK, TransferTable DEF TypeOK, CurrentSection, SectionOK
    <3>2. Len(CurrentActs') \in Nat
      BY <3>1, TablesAreSequences DEF CurrentActs, SectionOK
    <3>3. QED BY <1>5, <3>2
  <2>8. QED BY <1>5, <2>6, <2>7 DEF ClearedSoFar
<1>6. CASE Launch
  <2>1. sec' = 0 /\ UNCHANGED <<auth, pending>> /\ status' = "running"
    BY <1>6 DEF Launch
  <2>2. ClearedSoFar'
    BY <2>1, TransferTable DEF ClearedSoFar, ClearedUpTo
  <2>3. QED BY <1>3, <2>1, <2>2 DEF OrderInv
<1>7. CASE Exit
  BY <1>3, <1>4, <1>7 DEF Exit, OrderInv
<1>8. CASE Proceed
  <2>1. sec' = 1 /\ stage' = 0 /\ UNCHANGED <<auth, pending, task, status>> /\ status = "running"
    BY <1>8, <1>1 DEF Proceed, TypeOK
  <2>2. ClearedUpTo(sec - 1)'
    BY <2>1 DEF ClearedUpTo
  <2>3. ASSUME task' = "transfer"
        PROVE  ~(stage' > Len(CurrentActs'))
    <3>1. SectionOK(CurrentSection)'
      <4>1. task' \in Task /\ sec' \in DOMAIN Sections[task']
        BY <1>0, <2>1, <2>3, TransferTable DEF TypeOK
      <4>2. QED BY <4>1, SectionsOK DEF CurrentSection, SectionOK
    <3>2. Len(CurrentActs') \in Nat
      BY <3>1, TablesAreSequences DEF CurrentActs, SectionOK
    <3>3. QED BY <2>1, <3>2
  <2>4. ClearedSoFar'
    BY <2>2, <2>3 DEF ClearedSoFar
  <2>5. QED BY <1>3, <2>1, <2>4 DEF OrderInv
<1>9. CASE Read
  <2>1. /\ sec \in DOMAIN Sections[task] /\ status = "running" /\ stage = 0
        /\ UNCHANGED <<auth, pending, task, status>>
    BY <1>9 DEF Read, InSection
  <2>2. CASE Wanted(CurrentSection)
    <3>1. stage' = 1 /\ sec' = sec /\ CurrentActs' = CurrentActs
      BY <1>9, <2>1, <2>2 DEF Read, CurrentActs, CurrentSection
    <3>2. ~(stage' > Len(CurrentActs'))
      BY <3>1, <2>1, <1>2
    <3>3. task = "transfer" => ClearedUpTo(sec - 1)'
      BY <2>1, <3>1 DEF OrderInv, ClearedSoFar, ClearedUpTo, Cleared, auth
    <3>4. ClearedSoFar'
      BY <2>1, <3>1, <3>2, <3>3 DEF ClearedSoFar, ClearedUpTo
    <3>5. QED BY <1>3, <2>1, <3>4 DEF OrderInv
  <2>3. CASE ~Wanted(CurrentSection)
    <3>1. sec' = sec + 1 /\ stage' = 0
      BY <1>9, <2>3 DEF Read
    <3>2. task = "transfer" => Cleared(Transfer[sec])
      BY <2>1, <2>3, UnwantedIsCleared, TransferTable DEF CurrentSection
    <3>3. ClearedSoFar'
      BY <1>3, <1>5, <2>1, <3>1, <3>2
    <3>4. QED BY <1>3, <2>1, <3>3 DEF OrderInv
  <2>4. QED BY <2>2, <2>3
<1>10. CASE Throw
  BY <1>3, <1>4, <1>10 DEF Throw, OrderInv
<1>11. CASE Send
  <2>1. /\ sec \in DOMAIN Sections[task] /\ stage \in DOMAIN CurrentActs
        /\ CurrentTx.who # NoAccount /\ pending' = Append(pending, CurrentTx)
        /\ UNCHANGED <<auth, task, sec, stage>> /\ status' = "waiting"
    BY <1>11 DEF Send, AtTx, InSection
  <2>2. CurrentTx \in Tx /\ pending \in Seq(Tx) /\ InOrder(CurrentTx)
    BY <2>1, CurrentTxOK, CurrentTxInOrder DEF TypeOK, OrderInv
  <2>3. NothingReturns /\ AuthInOrder'
    BY <2>1, AuthUnchanged DEF OrderInv
  <2>4. ASSUME NEW k \in DOMAIN pending'
        PROVE  \/ k \in DOMAIN pending /\ pending'[k] = pending[k]
               \/ pending'[k] = CurrentTx
    BY <2>1, <2>2, <2>4
  <2>5. \A k \in DOMAIN pending' : InOrder(pending'[k])
    BY <2>2, <2>4 DEF OrderInv, SentInOrder
  <2>6. SentInOrder'
    BY <2>3, <2>5, ClearedStays DEF SentInOrder, InOrder
  <2>7. ClearedSoFar'
    BY <1>4, <2>1, <2>3
  <2>8. QED BY <2>1, <2>3, <2>6, <2>7 DEF OrderInv
<1>12. CASE NextSection
  <2>1. /\ sec \in DOMAIN Sections[task] /\ status = "running" /\ stage > Len(CurrentActs)
        /\ UNCHANGED <<auth, pending, task, status>> /\ sec' = sec + 1 /\ stage' = 0
    BY <1>12, <1>2 DEF NextSection, InSection
  <2>2. task = "transfer" => Cleared(Transfer[sec])
    BY <2>1, TransferTable DEF OrderInv, ClearedSoFar
  <2>3. QED BY <1>3, <1>5, <2>1, <2>2 DEF OrderInv
<1>13. CASE Finish
  BY <1>3, <1>4, <1>13 DEF Finish, OrderInv
<1>14. CASE MineOrphan
  BY <1>4, <1>14, MineInOrder DEF MineOrphan, OrderInv
<1>15. CASE MineAwaited
  <2>1. /\ pending \in Seq(Tx) /\ pending # <<>> /\ Len(pending) = 1
        /\ pending[Len(pending)] = CurrentTx
        /\ sec \in DOMAIN Sections[task] /\ stage \in DOMAIN CurrentActs
        /\ UNCHANGED <<task, sec>> /\ pending' = <<>> /\ Execute(Head(pending))
    BY <1>15 DEF MineAwaited, TypeOK, AwaitedIsLast
  <2>2. Head(pending) = CurrentTx /\ CurrentTx \in Tx /\ CurrentTx.who # NoAccount
    <3>1. Head(pending) = CurrentTx /\ CurrentTx \in Tx
      BY <2>1
    <3>2. CurrentTx.who \in Account
      BY <3>1 DEF Tx
    <3>3. QED BY <3>1, <3>2, AccountAssumption
  <2>3. Tail(pending) = <<>>
    <3>1. Tail(pending) \in Seq(Tx) /\ Len(Tail(pending)) = 0
      BY <2>1
    <3>2. QED BY <3>1, EmptySeq
  <2>4. /\ NothingReturns /\ AuthInOrder' /\ SentInOrder'
        /\ status' \in {"running", "failed"}
    BY <1>15, <2>1, <2>3, MineInOrder DEF MineAwaited
  <2>5. CASE ~Accepted(CurrentTx)
    BY <1>4, <1>15, <2>1, <2>2, <2>4, <2>5 DEF MineAwaited, OrderInv
  <2>6. CASE Accepted(CurrentTx)
    <3>1. stage' = stage + 1
      BY <1>15, <2>2, <2>6 DEF MineAwaited
    <3>2. CurrentActs' = CurrentActs
      BY <2>1 DEF CurrentActs, CurrentSection
    <3>3. ASSUME task = "transfer"
          PROVE  ClearedUpTo(sec - 1)'
      <4>1. sec \in 1..11 /\ ClearedUpTo(sec - 1)
        BY <2>1, <3>3, TransferTable DEF OrderInv, ClearedSoFar
      <4>2. QED BY <2>1, <2>4, <4>1, ClearedStays DEF ClearedUpTo
    <3>4. ASSUME task = "transfer", stage + 1 > Len(CurrentActs)
          PROVE  Cleared(Transfer[sec])'
      BY <2>1, <2>2, <2>6, <3>4, MinedIsCleared
    <3>5. ClearedSoFar'
      BY <2>1, <3>1, <3>2, <3>3, <3>4 DEF ClearedSoFar
    <3>6. QED BY <2>4, <3>5 DEF OrderInv
  <2>7. QED BY <2>5, <2>6
<1>16. CASE Crash
  BY <1>3, <1>4, <1>16 DEF Crash, OrderInv
<1>17. ASSUME NEW c \in Contract, Accept(c)
       PROVE  OrderInv' /\ NothingReturns
  <2>1. NothingReturns /\ AuthInOrder'
    BY <1>17, AcceptInOrder DEF OrderInv
  <2>2. UNCHANGED <<pending, status, task, sec, stage>>
    BY <1>17 DEF Accept
  <2>3. SentInOrder'
    BY <2>1, <2>2, ClearedStays DEF OrderInv, SentInOrder, InOrder
  <2>4. QED BY <1>4, <2>1, <2>2, <2>3 DEF OrderInv
<1>18. CASE UNCHANGED vars
  BY <1>3, <1>4, <1>18 DEF vars, auth, OrderInv
<1>19. QED
  BY <1>6, <1>7, <1>8, <1>9, <1>10, <1>11, <1>12, <1>13, <1>14, <1>15, <1>16, <1>17, <1>18
  DEF Next, Progress, Mine

(* The provider is offered, and the right to move roles given up, only     *)
(* after the sections before, for all accounts that are neither the        *)
(* deployer nor hold a role they take over, and any number of kills.       *)
THEOREM TransferInOrder == OthersTakeOver => (Spec => []OrderInv)
<1> SUFFICES ASSUME OthersTakeOver PROVE Spec => []OrderInv
  OBVIOUS
<1>1. Init => TypeInv /\ OrderInv
  BY InitTypeInv, InitOrderInv
<1>2. TypeInv /\ OrderInv /\ [Next]_vars => (TypeInv /\ OrderInv)'
  BY StepTypeInv, StepOrderInv
<1>3. QED BY <1>1, <1>2, PTL DEF Spec

(* No step gives a role or a contract back to who handed it over, nor      *)
(* withdraws an offer: no repeated run, orphan or acceptance undoes what a *)
(* transfer has achieved.                                                  *)
THEOREM HandedOverForGood == OthersTakeOver => (Spec => NothingComesBack)
<1> SUFFICES ASSUME OthersTakeOver PROVE Spec => NothingComesBack
  OBVIOUS
<1>1. Init => TypeInv /\ OrderInv
  BY InitTypeInv, InitOrderInv
<1>2. TypeInv /\ OrderInv /\ [Next]_vars => (TypeInv /\ OrderInv)' /\ [NothingReturns]_vars
  BY StepTypeInv, StepOrderInv
<1>3. QED BY <1>1, <1>2, PTL DEF Spec, NothingComesBack

\* A transfer with all sections cleared leaves the deployer without power.
LEMMA ClearedIsPowerless ==
  ASSUME OthersTakeOver, AuthInOrder, ClearedUpTo(11)
  PROVE  DeployerPowerless
<1>1. \A i \in 1..11 : Cleared(Transfer[i])
  BY DEF ClearedUpTo
<1>2. \A r \in Moved : Deployer \notin members[r]
  <2>1. Deployer \notin members["gaugeOperator"]
    BY <1>1 DEF Transfer, Section, Move, Cleared
  <2>2. Deployer \notin members["emergencyAdmin"]
    BY <1>1 DEF Transfer, Section, Move, Cleared
  <2>3. PoolAdmin \notin members["poolAdmin"]
    BY <1>1 DEF Transfer, Section, Move, Cleared
  <2>4. Deployer \notin members["defaultAdmin"]
    BY <1>1 DEF Transfer, Section, Move, Cleared
  <2>5. QED BY <2>1, <2>2, <2>3, <2>4, MovedRoles DEF AuthInOrder
<1>3. owner["aclAdmin"] # Deployer
  BY <1>1 DEF Transfer, Section, NameAclAdmin, Cleared
<1>4. ASSUME NEW c \in Contract, owner[c] = Deployer
      PROVE  offered[c] \notin {NoAccount, Deployer}
  <2>1. NewOwner[c] # Deployer /\ offered[c] \in {NoAccount, NewOwner[c]}
    BY DEF NewOwner, OthersTakeOver, AuthInOrder
  <2>2. offered[c] # NoAccount
    <3>1. CASE c = "registry"
      BY <1>1, <1>4, <3>1 DEF Transfer, Section, Offer, Cleared
    <3>2. CASE c = "provider"
      BY <1>1, <1>4, <3>2 DEF Transfer, Section, Offer, Cleared
    <3>3. CASE c = "gateway"
      BY <1>1, <1>4, <3>3 DEF Transfer, Section, Offer, Cleared
    <3>4. CASE c = "helper"
      BY <1>1, <1>4, <3>4 DEF Transfer, Section, Offer, Cleared
    <3>5. CASE c = "treasuryController"
      BY <1>1, <1>4, <3>5 DEF Transfer, Section, Offer, Cleared
    <3>6. QED BY <3>1, <3>2, <3>3, <3>4, <3>5 DEF Contract
  <2>3. QED BY <2>1, <2>2
<1>5. QED BY <1>2, <1>3, <1>4 DEF DeployerPowerless

(* A transfer that ends well leaves the deployer powerless, for all such   *)
(* accounts, whatever was killed, repeated or accepted before.             *)
THEOREM TransferComplete == OthersTakeOver => (Spec => []HandoverComplete)
<1> SUFFICES ASSUME OthersTakeOver PROVE Spec => []HandoverComplete
  OBVIOUS
<1>1. OrderInv => HandoverComplete
  <2>1. SUFFICES ASSUME OrderInv, status = "done", task = "transfer"
                 PROVE  DeployerPowerless
    BY DEF HandoverComplete
  <2>2. Len(Sections[task]) = 11
    BY <2>1, TransferTable
  <2>3. sec - 1 = 11
    BY <2>1, <2>2 DEF OrderInv
  <2>4. ClearedUpTo(11)
    BY <2>1, <2>3 DEF OrderInv, ClearedSoFar
  <2>5. QED BY <2>1, <2>4, ClearedIsPowerless DEF OrderInv
<1>2. QED BY <1>1, TransferInOrder, PTL

(* Nobody takes the addresses provider over before the six sections that   *)
(* come before its offer are through, for all such accounts.               *)
THEOREM ProviderIsLast == OthersTakeOver => (Spec => []ProviderAfterRoles)
<1> SUFFICES ASSUME OthersTakeOver PROVE Spec => []ProviderAfterRoles
  OBVIOUS
<1>1. OrderInv => ProviderAfterRoles
  <2>1. SUFFICES ASSUME OrderInv, owner["provider"] # Deployer
                 PROVE  /\ \A r \in Moved \ {"defaultAdmin"} : Deployer \notin members[r]
                        /\ owner["aclAdmin"] # Deployer
                        /\ owner["registry"] = Deployer => offered["registry"] = Multisig
    BY DEF ProviderAfterRoles
  <2>2. \A i \in 1..6 : Cleared(Transfer[i])
    BY <2>1 DEF OrderInv, AuthInOrder, ClearedUpTo
  <2>3. Deployer \notin members["gaugeOperator"]
    BY <2>2 DEF Transfer, Section, Move, Cleared
  <2>4. Deployer \notin members["emergencyAdmin"]
    BY <2>2 DEF Transfer, Section, Move, Cleared
  <2>5. PoolAdmin \notin members["poolAdmin"]
    BY <2>2 DEF Transfer, Section, Move, Cleared
  <2>6. \A r \in Moved \ {"defaultAdmin"} : Deployer \notin members[r]
    BY <2>1, <2>3, <2>4, <2>5, MovedRoles DEF OrderInv, AuthInOrder
  <2>7. owner["aclAdmin"] # Deployer
    BY <2>2 DEF Transfer, Section, NameAclAdmin, Cleared
  <2>8. owner["registry"] = Deployer => offered["registry"] # NoAccount
    BY <2>2 DEF Transfer, Section, Offer, Cleared
  <2>9. offered["registry"] \in {NoAccount, Multisig}
    BY <2>1 DEF OrderInv, AuthInOrder, Contract, NewOwner
  <2>10. QED BY <2>6, <2>7, <2>8, <2>9
<1>2. QED BY <1>1, TransferInOrder, PTL

-----------------------------------------------------------------------------
(* Why a task fails.                                                       *)
\* After a failure the section that failed stays without anything to do.
SettledFailure ==
  status = "failed" =>
    /\ sec \in DOMAIN Sections[task]
    /\ CurrentTx.who = NoAccount \/ (pending = <<>> /\ ~Wanted(CurrentSection))

\* The contracts refuse only what there is no need for.
LEMMA RefusedIsUnwanted ==
  ASSUME TypeOK, OrderInv, sec \in DOMAIN Sections[task], stage \in DOMAIN CurrentActs,
         ~Accepted(CurrentTx)
  PROVE  ~Wanted(CurrentSection)
<1>1. CASE task = "renounce"
  <2>1. CurrentSection = Section("renounce", "poolAdmin", Deployer, PoolMultisig)
    BY <1>1, TransferTable DEF CurrentSection, Renounce
  <2>2. CurrentTx.act = "renounce" /\ CurrentTx.who = Deployer
    BY <2>1, ActsOfKinds DEF CurrentTx, CurrentActs, Section, Removing
  <2>3. QED BY <2>2 DEF Accepted
<1>2. CASE task = "transfer"
  <2>1. /\ sec \in 1..11 /\ CurrentSection = Transfer[sec] /\ TransferSectionOK(sec)
    BY <1>2, TransferTable, TransferSectionsOK DEF CurrentSection
  <2>2. CurrentTx.act = CurrentActs[stage] /\ CurrentTx.obj = CurrentSection.obj
    BY DEF CurrentTx
  <2>3. CASE CurrentSection.kind = "offer"
    <3>1. CurrentTx.act = "offer"
      BY <2>1, <2>2, <2>3, ActsOfKinds DEF CurrentActs
    <3>2. QED BY <2>1, <2>2, <2>3, <3>1 DEF Accepted, Wanted, TransferSectionOK
  <2>4. CASE CurrentSection.kind = "name"
    <3>1. CurrentTx.act = "name"
      BY <2>1, <2>2, <2>4, ActsOfKinds DEF CurrentActs
    <3>2. ClearedUpTo(6)
      BY <3>1 DEF Accepted, OrderInv, AuthInOrder
    <3>3. Cleared(Transfer[sec])
      BY <2>1, <2>4, <3>2 DEF ClearedUpTo, TransferSectionOK
    <3>4. QED BY <2>1, <2>4, <3>3 DEF Cleared, Wanted, TransferSectionOK
  <2>5. CASE CurrentSection.kind \in {"grant", "move"}
    <3>1. CurrentTx.act \in {"grant", "revoke"}
      BY <2>1, <2>2, <2>5, ActsOfKinds DEF CurrentActs
    <3>2. Deployer \notin members["defaultAdmin"]
      BY <3>1 DEF Accepted
    <3>3. CASE sec = 11
      BY <2>1, <3>2, <3>3 DEF TransferSectionOK, Wanted
    <3>4. CASE sec # 11
      <4>1. Cleared(Transfer[sec])
        BY <2>1, <3>2, <3>4 DEF OrderInv, AuthInOrder, ClearedUpTo
      <4>2. QED BY <2>1, <2>5, <4>1 DEF Cleared, Wanted
    <3>5. QED BY <3>3, <3>4
  <2>6. QED BY <2>1, <2>3, <2>4, <2>5 DEF TransferSectionOK
<1>3. QED BY <1>1, <1>2, TransferTable DEF TypeOK

\* An acceptance gives a section nothing to do.
LEMMA UnwantedStays ==
  ASSUME TypeOK, sec \in DOMAIN Sections[task], ~Wanted(CurrentSection),
         NothingReturns, UNCHANGED <<members, task, sec>>
  PROVE  ~Wanted(CurrentSection)'
<1>1. SectionOK(CurrentSection) /\ CurrentSection' = CurrentSection
  BY SectionsOK DEF TypeOK, CurrentSection
<1>2. CurrentSection.kind \in {"offer", "name"} =>
        CurrentSection.from = Deployer /\ CurrentSection.obj \in Owned
  <2>1. CASE task = "renounce"
    BY <2>1, TransferTable DEF CurrentSection, Renounce, Section
  <2>2. CASE task = "transfer"
    BY <2>2, TransferTable, TransferSectionsOK
    DEF CurrentSection, TransferSectionOK, Owned
  <2>3. QED BY <2>1, <2>2, TransferTable DEF TypeOK
<1>3. QED BY <1>1, <1>2 DEF SectionOK, Wanted, NothingReturns

\* Every step keeps SettledFailure.
LEMMA StepSettledFailure ==
  ASSUME OthersTakeOver, TypeInv, OrderInv, SettledFailure, [Next]_vars
  PROVE  SettledFailure'
<1> USE DEF TypeInv
<1>1. CASE status' # "failed"
  BY <1>1 DEF SettledFailure
<1>2. CASE Throw
  <2>1. sec \in DOMAIN Sections[task] /\ CurrentTx.who = NoAccount /\ UNCHANGED <<task, sec, stage>>
    BY <1>2 DEF Throw, AtTx, InSection
  <2>2. CurrentTx' = CurrentTx
    BY <2>1 DEF CurrentTx, CurrentActs, CurrentSection
  <2>3. QED BY <2>1, <2>2 DEF SettledFailure
<1>3. CASE MineOrphan
  <2>1. pending # <<>> /\ UNCHANGED <<status, task, sec, stage>>
    BY <1>3 DEF MineOrphan
  <2>2. CurrentTx' = CurrentTx
    BY <2>1 DEF CurrentTx, CurrentActs, CurrentSection
  <2>3. QED BY <2>1, <2>2 DEF SettledFailure
<1>4. CASE MineAwaited /\ status' = "failed"
  <2>1. /\ pending \in Seq(Tx) /\ Len(pending) = 1 /\ pending[Len(pending)] = CurrentTx
        /\ sec \in DOMAIN Sections[task] /\ stage \in DOMAIN CurrentActs
        /\ UNCHANGED <<task, sec>> /\ pending' = <<>> /\ ~Accepted(Head(pending))
        /\ Execute(Head(pending))
    BY <1>4 DEF MineAwaited, TypeOK, AwaitedIsLast
  <2>2. Head(pending) = CurrentTx
    BY <2>1
  <2>3. ~Wanted(CurrentSection) /\ UNCHANGED auth
    BY <2>1, <2>2, RefusedIsUnwanted DEF Execute
  <2>4. ~Wanted(CurrentSection)'
    BY <2>1, <2>3, AuthUnchanged, UnwantedStays DEF auth
  <2>5. QED BY <2>1, <2>4 DEF SettledFailure
<1>5. ASSUME NEW c \in Contract, Accept(c)
      PROVE  SettledFailure'
  <2>1. NothingReturns /\ UNCHANGED <<members, pending, status, task, sec, stage>>
    BY <1>5, AcceptInOrder DEF OrderInv, Accept
  <2>2. CurrentTx' = CurrentTx
    BY <2>1 DEF CurrentTx, CurrentActs, CurrentSection
  <2>3. QED BY <2>1, <2>2, UnwantedStays DEF SettledFailure
<1>6. CASE UNCHANGED vars
  BY <1>6 DEF vars, SettledFailure, CurrentTx, CurrentActs, CurrentSection, Wanted
<1>7. CASE Launch \/ Exit \/ Proceed \/ Read \/ Send \/ NextSection \/ Finish \/ Crash
  <2>1. status' # "failed"
    BY <1>7 DEF Launch, Exit, Proceed, Read, Send, NextSection, Finish, Crash, InSection
  <2>2. QED BY <1>1, <2>1
<1>8. QED BY <1>1, <1>2, <1>3, <1>4, <1>5, <1>6, <1>7 DEF Next, Progress, Mine

(* A task fails only for an undefined address or at something that has     *)
(* been done already, for all such accounts.                               *)
THEOREM FailureExplained == OthersTakeOver => (Spec => []FailureMeansHandedOver)
<1> SUFFICES ASSUME OthersTakeOver PROVE Spec => []FailureMeansHandedOver
  OBVIOUS
<1> DEFINE Inv == TypeInv /\ OrderInv /\ SettledFailure
<1>1. Init => Inv
  BY InitTypeInv, InitOrderInv DEF Init, SettledFailure
<1>2. Inv /\ [Next]_vars => Inv'
  BY StepTypeInv, StepOrderInv, StepSettledFailure
<1>3. Inv => FailureMeansHandedOver
  BY DEF SettledFailure, FailureMeansHandedOver
<1>4. QED BY <1>1, <1>2, <1>3, PTL DEF Spec

-----------------------------------------------------------------------------
(* The hand-over implements Succession.                                    *)
\* An item is of one kind.
LEMMA ItemKinds ==
  /\ Role = Moved \cup {"flashBorrower"} /\ Owned = Contract \cup {"aclAdmin"}
  /\ Moved \cap Contract = {} /\ "flashBorrower" \notin Moved \cup Owned
  /\ "aclAdmin" \notin Moved \cup Contract
BY MovedRoles DEF Role, Owned, Contract

\* The items are what the sections of the transfer are about.
LEMMA ItemsInOrder ==
  /\ DOMAIN HandedOverOrder = 1..11
  /\ \A i \in 1..11 : HandedOverOrder[i] = Transfer[i].obj
  /\ \A x \in Role \cup Owned : \E i \in 1..11 : x = HandedOverOrder[i]
  /\ \A i \in 1..11 : HandedOverOrder[i] \in Role \cup Owned
<1>1. DOMAIN HandedOverOrder = 1..11
  BY DEF HandedOverOrder
<1>2. ASSUME NEW i \in 1..11
      PROVE  HandedOverOrder[i] = Transfer[i].obj
  <2>1. CASE i \in 1..3
    BY <2>1 DEF HandedOverOrder, Transfer, Section, Move
  <2>2. CASE i \in {4, 5, 11}
    BY <2>2 DEF HandedOverOrder, Transfer, Section, Move, NameAclAdmin
  <2>3. CASE i \in 6..10
    BY <2>3 DEF HandedOverOrder, Transfer, Section, Offer
  <2>4. QED BY <2>1, <2>2, <2>3
<1>3. ASSUME NEW x \in Role \cup Owned
      PROVE  \E i \in 1..11 : x = HandedOverOrder[i]
  <2>1. CASE x \in Role
    <3>1. x \in {HandedOverOrder[i] : i \in {1, 2, 3, 4, 11}}
      BY <2>1, MovedRoles DEF Role, HandedOverOrder
    <3>2. QED BY <3>1
  <2>2. CASE x \in Owned
    <3>1. x \in {HandedOverOrder[i] : i \in {5, 6, 7, 8, 9, 10}}
      BY <2>2 DEF Owned, Contract, HandedOverOrder
    <3>2. QED BY <3>1
  <2>3. QED BY <2>1, <2>2
<1>4. ASSUME NEW i \in 1..11
      PROVE  HandedOverOrder[i] \in Role \cup Owned
  <2>1. CASE i \in {1, 2, 3, 4, 11}
    BY <2>1, MovedRoles DEF Role, HandedOverOrder
  <2>2. CASE i \in 5..10
    BY <2>2 DEF Owned, Contract, HandedOverOrder
  <2>3. QED BY <2>1, <2>2
<1>5. QED BY <1>1, <1>2, <1>3, <1>4

\* What is cleared is through.
LEMMA ClearedIsThrough ==
  ASSUME NEW i \in 1..11, Cleared(Transfer[i])
  PROVE  InTurn!Through(HandedOverOrder[i])
<1>1. TransferSectionOK(i) /\ HandedOverOrder[i] = Transfer[i].obj
      /\ HandedOverOrder[i] \in Role \cup Owned
  BY TransferSectionsOK, ItemsInOrder
<1>2. Phase[HandedOverOrder[i]] = PhaseOf(Transfer[i].obj)
  BY <1>1 DEF Phase
<1>3. CASE Transfer[i].kind = "grant"
  <2>1. /\ Transfer[i].obj = "flashBorrower"
        /\ FlashBorrower \in members["flashBorrower"] \cup {ZeroAddress}
    BY <1>1, <1>3 DEF TransferSectionOK, Cleared
  <2>2. PhaseOf("flashBorrower") = "moved"
    BY <2>1, ItemKinds DEF PhaseOf
  <2>3. QED BY <1>2, <2>1, <2>2 DEF InTurn!Through
<1>4. CASE Transfer[i].kind = "move"
  <2>1. Transfer[i].obj \in Moved /\ Transfer[i].obj # "flashBorrower"
        /\ Transfer[i].from = Giver[Transfer[i].obj]
    BY <1>1, <1>4, MovedRoles DEF TransferSectionOK, Giver
  <2>2. Giver[Transfer[i].obj] \notin members[Transfer[i].obj]
    BY <1>4, <2>1 DEF Cleared
  <2>3. PhaseOf(Transfer[i].obj) = "moved"
    BY <2>1, <2>2, ItemKinds DEF PhaseOf
  <2>4. QED BY <1>2, <2>3 DEF InTurn!Through
<1>5. CASE Transfer[i].kind = "name"
  <2>1. Transfer[i].obj = "aclAdmin" /\ owner["aclAdmin"] # Deployer
    BY <1>1, <1>5 DEF TransferSectionOK, Cleared
  <2>2. PhaseOf("aclAdmin") = "moved"
    BY <2>1, ItemKinds DEF PhaseOf
  <2>3. QED BY <1>2, <2>1, <2>2 DEF InTurn!Through
<1>6. CASE Transfer[i].kind = "offer"
  <2>1. /\ Transfer[i].obj \in Contract
        /\ owner[Transfer[i].obj] = Deployer => offered[Transfer[i].obj] # NoAccount
    BY <1>1, <1>6 DEF TransferSectionOK, Cleared
  <2>2. PhaseOf(Transfer[i].obj) \in {"moved", "shared"}
    BY <2>1, ItemKinds DEF PhaseOf
  <2>3. QED BY <1>1, <1>2, <2>1, <2>2 DEF InTurn!Through
<1>7. QED BY <1>1, <1>3, <1>4, <1>5, <1>6 DEF TransferSectionOK

\* A change of one item, in its turn or onward from shared, is a step.
LEMMA OneItem ==
  ASSUME NEW i \in 1..11, NEW x, x = HandedOverOrder[i],
         \A y \in (Role \cup Owned) \ {x} : PhaseOf(y)' = PhaseOf(y),
         \/ PhaseOf(x)' = PhaseOf(x)
         \/ /\ ClearedUpTo(i - 1) /\ PhaseOf(x) = "kept"
            /\ PhaseOf(x)' = IF x \in {"flashBorrower", "aclAdmin"} THEN "moved" ELSE "shared"
         \/ PhaseOf(x) = "shared" /\ PhaseOf(x)' = "moved"
  PROVE  [InTurn!Next]_Phase
<1>1. x \in Role \cup Owned /\ i \in DOMAIN HandedOverOrder /\ Phase[x] = PhaseOf(x)
  BY ItemsInOrder DEF Phase
<1>2. Phase' = [Phase EXCEPT ![x] = PhaseOf(x)']
  BY <1>1 DEF Phase
<1>3. CASE PhaseOf(x)' = PhaseOf(x)
  <2>1. Phase' = Phase
    BY <1>1, <1>2, <1>3 DEF Phase
  <2>2. QED BY <2>1
<1>4. CASE /\ ClearedUpTo(i - 1) /\ PhaseOf(x) = "kept"
           /\ PhaseOf(x)' = IF x \in {"flashBorrower", "aclAdmin"} THEN "moved" ELSE "shared"
  <2>1. \A j \in 1 .. i - 1 : InTurn!Through(HandedOverOrder[j])
    BY <1>4, ClearedIsThrough DEF ClearedUpTo
  <2>2. InTurn!Begin(i)
    BY <1>1, <1>2, <1>4, <2>1 DEF InTurn!Begin, InTurn!Turn
  <2>3. QED BY <1>1, <2>2 DEF InTurn!Next
<1>5. CASE PhaseOf(x) = "shared" /\ PhaseOf(x)' = "moved"
  <2>1. InTurn!Complete(i)
    BY <1>1, <1>2, <1>5 DEF InTurn!Complete
  <2>2. QED BY <1>1, <2>1 DEF InTurn!Next
<1>6. QED BY <1>3, <1>4, <1>5

\* Who has a role or contract is all its phase depends on.
LEMMA PhaseStays ==
  ASSUME TypeOK, NEW y \in Role \cup Owned,
         y \in Role => members'[y] = members[y],
         y \in Owned => owner'[y] = owner[y],
         y \in Contract => offered'[y] = offered[y]
  PROVE  PhaseOf(y)' = PhaseOf(y)
<1>1. CASE y = "flashBorrower"
  BY <1>1, ItemKinds DEF PhaseOf
<1>2. CASE y \in Moved
  BY <1>2, ItemKinds DEF PhaseOf
<1>3. CASE y \in Contract
  BY <1>3, ItemKinds DEF PhaseOf
<1>4. CASE y = "aclAdmin"
  BY <1>4, ItemKinds DEF PhaseOf
<1>5. QED BY <1>1, <1>2, <1>3, <1>4, ItemKinds

\* A mined transaction hands over one item, in its turn, or none.
LEMMA ExecuteInTurn ==
  ASSUME OthersTakeOver, TypeOK, AuthInOrder, NEW t \in Tx, InOrder(t), Execute(t),
         t.act \in Removing => Successor[t.obj] \in members[t.obj]
  PROVE  [InTurn!Next]_Phase
<1>1. /\ AsTabled(t) /\ t.obj \in Role \cup Owned
      /\ t.act # "renounce" => \E i \in 1..11 : ClearedUpTo(i - 1) /\ t.obj = HandedOverOrder[i]
  BY InOrderIsTabled, ItemsInOrder DEF Tx
<1>2. /\ members \in [Role -> SUBSET Account] /\ owner \in [Owned -> Account]
      /\ offered \in [Contract -> Account \cup {NoAccount}]
  BY DEF TypeOK
<1>3. CASE ~Accepted(t)
  <2>1. UNCHANGED <<members, owner, offered>>
    BY <1>3 DEF Execute, auth
  <2>2. \A y \in Role \cup Owned : PhaseOf(y)' = PhaseOf(y)
    BY <2>1, PhaseStays
  <2>3. QED BY <2>2 DEF Phase
<1>4. CASE Accepted(t) /\ t.act = "grant"
  <2>1. /\ members' = [members EXCEPT ![t.obj] = @ \cup {t.who}]
        /\ UNCHANGED <<owner, offered>> /\ t.obj \in Role
    BY <1>1, <1>4, ItemKinds DEF Execute, AsTabled
  <2>2. \A y \in (Role \cup Owned) \ {t.obj} : PhaseOf(y)' = PhaseOf(y)
    BY <1>2, <2>1, PhaseStays
  <2>3. members'[t.obj] = members[t.obj] \cup {t.who}
    BY <1>2, <2>1
  <2>4. PICK i \in 1..11 : ClearedUpTo(i - 1) /\ t.obj = HandedOverOrder[i]
    BY <1>1, <1>4
  <2>5. CASE t.obj = "flashBorrower"
    <3>1. t.who = FlashBorrower
      BY <1>1, <1>4, <2>5, ItemKinds DEF AsTabled
    <3>2. PhaseOf(t.obj)' = "moved" /\ PhaseOf(t.obj) \in {"kept", "moved"}
      BY <2>3, <2>5, <3>1, ItemKinds DEF PhaseOf
    <3>3. QED BY <2>2, <2>4, <2>5, <3>2, OneItem
  <2>6. CASE t.obj \in Moved
    <3>1. t.who = Successor[t.obj] /\ t.who # Giver[t.obj]
      BY <1>1, <1>4, <2>6, ItemKinds
      DEF AsTabled, Giver, OthersTakeOver, SuccessorsDiffer
    <3>2. CASE Giver[t.obj] \notin members[t.obj] \/ Successor[t.obj] \in members[t.obj]
      <4>1. PhaseOf(t.obj)' = PhaseOf(t.obj)
        BY <2>3, <2>6, <3>1, <3>2, ItemKinds DEF PhaseOf
      <4>2. QED BY <2>2, <2>4, <4>1, OneItem
    <3>3. CASE Giver[t.obj] \in members[t.obj] /\ Successor[t.obj] \notin members[t.obj]
      <4>1. PhaseOf(t.obj) = "kept" /\ PhaseOf(t.obj)' = "shared"
        BY <2>3, <2>6, <3>1, <3>3, ItemKinds DEF PhaseOf
      <4>2. t.obj \notin {"flashBorrower", "aclAdmin"}
        BY <2>6, ItemKinds
      <4>3. QED BY <2>2, <2>4, <4>1, <4>2, OneItem
    <3>4. QED BY <3>2, <3>3
  <2>7. QED BY <2>1, <2>5, <2>6, ItemKinds
<1>5. CASE Accepted(t) /\ t.act \in Removing
  <2>1. /\ members' = [members EXCEPT ![t.obj] = @ \ {t.who}]
        /\ UNCHANGED <<owner, offered>>
        /\ t.obj \in Moved /\ t.obj \in Role
        /\ t.who = Giver[t.obj] \/ (t.obj = "poolAdmin" /\ t.who = Deployer)
    <3>1. t.act \in {"revoke", "renounce"}
      BY <1>5 DEF Removing
    <3>2. /\ members' = [members EXCEPT ![t.obj] = @ \ {t.who}]
          /\ UNCHANGED <<owner, offered>>
      BY <1>5, <3>1 DEF Execute
    <3>3. t.obj \in Moved /\ (t.who = Giver[t.obj] \/ (t.obj = "poolAdmin" /\ t.who = Deployer))
      BY <1>1, <1>5 DEF AsTabled
    <3>4. QED BY <3>2, <3>3, ItemKinds
  <2>2. \A y \in (Role \cup Owned) \ {t.obj} : PhaseOf(y)' = PhaseOf(y)
    BY <1>2, <2>1, PhaseStays
  <2>3. members'[t.obj] = members[t.obj] \ {t.who}
    BY <1>2, <2>1
  <2>4. PICK i \in 1..11 : t.obj = HandedOverOrder[i]
    BY <1>1, ItemsInOrder
  <2>5. CASE t.who = Giver[t.obj]
    <3>1. PhaseOf(t.obj)' = "moved" /\ PhaseOf(t.obj) \in {"shared", "moved"}
      BY <1>5, <2>1, <2>3, <2>5, ItemKinds DEF PhaseOf
    <3>2. QED BY <2>2, <2>4, <3>1, OneItem
  <2>6. CASE t.who # Giver[t.obj]
    <3>1. t.obj = "poolAdmin" /\ t.who = Deployer /\ Deployer # PoolAdmin
      BY <2>1, <2>6 DEF Giver
    <3>2. Deployer \notin members["poolAdmin"]
      BY <3>1 DEF AuthInOrder
    <3>3. members'[t.obj] = members[t.obj]
      BY <2>3, <3>1, <3>2
    <3>4. PhaseOf(t.obj)' = PhaseOf(t.obj)
      BY <1>1, <2>1, <3>3, PhaseStays
    <3>5. QED BY <2>2, <2>4, <3>4, OneItem
  <2>7. QED BY <2>5, <2>6
<1>6. CASE Accepted(t) /\ t.act = "name"
  <2>1. /\ owner' = [owner EXCEPT !["aclAdmin"] = t.who]
        /\ UNCHANGED <<members, offered>>
        /\ t.obj = "aclAdmin" /\ t.who = AclMultisig /\ t.obj \in Owned
    BY <1>1, <1>6, ItemKinds DEF Execute, AsTabled, Removing
  <2>2. \A y \in (Role \cup Owned) \ {t.obj} : PhaseOf(y)' = PhaseOf(y)
    BY <1>2, <2>1, PhaseStays
  <2>3. owner'["aclAdmin"] # Deployer
    BY <1>2, <2>1, MovedRoles DEF OthersTakeOver, SuccessorsDiffer, Successor
  <2>4. PhaseOf(t.obj)' = "moved" /\ PhaseOf(t.obj) \in {"kept", "moved"}
    BY <2>1, <2>3, ItemKinds DEF PhaseOf
  <2>5. PICK i \in 1..11 : ClearedUpTo(i - 1) /\ t.obj = HandedOverOrder[i]
    BY <1>1, <1>6
  <2>6. QED BY <2>1, <2>2, <2>4, <2>5, OneItem
<1>7. CASE Accepted(t) /\ t.act = "offer"
  <2>1. /\ offered' = [offered EXCEPT ![t.obj] = t.who]
        /\ UNCHANGED <<members, owner>>
        /\ t.obj \in Contract /\ owner[t.obj] = Deployer
    BY <1>1, <1>7 DEF Execute, Accepted, AsTabled, Removing
  <2>2. \A y \in (Role \cup Owned) \ {t.obj} : PhaseOf(y)' = PhaseOf(y)
    BY <1>2, <2>1, PhaseStays
  <2>3. offered'[t.obj] # NoAccount /\ owner'[t.obj] = Deployer
    BY <1>2, <2>1, AccountAssumption DEF Tx
  <2>4. PhaseOf(t.obj)' = "shared" /\ PhaseOf(t.obj) \in {"kept", "shared"}
    BY <2>1, <2>3, ItemKinds DEF PhaseOf
  <2>5. PICK i \in 1..11 : ClearedUpTo(i - 1) /\ t.obj = HandedOverOrder[i]
    BY <1>1, <1>7
  <2>6. t.obj \notin {"flashBorrower", "aclAdmin"}
    BY <2>1, ItemKinds
  <2>7. QED BY <2>2, <2>4, <2>5, <2>6, OneItem
<1>8. QED BY <1>1, <1>3, <1>4, <1>5, <1>6, <1>7 DEF AsTabled, Removing

\* So does an acceptance.
LEMMA AcceptInTurn ==
  ASSUME OthersTakeOver, TypeOK, AuthInOrder, NEW c \in Contract, Accept(c)
  PROVE  [InTurn!Next]_Phase
<1>1. /\ owner' = [owner EXCEPT ![c] = offered[c]] /\ members' = members
      /\ offered' = [offered EXCEPT ![c] = NoAccount] /\ offered[c] # NoAccount
      /\ c \in Owned
  BY ItemKinds DEF Accept
<1>2. owner'[c] # Deployer
  BY <1>1 DEF TypeOK, AuthInOrder, NewOwner, OthersTakeOver
<1>3. \A y \in (Role \cup Owned) \ {c} : PhaseOf(y)' = PhaseOf(y)
  BY <1>1, PhaseStays DEF TypeOK
<1>4. PhaseOf(c)' = "moved" /\ PhaseOf(c) \in {"shared", "moved"}
  BY <1>1, <1>2, ItemKinds DEF PhaseOf
<1>5. PICK i \in 1..11 : c = HandedOverOrder[i]
  BY <1>1, ItemsInOrder
<1>6. QED BY <1>3, <1>4, <1>5, OneItem

\* Every step is one of Succession, or none.
LEMMA StepInTurn ==
  ASSUME OthersTakeOver, HandoverInv, OrderInv, [Next]_vars
  PROVE  [InTurn!Next]_Phase
<1>1. TypeOK /\ AuthInOrder
  BY DEF HandoverInv, OrderInv
<1>2. ASSUME pending # <<>>, Execute(Head(pending))
      PROVE  [InTurn!Next]_Phase
  <2>1. Head(pending) \in Tx /\ Head(pending) = pending[1] /\ 1 \in DOMAIN pending
    BY <1>1, <1>2 DEF TypeOK
  <2>2. /\ InOrder(Head(pending))
        /\ Head(pending).act \in Removing =>
             Successor[Head(pending).obj] \in members[Head(pending).obj]
    BY <2>1 DEF OrderInv, SentInOrder, HandoverInv, RemovalsCovered
  <2>3. QED BY <1>1, <1>2, <2>1, <2>2, ExecuteInTurn
<1>3. CASE MineOrphan
  BY <1>2, <1>3 DEF MineOrphan
<1>4. CASE MineAwaited
  <2>1. pending # <<>> /\ Execute(Head(pending))
    BY <1>4 DEF MineAwaited, HandoverInv, AwaitedIsLast
  <2>2. QED BY <1>2, <2>1
<1>5. CASE \E c \in Contract : Accept(c)
  BY <1>1, <1>5, AcceptInTurn
<1>6. CASE UNCHANGED auth
  <2>1. \A y \in Role \cup Owned : PhaseOf(y)' = PhaseOf(y)
    BY <1>1, <1>6, PhaseStays DEF auth
  <2>2. QED BY <2>1 DEF Phase
<1>7. ASSUME Launch \/ Progress \/ Crash \/ UNCHANGED vars
      PROVE  UNCHANGED auth
  BY <1>7 DEF Launch, Progress, Exit, Proceed, Read, Throw, Send, NextSection, Finish, Crash,
     vars, auth
<1>8. QED BY <1>3, <1>4, <1>5, <1>6, <1>7 DEF Next, Mine

(* Refinement: for all such accounts the scripts, transaction by           *)
(* transaction, with kills, re-runs and acceptances at any time, hand over *)
(* one item after the other in one order.                                  *)
THEOREM ImplementsSuccession == OthersTakeOver => (Spec => OneByOneInTurn)
<1> SUFFICES ASSUME OthersTakeOver PROVE Spec => OneByOneInTurn
  OBVIOUS
<1>1. Init => InTurn!Init
  <2>1. SUFFICES ASSUME Init, NEW y \in Role \cup Owned
                 PROVE  PhaseOf(y) \in {"kept", "moved"}
    <3>1. InTurn!Item = Role \cup Owned
      BY ItemsInOrder DEF InTurn!Item
    <3>2. QED BY <3>1 DEF InTurn!Init, Phase
  <2>2. CASE y = "flashBorrower"
    BY <2>2, ItemKinds DEF PhaseOf
  <2>3. CASE y \in Moved
    <3>1. Successor[y] \in members[y] => Giver[y] \notin members[y]
      BY <2>1, <2>3, MovedRoles
      DEF Init, Giver, OthersTakeOver, SuccessorsDiffer
    <3>2. QED BY <2>3, <3>1, ItemKinds DEF PhaseOf
  <2>4. CASE y \in Contract
    BY <2>1, <2>4, ItemKinds DEF Init, PhaseOf
  <2>5. CASE y = "aclAdmin"
    BY <2>5, ItemKinds DEF PhaseOf
  <2>6. QED BY <2>2, <2>3, <2>4, <2>5, ItemKinds
<1>2. OthersTakeOver => SuccessorsDiffer
  BY DEF OthersTakeOver
<1>3. Spec => [](HandoverInv /\ OrderInv)
  BY <1>2, SuccessorsInPlace, TransferInOrder, PTL
<1>4. HandoverInv /\ OrderInv /\ [Next]_vars => [InTurn!Next]_Phase
  BY StepInTurn
<1>5. QED BY <1>1, <1>3, <1>4, PTL DEF Spec, OneByOneInTurn, InTurn!Spec

=============================================================================
