------------------------ MODULE DeployEngine_proofs ------------------------
(***************************************************************************)
(* What DeployEngine promises of every table of scripts, every set of      *)
(* markets and any number of crashes.                                      *)
(***************************************************************************)
EXTENDS DeployEngine, TLAPS

-----------------------------------------------------------------------------
(* The script the current run is in, and its steps, are in the tables.     *)
LEMMA CurrentInTables ==
  ASSUME TypeOK, pos \in DOMAIN Order[market]
  PROVE  /\ CurrentScript \in Script
         /\ CurrentSteps \in Seq(Step)
         /\ Steps[market][CurrentScript] = CurrentSteps
         /\ Len(Order[market]) \in Nat /\ Len(CurrentSteps) \in Nat
         /\ DOMAIN Order[market] = 1 .. Len(Order[market])
         /\ DOMAIN CurrentSteps = 1 .. Len(CurrentSteps)
         /\ pc \in 0 .. Len(CurrentSteps) + 1
<1>1. Order[market] \in Seq(Script) BY TablesAssumption DEF TypeOK
<1>2. CurrentScript \in Script BY <1>1 DEF CurrentScript
<1>3. CurrentSteps \in Seq(Step)
  BY <1>2, TablesAssumption DEF TypeOK, CurrentSteps
<1> QED BY <1>1, <1>2, <1>3 DEF TypeOK, CurrentSteps

(* The step a run is at is one of the table's.                             *)
LEMMA StepInTables ==
  ASSUME TypeOK, NEW kinds, AtStep(kinds)
  PROVE  /\ pos \in DOMAIN Order[market]
         /\ pc \in DOMAIN CurrentSteps
         /\ pc \in 1 .. Len(CurrentSteps)
         /\ CurrentStep \in Step
         /\ CurrentStep = Steps[market][CurrentScript][pc]
         /\ CurrentStep.kind \in kinds
<1>1. Order[market] \in Seq(Script) BY TablesAssumption DEF TypeOK
<1>2. pos \in DOMAIN Order[market] BY <1>1 DEF AtStep, AtScript
<1> QED BY <1>2, CurrentInTables DEF AtStep, CurrentStep, CurrentSteps

(* A transaction leaves the chain well typed.                              *)
LEMMA MinedType ==
  ASSUME chain \in [Effect -> Nat], NEW t \in Step
  PROVE  Mined(t) \in [Effect -> Nat]
BY DEF Mined, Step

(* Within a script, pc stays in its range.                                 *)
LEMMA InsideScript ==
  ASSUME TypeOK, pos \in DOMAIN Order[market], UNCHANGED <<market, pos>>,
         pc' \in 0 .. Len(CurrentSteps) + 1
  PROVE  pc' \in 0 .. (IF pos' \in DOMAIN Order[market']
                       THEN Len(CurrentSteps') + 1 ELSE 0)
BY DEF CurrentSteps, CurrentScript

(* Between scripts, pc is 0, which is in range everywhere.                 *)
LEMMA BetweenScripts ==
  ASSUME market' \in Market, pos' \in Nat, pc' = 0
  PROVE  pc' \in 0 .. (IF pos' \in DOMAIN Order[market']
                       THEN Len(CurrentSteps') + 1 ELSE 0)
<1>1. CASE pos' \in DOMAIN Order[market']
  <2>1. Order[market'] \in Seq(Script) BY TablesAssumption
  <2>2. CurrentScript' \in Script BY <1>1, <2>1 DEF CurrentScript
  <2>3. CurrentSteps' \in Seq(Step) BY <2>2, TablesAssumption DEF CurrentSteps
  <2> QED BY <1>1, <2>3
<1>2. CASE pos' \notin DOMAIN Order[market'] BY <1>2
<1> QED BY <1>1, <1>2

-----------------------------------------------------------------------------
(* Each conjunct of EngineInv holds at the start, and every step keeps it. *)
LEMMA TypeInit == Init => TypeOK
<1> SUFFICES ASSUME Init PROVE TypeOK OBVIOUS
<1>1. Order[market] \in Seq(Script) BY TablesAssumption DEF Init
<1>2. 1 \in 1 .. Len(Order[market]) + 1 BY <1>1
<1>3. pc \in 0 .. (IF pos \in DOMAIN Order[market] THEN Len(CurrentSteps) + 1 ELSE 0)
  <2>1. CASE pos \in DOMAIN Order[market]
    <3>1. CurrentScript \in Script BY <1>1, <2>1 DEF CurrentScript
    <3>2. CurrentSteps \in Seq(Step) BY <3>1, TablesAssumption DEF CurrentSteps, Init
    <3> QED BY <2>1, <3>2 DEF Init
  <2>2. CASE pos \notin DOMAIN Order[market] BY <2>2 DEF Init
  <2> QED BY <2>1, <2>2
<1> QED BY <1>2, <1>3, TablesAssumption DEF Init, TypeOK

LEMMA TypeStep ==
  ASSUME TypeOK, AwaitedIsLast, [Next]_vars
  PROVE  TypeOK'
<1> USE DEF disk
<1>0. /\ Order[market] \in Seq(Script)
      /\ Len(Order[market]) \in Nat
      /\ DOMAIN Order[market] = 1 .. Len(Order[market])
  BY TablesAssumption DEF TypeOK
<1>1. CASE Launch
  <2>1. Order[market'] \in Seq(Script) BY <1>1, TablesAssumption DEF Launch
  <2>2. pos' \in 1 .. Len(Order[market']) + 1 BY <1>1, <2>1 DEF Launch
  <2>3. pc' \in 0 .. (IF pos' \in DOMAIN Order[market'] THEN Len(CurrentSteps') + 1 ELSE 0)
    BY <1>1, BetweenScripts DEF Launch
  <2> QED BY <1>1, <2>2, <2>3 DEF Launch, TypeOK
<1>2. CASE SkipRecorded
  <2>1. pos' \in 1 .. Len(Order[market']) + 1
    BY <1>0, <1>2 DEF SkipRecorded, AtScript
  <2>2. pc' \in 0 .. (IF pos' \in DOMAIN Order[market'] THEN Len(CurrentSteps') + 1 ELSE 0)
    BY <1>2, <2>1, BetweenScripts DEF SkipRecorded, TypeOK
  <2> QED BY <1>2, <2>1, <2>2 DEF SkipRecorded, TypeOK
<1>3. CASE BeginScript
  <2>1. pos \in DOMAIN Order[market] BY <1>0, <1>3 DEF BeginScript, AtScript
  <2>2. pc' \in 0 .. (IF pos' \in DOMAIN Order[market'] THEN Len(CurrentSteps') + 1 ELSE 0)
    BY <1>3, <2>1, CurrentInTables, InsideScript DEF BeginScript
  <2> QED BY <1>3, <2>2 DEF BeginScript, TypeOK
<1>4. CASE FinishScript
  <2>1. pos' \in 1 .. Len(Order[market']) + 1
    BY <1>0, <1>4 DEF FinishScript, AtScript
  <2>2. pc' \in 0 .. (IF pos' \in DOMAIN Order[market'] THEN Len(CurrentSteps') + 1 ELSE 0)
    BY <1>4, <2>1, BetweenScripts DEF FinishScript, TypeOK
  <2>3. migrations' \subseteq UNION {{MigrationId[m][s] : s \in Records[m]} : m \in Market}
    BY <1>4 DEF FinishScript, TypeOK
  <2> QED BY <1>4, <2>1, <2>2, <2>3 DEF FinishScript, TypeOK
<1>5. CASE FinishRun
  BY <1>5 DEF FinishRun, TypeOK, CurrentSteps, CurrentScript
<1>6. CASE Throw
  BY <1>6 DEF Throw, TypeOK, CurrentSteps, CurrentScript
<1>7. CASE Check
  <2>1. pc' \in 0 .. (IF pos' \in DOMAIN Order[market'] THEN Len(CurrentSteps') + 1 ELSE 0)
    BY <1>7, StepInTables, CurrentInTables, InsideScript DEF Check
  <2> QED BY <1>7, <2>1 DEF Check, TypeOK
<1>8. CASE Deploy
  <2>1. pc' \in 0 .. (IF pos' \in DOMAIN Order[market'] THEN Len(CurrentSteps') + 1 ELSE 0)
    BY <1>8, StepInTables, CurrentInTables, InsideScript DEF Deploy
  <2>2. artifacts' \subseteq Effect
    BY <1>8, StepInTables DEF Deploy, TypeOK, Step
  <2> QED BY <1>8, <2>1, <2>2 DEF Deploy, TypeOK
<1>9. CASE ReadChain
  <2>1. /\ pos \in DOMAIN Order[market]
        /\ CurrentStep = Steps[market][CurrentScript][pc]
        /\ CurrentStep.kind = "unless"
        /\ CurrentStep \in Step
        /\ pc \in 1 .. Len(CurrentSteps)
        /\ pc \in DOMAIN Steps[market][CurrentScript]
    BY <1>9, StepInTables DEF ReadChain, CurrentSteps
  <2>2. pc + CurrentStep.skip <= Len(CurrentSteps)
    BY <2>1, CurrentInTables, GuardsAssumption DEF CurrentSteps, TypeOK
  <2>3. pc' \in 0 .. Len(CurrentSteps) + 1
    <3>1. CurrentStep.skip \in Nat BY <2>1 DEF Step
    <3>2. pc' \in {pc + 1, pc + 1 + CurrentStep.skip} BY <1>9 DEF ReadChain
    <3>3. Len(CurrentSteps) \in Nat BY <2>1, CurrentInTables
    <3> QED BY <2>1, <2>2, <3>1, <3>2, <3>3
  <2>4. pc' \in 0 .. (IF pos' \in DOMAIN Order[market'] THEN Len(CurrentSteps') + 1 ELSE 0)
    BY <1>9, <2>1, <2>3, InsideScript DEF ReadChain
  <2> QED BY <1>9, <2>4 DEF ReadChain, TypeOK
<1>10. CASE SendTx
  <2>1. pending' \in Seq(Step) BY <1>10, StepInTables DEF SendTx, TypeOK
  <2> QED BY <1>10, <2>1 DEF SendTx, TypeOK, CurrentSteps, CurrentScript
<1>11. CASE MineOrphan
  <2>1. Head(pending) \in Step /\ Tail(pending) \in Seq(Step)
    BY <1>11 DEF MineOrphan, TypeOK
  <2>2. chain' \in [Effect -> Nat] BY <1>11, <2>1, MinedType DEF MineOrphan, TypeOK
  <2> QED BY <1>11, <2>1, <2>2 DEF MineOrphan, TypeOK, CurrentSteps, CurrentScript
<1>12. CASE MineAwaited
  <2>0. pending \in Seq(Step) /\ pending # <<>>
    BY <1>12 DEF MineAwaited, TypeOK, AwaitedIsLast
  <2>1. Head(pending) \in Step BY <2>0
  <2>2. chain' \in [Effect -> Nat] BY <1>12, <2>1, MinedType DEF MineAwaited, TypeOK
  <2>3. pos \in DOMAIN Order[market] /\ pc \in DOMAIN CurrentSteps
    BY <1>12 DEF MineAwaited, AwaitedIsLast
  <2>4. status' \in {"running", "failed"} /\ pc' \in {pc, pc + 1} BY <1>12 DEF MineAwaited
  <2>5. pc' \in 0 .. Len(CurrentSteps) + 1 BY <2>3, <2>4, CurrentInTables
  <2>6. pc' \in 0 .. (IF pos' \in DOMAIN Order[market'] THEN Len(CurrentSteps') + 1 ELSE 0)
    BY <1>12, <2>3, <2>5, InsideScript DEF MineAwaited
  <2>7. pending' \in Seq(Step) BY <1>12 DEF MineAwaited
  <2> QED BY <1>12, <2>2, <2>4, <2>6, <2>7 DEF MineAwaited, TypeOK
<1>13. CASE Crash
  BY <1>13, TablesAssumption DEF Crash, TypeOK, CurrentSteps, CurrentScript
<1>14. CASE UNCHANGED vars
  BY <1>14 DEF vars, TypeOK, CurrentSteps, CurrentScript
<1> QED BY <1>1, <1>2, <1>3, <1>4, <1>5, <1>6, <1>7, <1>8, <1>9, <1>10, <1>11, <1>12, <1>13,
           <1>14 DEF Next, Progress, Mine

LEMMA AwaitedStep ==
  ASSUME TypeOK, AwaitedIsLast, [Next]_vars
  PROVE  AwaitedIsLast'
<1> USE DEF disk
<1>1. CASE SendTx
  <2>1. /\ pos \in DOMAIN Order[market]
        /\ pc \in DOMAIN CurrentSteps
        /\ CurrentStep \in Step
        /\ CurrentStep.kind \in TxKinds
    BY <1>1, StepInTables DEF SendTx
  <2>2. pending \in Seq(Step) /\ pending' = Append(pending, CurrentStep)
    BY <1>1 DEF SendTx, TypeOK
  <2>3. pending' # <<>> /\ pending'[Len(pending')] = CurrentStep BY <2>1, <2>2
  <2>4. UNCHANGED <<market, pos, pc>> BY <1>1 DEF SendTx
  <2> QED BY <2>1, <2>3, <2>4 DEF AwaitedIsLast, CurrentStep, CurrentSteps, CurrentScript
<1>2. CASE MineOrphan
  <2> SUFFICES ASSUME status' = "waiting" PROVE AwaitedIsLast' BY DEF AwaitedIsLast
  <2>1. /\ status = "waiting" /\ Len(pending) > 1
        /\ pending \in Seq(Step) /\ pending' = Tail(pending)
        /\ UNCHANGED <<market, pos, pc>>
    BY <1>2 DEF MineOrphan, TypeOK
  <2>2. pending' # <<>> /\ pending'[Len(pending')] = pending[Len(pending)] BY <2>1
  <2> QED BY <2>1, <2>2 DEF AwaitedIsLast, CurrentStep, CurrentSteps, CurrentScript
<1>3. CASE UNCHANGED vars
  BY <1>3 DEF vars, AwaitedIsLast, CurrentStep, CurrentSteps, CurrentScript
<1>4. CASE status' # "waiting" BY <1>4 DEF AwaitedIsLast
<1>5. CASE Launch \/ SkipRecorded \/ BeginScript \/ FinishScript \/ FinishRun \/ Throw
           \/ Check \/ Deploy \/ ReadChain \/ MineAwaited \/ Crash
  <2> status' # "waiting"
    BY <1>5 DEF Launch, SkipRecorded, BeginScript, FinishScript, FinishRun, Throw, Check,
      Deploy, ReadChain, MineAwaited, Crash, AtStep, AtScript
  <2> QED BY <1>4
<1> QED BY <1>1, <1>2, <1>3, <1>5 DEF Next, Progress, Mine

LEMMA OnlyTemporaryTakenStep ==
  ASSUME TypeOK, OnlyTemporaryTaken, [Next]_vars
  PROVE  OnlyTemporaryTaken'
<1> USE DEF disk
<1>0. pending \in Seq(Step) BY DEF TypeOK
<1>1. CASE SendTx
  <2>1. /\ pos \in DOMAIN Order[market]
        /\ pc \in DOMAIN CurrentSteps
        /\ CurrentStep \in Step
        /\ CurrentStep = Steps[market][CurrentScript][pc]
    BY <1>1, StepInTables DEF SendTx
  <2>2. CurrentScript \in Script /\ market \in Market /\ pc \in DOMAIN Steps[market][CurrentScript]
    BY <2>1, CurrentInTables DEF TypeOK
  <2>3. CurrentStep.kind = "unset" => CurrentStep.eff \in Temporary
    <3> SUFFICES ASSUME CurrentStep.kind = "unset" PROVE CurrentStep.eff \in Temporary OBVIOUS
    <3>1. CurrentStep.eff \in EffectsOf(market, CurrentScript, {"unset"})
      BY <2>1, <2>2 DEF EffectsOf
    <3> QED BY <2>2, <3>1 DEF Temporary
  <2>4. pending' = Append(pending, CurrentStep) BY <1>1 DEF SendTx
  <2> SUFFICES ASSUME NEW i \in DOMAIN pending', pending'[i].kind = "unset"
               PROVE  pending'[i].eff \in Temporary
    BY DEF OnlyTemporaryTaken
  <2>5. CASE i = Len(pending) + 1 BY <1>0, <2>1, <2>3, <2>4, <2>5
  <2>6. CASE i # Len(pending) + 1
    <3>1. i \in DOMAIN pending /\ pending'[i] = pending[i] BY <1>0, <2>1, <2>4, <2>6
    <3> QED BY <3>1 DEF OnlyTemporaryTaken
  <2> QED BY <2>5, <2>6
<1>2. CASE MineOrphan \/ MineAwaited
  <2>1. pending' = Tail(pending) \/ pending' = <<>> BY <1>2 DEF MineOrphan, MineAwaited
  <2>2. CASE pending' = <<>> BY <2>2 DEF OnlyTemporaryTaken
  <2>3. CASE pending' = Tail(pending) /\ pending # <<>>
    <3> SUFFICES ASSUME NEW i \in DOMAIN pending', pending'[i].kind = "unset"
                 PROVE  pending'[i].eff \in Temporary
      BY DEF OnlyTemporaryTaken
    <3>1. i + 1 \in DOMAIN pending /\ pending'[i] = pending[i + 1] BY <1>0, <2>3
    <3> QED BY <3>1 DEF OnlyTemporaryTaken
  <2>4. pending # <<>> \/ pending' = <<>>  BY <1>2 DEF MineOrphan, MineAwaited
  <2> QED BY <2>1, <2>2, <2>3, <2>4
<1>3. CASE UNCHANGED pending BY <1>3 DEF OnlyTemporaryTaken
<1>4. CASE Launch \/ SkipRecorded \/ BeginScript \/ FinishScript \/ FinishRun \/ Throw
           \/ Check \/ Deploy \/ ReadChain \/ Crash \/ UNCHANGED vars
  <2> UNCHANGED pending
    BY <1>4 DEF Launch, SkipRecorded, BeginScript, FinishScript, FinishRun, Throw, Check,
      Deploy, ReadChain, Crash, vars
  <2> QED BY <1>3
<1> QED BY <1>1, <1>2, <1>4 DEF Next, Progress, Mine

-----------------------------------------------------------------------------
(* A transaction takes nothing away but what is temporary, and an accepted *)
(* one establishes its effect.                                             *)
LEMMA MinedKeeps ==
  ASSUME chain \in [Effect -> Nat], NEW t \in Step, t.kind = "unset" => t.eff \in Temporary,
         NEW f \in Effect \ Temporary, chain[f] > 0
  PROVE  Mined(t)[f] > 0
BY DEF Mined, Step

LEMMA MinedGives ==
  ASSUME chain \in [Effect -> Nat], NEW t \in Step, Accepted(t), t.kind # "unset"
  PROVE  Mined(t)[t.eff] > 0
BY DEF Mined, Step

(* Facts of the chain last, unless they are temporary.                     *)
LEMMA ChainKeeps ==
  ASSUME TypeOK, OnlyTemporaryTaken, [Next]_vars, NEW f \in Effect \ Temporary, chain[f] > 0
  PROVE  chain'[f] > 0
<1> USE DEF disk
<1>1. CASE UNCHANGED chain BY <1>1
<1>2. CASE MineOrphan \/ MineAwaited
  <2>1. /\ pending \in Seq(Step) /\ pending # <<>>
        /\ chain' = Mined(Head(pending))
        /\ chain \in [Effect -> Nat]
    BY <1>2 DEF MineOrphan, MineAwaited, TypeOK
  <2>2. Head(pending) \in Step /\ Head(pending) = pending[1] /\ 1 \in DOMAIN pending
    BY <2>1
  <2>3. Head(pending).kind = "unset" => Head(pending).eff \in Temporary
    BY <2>2 DEF OnlyTemporaryTaken
  <2> QED BY <2>1, <2>2, <2>3, MinedKeeps
<1>3. CASE Launch \/ SkipRecorded \/ BeginScript \/ FinishScript \/ FinishRun \/ Throw
           \/ Check \/ Deploy \/ ReadChain \/ SendTx \/ Crash \/ UNCHANGED vars
  <2> UNCHANGED chain
    BY <1>3 DEF Launch, SkipRecorded, BeginScript, FinishScript, FinishRun, Throw, Check,
      Deploy, ReadChain, SendTx, Crash, vars
  <2> QED BY <1>1
<1> QED BY <1>2, <1>3 DEF Next, Progress, Mine

(* So do artifacts.                                                        *)
LEMMA ArtifactsKeep == ASSUME [Next]_vars PROVE artifacts \subseteq artifacts'
BY DEF Next, Progress, Mine, Launch, SkipRecorded, BeginScript, FinishScript, FinishRun, Throw,
  Check, Deploy, ReadChain, SendTx, MineOrphan, MineAwaited, Crash, disk, vars

LEMMA HeldKeeps ==
  ASSUME TypeOK, OnlyTemporaryTaken, [Next]_vars
  PROVE  Held \ Temporary \subseteq Held'
BY ChainKeeps, ArtifactsKeep DEF Held, TypeOK

LEMMA RecordKeeps == ASSUME [Next]_vars PROVE migrations \subseteq migrations'
BY DEF Next, Progress, Mine, Launch, SkipRecorded, BeginScript, FinishScript, FinishRun, Throw,
  Check, Deploy, ReadChain, SendTx, MineOrphan, MineAwaited, Crash, disk, vars

-----------------------------------------------------------------------------
(* Behind a step lies its effect.  Each case is about the steps a run got  *)
(* beyond by this action; it was beyond the others before.                 *)
LEMMA DoneSoFarStep ==
  ASSUME TypeOK, AwaitedIsLast, OnlyTemporaryTaken, DoneSoFar, [Next]_vars
  PROVE  DoneSoFar'
<1> USE DEF disk
<1>0. TypeOK' BY TypeStep
<1>1. CASE pc' \in {0, 1}
  <2>1. ASSUME pos' \in DOMAIN Order[market'] PROVE DOMAIN CurrentSteps' \subseteq Nat \ {0}
    <3>1. Order[market'] \in Seq(Script) BY <1>0, TablesAssumption DEF TypeOK
    <3>2. CurrentScript' \in Script BY <2>1, <3>1 DEF CurrentScript
    <3>3. CurrentSteps' \in Seq(Step) BY <1>0, <3>2, TablesAssumption DEF CurrentSteps, TypeOK
    <3> QED BY <3>3
  <2> QED BY <1>1, <2>1 DEF DoneSoFar
<1>2. ASSUME UNCHANGED <<market, pos>>,
             \A k \in DOMAIN CurrentSteps :
               k < pc' /\ ~(k < pc) /\ CurrentSteps[k].kind \in Establishing =>
                 CurrentSteps[k].eff \in Held' \cup Temporary
      PROVE  DoneSoFar'
  <2>1. CurrentSteps' = CurrentSteps BY <1>2 DEF CurrentSteps, CurrentScript
  <2> QED BY <1>2, <2>1, HeldKeeps DEF DoneSoFar
<1>3. CASE FinishRun \/ Throw \/ SendTx \/ MineOrphan \/ Crash \/ UNCHANGED vars
  <2> UNCHANGED <<market, pos, pc>>
    BY <1>3 DEF FinishRun, Throw, SendTx, MineOrphan, Crash, vars
  <2> QED BY <1>2
<1>4. CASE Launch \/ SkipRecorded \/ BeginScript \/ FinishScript
  <2> pc' \in {0, 1} BY <1>4 DEF Launch, SkipRecorded, BeginScript, FinishScript
  <2> QED BY <1>1
<1>5. CASE Check
  <2>1. /\ pos \in DOMAIN Order[market] /\ pc \in DOMAIN CurrentSteps
        /\ pc \in 1 .. Len(CurrentSteps)
        /\ CurrentSteps[pc].kind = "require"
    BY <1>5, StepInTables DEF Check, CurrentStep
  <2>2. pc' = pc + 1 /\ UNCHANGED <<market, pos>> BY <1>5 DEF Check
  <2>3. \A k \in DOMAIN CurrentSteps : k < pc' /\ ~(k < pc) => k = pc
    BY <2>1, <2>2, CurrentInTables
  <2> QED BY <1>2, <2>1, <2>2, <2>3 DEF Establishing
<1>6. CASE Deploy
  <2>1. /\ pos \in DOMAIN Order[market] /\ pc \in DOMAIN CurrentSteps
        /\ pc \in 1 .. Len(CurrentSteps)
        /\ CurrentStep = CurrentSteps[pc]
    BY <1>6, StepInTables DEF Deploy, CurrentStep
  <2>2. pc' = pc + 1 /\ UNCHANGED <<market, pos>> /\ CurrentStep.eff \in Held'
    BY <1>6 DEF Deploy, Held
  <2>3. \A k \in DOMAIN CurrentSteps : k < pc' /\ ~(k < pc) => k = pc
    BY <2>1, <2>2, CurrentInTables
  <2> QED BY <1>2, <2>1, <2>2, <2>3
<1>7. CASE ReadChain
  <2>1. /\ pos \in DOMAIN Order[market] /\ pc \in DOMAIN CurrentSteps
        /\ pc \in 1 .. Len(CurrentSteps)
        /\ CurrentStep = CurrentSteps[pc]
        /\ CurrentStep.kind = "unless"
        /\ CurrentStep \in Step
        /\ CurrentSteps = Steps[market][CurrentScript]
        /\ CurrentScript \in Script /\ market \in Market
    <3>1. /\ pos \in DOMAIN Order[market] /\ pc \in DOMAIN CurrentSteps
          /\ pc \in 1 .. Len(CurrentSteps)
          /\ CurrentStep \in Step /\ CurrentStep.kind = "unless"
      BY <1>7, StepInTables DEF ReadChain
    <3> QED BY <3>1, CurrentInTables DEF CurrentStep, TypeOK
  <2>2. UNCHANGED <<market, pos, artifacts, chain>> BY <1>7 DEF ReadChain
  <2>3. CASE chain[CurrentStep.eff] > 0
    <3>1. pc' = pc + 1 + CurrentStep.skip BY <1>7, <2>3 DEF ReadChain
    <3>2. CurrentStep.eff \in Held' BY <2>1, <2>2, <2>3 DEF Held, Step
    <3>3. \A k \in pc + 1 .. pc + CurrentStep.skip :
            CurrentSteps[k].eff \in Temporary \cup {CurrentStep.eff}
      BY <2>1, GuardsAssumption
    <3>4. \A k \in DOMAIN CurrentSteps : k < pc' /\ ~(k < pc) =>
            k = pc \/ k \in pc + 1 .. pc + CurrentStep.skip
      <4>1. CurrentStep.skip \in Nat BY <2>1 DEF Step
      <4>2. Len(CurrentSteps) \in Nat /\ DOMAIN CurrentSteps = 1 .. Len(CurrentSteps)
        BY <2>1, CurrentInTables
      <4> QED BY <2>1, <3>1, <4>1, <4>2
    <3> QED BY <1>2, <2>1, <2>2, <3>2, <3>3, <3>4 DEF Establishing
  <2>4. CASE ~(chain[CurrentStep.eff] > 0)
    <3>1. pc' = pc + 1 BY <1>7, <2>4 DEF ReadChain
    <3>2. \A k \in DOMAIN CurrentSteps : k < pc' /\ ~(k < pc) => k = pc
      BY <2>1, <3>1, CurrentInTables
    <3> QED BY <1>2, <2>1, <2>2, <3>2 DEF Establishing
  <2> QED BY <2>3, <2>4
<1>8. CASE MineAwaited
  <2>1. /\ pos \in DOMAIN Order[market] /\ pc \in DOMAIN CurrentSteps
        /\ CurrentStep = CurrentSteps[pc]
        /\ pending \in Seq(Step) /\ Len(pending) = 1
        /\ Head(pending) = CurrentStep
    BY <1>8 DEF MineAwaited, AwaitedIsLast, TypeOK, CurrentStep
  <2>2. CurrentStep \in Step BY <2>1
  <2>3. UNCHANGED <<market, pos>> BY <1>8 DEF MineAwaited
  <2>4. CASE Accepted(CurrentStep)
    <3>1. pc' = pc + 1 /\ chain' = Mined(CurrentStep) BY <1>8, <2>1, <2>4 DEF MineAwaited
    <3>2. \A k \in DOMAIN CurrentSteps : k < pc' /\ ~(k < pc) => k = pc
      BY <2>1, <3>1, CurrentInTables
    <3>3. CurrentStep.kind # "unset" => CurrentStep.eff \in Held'
      BY <2>2, <2>4, <3>1, MinedGives DEF Held, TypeOK, Step
    <3> QED BY <1>2, <2>1, <2>3, <3>2, <3>3 DEF Establishing
  <2>5. CASE ~Accepted(CurrentStep)
    <3>1. pc' = pc BY <1>8, <2>1, <2>5 DEF MineAwaited
    <3> QED BY <1>2, <2>3, <3>1
  <2> QED BY <2>4, <2>5
<1> QED BY <1>3, <1>4, <1>5, <1>6, <1>7, <1>8 DEF Next, Progress, Mine

(* At the end of a script, all it provides is held.                        *)
LEMMA ScriptDone ==
  ASSUME TypeOK, DoneSoFar, FinishScript
  PROVE  Provides(market, CurrentScript) \subseteq Held
<1>1. pos \in DOMAIN Order[market] /\ pc = Len(CurrentSteps) + 1
  <2>1. Order[market] \in Seq(Script) BY TablesAssumption DEF TypeOK
  <2> QED BY <2>1 DEF FinishScript, AtScript
<1>2. \A k \in DOMAIN CurrentSteps :
        CurrentSteps[k].kind \in Establishing => CurrentSteps[k].eff \in Held \cup Temporary
  BY <1>1, CurrentInTables DEF DoneSoFar
<1> QED BY <1>1, <1>2, CurrentInTables DEF Provides, EffectsOf

(* Behind a script lies its record, or its effects.                        *)
LEMMA PassedStep ==
  ASSUME TypeOK, OnlyTemporaryTaken, DoneSoFar, PassedAccounted, [Next]_vars
  PROVE  PassedAccounted'
<1> USE DEF disk
<1>0. /\ Order[market] \in Seq(Script) /\ DOMAIN Order[market] = 1 .. Len(Order[market])
      /\ pos \in Nat
  BY TablesAssumption DEF TypeOK
<1>1. CASE Launch
  <2>1. Order[market'] \in Seq(Script) /\ pos' = 1 BY <1>1, TablesAssumption DEF Launch
  <2> QED BY <2>1 DEF PassedAccounted
<1>2. ASSUME UNCHANGED market,
             \A i \in DOMAIN Order[market] : i < pos' /\ ~(i < pos) =>
               IF Order[market][i] \in Records[market]
               THEN Recorded(market, Order[market][i])'
               ELSE Provides(market, Order[market][i]) \subseteq Held'
      PROVE  PassedAccounted'
  <2> SUFFICES ASSUME NEW i \in DOMAIN Order[market], i < pos'
               PROVE  IF Order[market][i] \in Records[market]
                      THEN Recorded(market, Order[market][i])'
                      ELSE Provides(market, Order[market][i]) \subseteq Held'
    BY <1>2 DEF PassedAccounted
  <2>1. CASE i < pos
    <3>1. Recorded(market, Order[market][i]) => Recorded(market, Order[market][i])'
      BY <1>2, RecordKeeps DEF Recorded
    <3>2. Provides(market, Order[market][i]) \cap Temporary = {} BY DEF Provides
    <3> QED BY <2>1, <3>1, <3>2, HeldKeeps DEF PassedAccounted
  <2>2. CASE ~(i < pos) BY <1>2, <2>2
  <2> QED BY <2>1, <2>2
<1>3. CASE SkipRecorded
  <2>1. /\ pos' = pos + 1 /\ UNCHANGED <<market, migrations>>
        /\ Recorded(market, CurrentScript)
    BY <1>3 DEF SkipRecorded
  <2>2. \A i \in DOMAIN Order[market] : i < pos' /\ ~(i < pos) => i = pos BY <1>0, <2>1
  <2> QED BY <1>2, <2>1, <2>2 DEF Recorded, CurrentScript
<1>4. CASE FinishScript
  <2>1. /\ pos' = pos + 1 /\ UNCHANGED <<market, artifacts, chain>>
        /\ CurrentScript \in Records[market] =>
             migrations' = migrations \cup {MigrationId[market][CurrentScript]}
    BY <1>4 DEF FinishScript
  <2>2. \A i \in DOMAIN Order[market] : i < pos' /\ ~(i < pos) => i = pos BY <1>0, <2>1
  <2>3. CurrentScript \in Records[market] => MigrationId[market][CurrentScript] \in migrations'
    BY <2>1
  <2>4. Provides(market, CurrentScript) \subseteq Held'
    BY <1>4, <2>1, ScriptDone DEF Held
  <2> QED BY <1>2, <2>1, <2>2, <2>3, <2>4 DEF Recorded, CurrentScript
<1>5. CASE BeginScript \/ FinishRun \/ Throw \/ Check \/ Deploy \/ ReadChain \/ SendTx
           \/ MineOrphan \/ MineAwaited \/ Crash \/ UNCHANGED vars
  <2> UNCHANGED <<market, pos>>
    BY <1>5 DEF BeginScript, FinishRun, Throw, Check, Deploy, ReadChain, SendTx, MineOrphan,
      MineAwaited, Crash, vars
  <2> QED BY <1>2
<1> QED BY <1>1, <1>3, <1>4, <1>5 DEF Next, Progress, Mine

LEMMA DoneIsTheEndStep ==
  ASSUME TypeOK, DoneIsTheEnd, [Next]_vars
  PROVE  DoneIsTheEnd'
BY DEF DoneIsTheEnd, Next, Progress, Mine, Launch, SkipRecorded, BeginScript, FinishScript,
  FinishRun, Throw, Check, Deploy, ReadChain, SendTx, MineOrphan, MineAwaited, Crash, vars,
  AtStep, AtScript

-----------------------------------------------------------------------------
(* Where a process is tells what the chain, the artifacts and the record   *)
(* hold, whatever the scripts are and however often runs are killed.       *)
THEOREM EngineInvariant == Spec => []EngineInv
<1>1. Init => EngineInv
  <2> SUFFICES ASSUME Init PROVE EngineInv OBVIOUS
  <2>1. TypeOK BY TypeInit
  <2>2. AwaitedIsLast /\ OnlyTemporaryTaken /\ DoneIsTheEnd
    BY DEF Init, AwaitedIsLast, OnlyTemporaryTaken, DoneIsTheEnd
  <2>3. DoneSoFar BY <2>1, CurrentInTables DEF Init, DoneSoFar
  <2>4. PassedAccounted
    <3>1. Order[market] \in Seq(Script) BY <2>1, TablesAssumption DEF TypeOK
    <3> QED BY <3>1 DEF Init, PassedAccounted
  <2> QED BY <2>1, <2>2, <2>3, <2>4 DEF EngineInv
<1>2. EngineInv /\ [Next]_vars => EngineInv'
  <2> SUFFICES ASSUME EngineInv, [Next]_vars PROVE EngineInv' OBVIOUS
  <2> QED BY TypeStep, AwaitedStep, OnlyTemporaryTakenStep, DoneSoFarStep, PassedStep,
             DoneIsTheEndStep DEF EngineInv
<1> QED BY <1>1, <1>2, PTL DEF Spec

(* The variables hold what their comments say, in every reachable state.   *)
THEOREM TypeCorrect == Spec => []TypeOK
<1>1. EngineInv => TypeOK BY DEF EngineInv
<1> QED BY <1>1, EngineInvariant, PTL

-----------------------------------------------------------------------------
(* What is on record is done, if an id stands for one and the same work:   *)
(* by DoneSoFar a script that gets recorded is done, and what it leaves    *)
(* behind is never taken away.                                             *)
THEOREM RecordIsTrue == IdsSeparateWork => (Spec => []RecordedMeansDone)
<1> SUFFICES ASSUME IdsSeparateWork PROVE Spec => []RecordedMeansDone OBVIOUS
<1>1. Init => RecordedMeansDone BY DEF Init, RecordedMeansDone, Recorded
<1>2. EngineInv /\ RecordedMeansDone /\ [Next]_vars => RecordedMeansDone'
  <2> SUFFICES ASSUME EngineInv, RecordedMeansDone, [Next]_vars,
                      NEW m \in Market, NEW s \in Script, Recorded(m, s)'
               PROVE  Provides(m, s) \subseteq Held'
    BY DEF RecordedMeansDone
  <2> USE DEF disk
  <2>1. Provides(m, s) \cap Temporary = {} BY DEF Provides
  <2>2. CASE Recorded(m, s) BY <2>1, <2>2, HeldKeeps DEF RecordedMeansDone, EngineInv
  <2>3. CASE ~Recorded(m, s)
    <3>1. s \in Records[m] /\ MigrationId[m][s] \in migrations' \ migrations
      BY <2>3 DEF Recorded
    <3>2. FinishScript
      BY <3>1 DEF Next, Progress, Mine, Launch, SkipRecorded, BeginScript, FinishRun, Throw,
        Check, Deploy, ReadChain, SendTx, MineOrphan, MineAwaited, Crash, vars
    <3>3. /\ CurrentScript \in Records[market]
          /\ MigrationId[m][s] = MigrationId[market][CurrentScript]
      BY <3>1, <3>2 DEF FinishScript
    <3>4. Steps[m][s] = Steps[market][CurrentScript]
      BY <3>1, <3>3 DEF IdsSeparateWork, EngineInv, TypeOK
    <3>5. Provides(m, s) = Provides(market, CurrentScript) BY <3>4 DEF Provides, EffectsOf
    <3>6. Provides(market, CurrentScript) \subseteq Held BY <3>2, ScriptDone DEF EngineInv
    <3> QED BY <2>1, <3>5, <3>6, HeldKeeps DEF EngineInv
  <2> QED BY <2>2, <2>3
<1> QED BY <1>1, <1>2, EngineInvariant, PTL DEF Spec

(* A run that ends well has a complete market behind it.                   *)
THEOREM FinishedIsComplete == IdsSeparateWork => (Spec => []FinishedMeansComplete)
<1> SUFFICES ASSUME IdsSeparateWork PROVE Spec => []FinishedMeansComplete OBVIOUS
<1>1. EngineInv /\ RecordedMeansDone => FinishedMeansComplete
  <2> SUFFICES ASSUME EngineInv, RecordedMeansDone, status = "done",
                      NEW i \in DOMAIN Order[market]
               PROVE  Provides(market, Order[market][i]) \subseteq Held
    BY DEF FinishedMeansComplete, Complete
  <2>1. Order[market] \in Seq(Script) /\ market \in Market
    BY TablesAssumption DEF EngineInv, TypeOK
  <2>2. i < pos /\ Order[market][i] \in Script BY <2>1 DEF EngineInv, DoneIsTheEnd
  <2> QED BY <2>1, <2>2 DEF EngineInv, PassedAccounted, RecordedMeansDone
<1> QED BY <1>1, EngineInvariant, RecordIsTrue, PTL

(* A market that a killed run left stuck stays so for good.                *)
THEOREM StuckForGood == IdsSeparateWork => (Spec => StuckIsPermanent)
<1> SUFFICES ASSUME IdsSeparateWork PROVE Spec => StuckIsPermanent OBVIOUS
<1>1. EngineInv /\ [Next]_vars =>
        [\A m \in Market : Stuck(m) => Stuck(m)' /\ ~(status' = "done" /\ market' = m)]_vars
  <2> SUFFICES ASSUME EngineInv, [Next]_vars, NEW m \in Market, Stuck(m)
               PROVE  Stuck(m)' /\ ~(status' = "done" /\ market' = m)
    OBVIOUS
  <2> USE DEF disk
  <2>1. PICK i \in DOMAIN Order[m] :
          /\ Order[m][i] \in Records[m]
          /\ \E k \in DOMAIN Steps[m][Order[m][i]] : StuckAt(m, Order[m][i], k)
    BY DEF Stuck
  <2> DEFINE s == Order[m][i]
  <2>2. PICK k \in DOMAIN Steps[m][s] : StuckAt(m, s, k) BY <2>1
  <2>3. /\ Order[m] \in Seq(Script) /\ s \in Script
        /\ Steps[m][s] \in Seq(Step) /\ Steps[m][s][k] \in Step
        /\ k \in 1 .. Len(Steps[m][s])
    <3>1. Order[m] \in Seq(Script) BY TablesAssumption
    <3>2. s \in Script BY <2>1, <3>1
    <3>3. Steps[m][s] \in Seq(Step) BY <3>2, TablesAssumption
    <3> QED BY <2>2, <3>1, <3>2, <3>3
  <2>4. chain'[Steps[m][s][k].eff] > 0
    <3>1. Steps[m][s][k].eff \in EffectsOf(m, s, {"once"}) BY <2>2, <2>3 DEF StuckAt, EffectsOf
    <3>2. Steps[m][s][k].eff \in Effect \ Temporary BY <2>3, <3>1, OnceAssumption DEF Step
    <3> QED BY <2>2, <3>2, ChainKeeps DEF StuckAt, EngineInv
  \* In the script with the stuck id, a run is not beyond step k ...
  <2>5. ASSUME pos \in DOMAIN Order[market], CurrentScript \in Records[market],
               MigrationId[market][CurrentScript] = MigrationId[m][s],
               status \in {"running", "waiting"}
        PROVE  pc <= k /\ CurrentSteps = Steps[m][s]
    <3>1. ~(pc > k) BY <2>2, <2>5 DEF StuckAt, LiveBeyond
    <3>2. Steps[market][CurrentScript] = Steps[m][s]
      BY <2>1, <2>5 DEF IdsSeparateWork, EngineInv, TypeOK
    <3>3. pc \in Nat BY <2>5, CurrentInTables DEF EngineInv
    <3> QED BY <2>3, <3>1, <3>2, <3>3 DEF CurrentSteps
  \* ... so that it cannot record the script ...
  <2>6. MigrationId[m][s] \notin migrations'
    <3> SUFFICES ASSUME MigrationId[m][s] \in migrations' PROVE FALSE OBVIOUS
    <3>1. MigrationId[m][s] \notin migrations BY <2>2 DEF StuckAt
    <3>2. FinishScript
      BY <3>1 DEF Next, Progress, Mine, Launch, SkipRecorded, BeginScript, FinishRun, Throw,
        Check, Deploy, ReadChain, SendTx, MineOrphan, MineAwaited, Crash, vars
    <3>3. /\ CurrentScript \in Records[market] /\ status = "running"
          /\ MigrationId[market][CurrentScript] = MigrationId[m][s]
          /\ pc = Len(CurrentSteps) + 1
      BY <3>1, <3>2 DEF FinishScript, AtScript
    <3>4. pos \in DOMAIN Order[market]
      <4>1. Order[market] \in Seq(Script) BY TablesAssumption DEF EngineInv, TypeOK
      <4> QED BY <3>2, <4>1 DEF FinishScript, AtScript
    <3> QED BY <2>3, <2>5, <3>3, <3>4
  \* ... nor get beyond the step: its transaction is refused, nothing skips it.
  <2>7. ~LiveBeyond(m, s, k)'
    <3> SUFFICES ASSUME LiveBeyond(m, s, k)' PROVE FALSE OBVIOUS
    <3>1. /\ status' \in {"running", "waiting"}
          /\ pos' \in DOMAIN Order[market']
          /\ CurrentScript' \in Records[market']
          /\ MigrationId[market'][CurrentScript'] = MigrationId[m][s]
          /\ pc' > k
      BY DEF LiveBeyond
    <3>2. ASSUME UNCHANGED <<market, pos>>, status \in {"running", "waiting"}
          PROVE  pos \in DOMAIN Order[market] /\ pc <= k /\ CurrentSteps = Steps[m][s]
      BY <2>5, <3>1, <3>2 DEF CurrentScript
    <3>3. pc \in Nat BY DEF EngineInv, TypeOK
    <3>4. CASE pc' \in {0, 1} BY <2>3, <3>1, <3>4
    <3>5. CASE UNCHANGED <<market, pos, pc>> /\ status \in {"running", "waiting"}
      BY <2>3, <3>1, <3>2, <3>3, <3>5
    <3>6. CASE Launch \/ SkipRecorded \/ BeginScript \/ FinishScript
      <4> pc' \in {0, 1} BY <3>6 DEF Launch, SkipRecorded, BeginScript, FinishScript
      <4> QED BY <3>4
    <3>7. CASE SendTx \/ UNCHANGED vars
      <4> UNCHANGED <<market, pos, pc>> /\ status \in {"running", "waiting"}
        BY <3>1, <3>7 DEF SendTx, AtStep, AtScript, vars
      <4> QED BY <3>5
    <3>8. CASE MineOrphan
      <4> UNCHANGED <<market, pos, pc>> /\ status \in {"running", "waiting"}
        BY <3>1, <3>8 DEF MineOrphan
      <4> QED BY <3>5
    <3>9. CASE FinishRun \/ Throw \/ Crash BY <3>1, <3>9 DEF FinishRun, Throw, Crash
    <3>10. CASE Check \/ Deploy
      <4>1. /\ UNCHANGED <<market, pos>> /\ pc' = pc + 1 /\ status = "running"
            /\ CurrentSteps[pc].kind # "once"
        BY <3>10, StepInTables DEF Check, Deploy, EngineInv, AtStep, AtScript, CurrentStep
      <4>2. pc = k /\ CurrentSteps = Steps[m][s] BY <2>3, <3>1, <3>2, <3>3, <4>1
      <4> QED BY <2>2, <4>1, <4>2 DEF StuckAt
    <3>11. CASE ReadChain
      <4>1. /\ UNCHANGED <<market, pos>> /\ status = "running"
            /\ pc' \in {pc + 1, pc + 1 + CurrentStep.skip}
            /\ CurrentSteps[pc].kind = "unless"
            /\ CurrentStep = CurrentSteps[pc] /\ CurrentStep.skip \in Nat
            /\ pc \in 1 .. Len(CurrentSteps)
        <5>1. CurrentStep \in Step /\ CurrentStep.kind = "unless" /\ pc \in 1 .. Len(CurrentSteps)
          BY <3>11, StepInTables DEF ReadChain, EngineInv
        <5> QED BY <3>11, <5>1 DEF ReadChain, AtStep, AtScript, CurrentStep, Step
      <4>2. pc <= k /\ CurrentSteps = Steps[m][s] BY <3>2, <4>1
      <4>3. pc # k BY <2>2, <4>1, <4>2 DEF StuckAt
      <4>4. pc \in 1 .. k - 1 /\ k <= pc + Steps[m][s][pc].skip
        BY <2>3, <3>1, <4>1, <4>2, <4>3
      <4> QED BY <2>2, <4>1, <4>2, <4>4 DEF StuckAt, Guarded
    <3>12. CASE MineAwaited
      <4>1. /\ UNCHANGED <<market, pos>> /\ status = "waiting"
            /\ pending \in Seq(Step) /\ Len(pending) = 1
            /\ Head(pending) = CurrentSteps[pc]
            /\ status' = "running" /\ pc' = pc + 1 /\ Accepted(Head(pending))
        BY <3>1, <3>12 DEF MineAwaited, EngineInv, AwaitedIsLast, TypeOK, CurrentStep
      <4>2. pc = k /\ CurrentSteps = Steps[m][s] BY <2>3, <3>1, <3>2, <3>3, <4>1
      <4>3. Head(pending) = Steps[m][s][k] BY <4>1, <4>2
      <4> QED BY <2>2, <2>3, <4>1, <4>3 DEF StuckAt, Accepted, EngineInv, TypeOK, Step
    <3> QED BY <3>6, <3>7, <3>8, <3>9, <3>10, <3>11, <3>12 DEF Next, Progress, Mine
  \* A run for m that is done, now or before, has the script on record.
  <2>8. ~(status' = "done" /\ market' = m)
    <3> SUFFICES ASSUME status' = "done", market' = m PROVE FALSE OBVIOUS
    <3>1. market = m /\ pos = Len(Order[m]) + 1
      BY DEF EngineInv, DoneIsTheEnd, Next, Progress, Mine, Launch, SkipRecorded, BeginScript,
        FinishScript, FinishRun, Throw, Check, Deploy, ReadChain, SendTx, MineOrphan,
        MineAwaited, Crash, vars, AtStep, AtScript
    <3>2. i < pos BY <2>3, <3>1
    <3>3. Recorded(m, s) BY <2>1, <3>1, <3>2 DEF EngineInv, PassedAccounted
    <3> QED BY <2>2, <3>3 DEF StuckAt, Recorded
  <2>9. StuckAt(m, s, k)' BY <2>2, <2>4, <2>6, <2>7 DEF StuckAt, Guarded
  <2> QED BY <2>1, <2>2, <2>8, <2>9 DEF Stuck
<1> QED BY <1>1, EngineInvariant, PTL DEF StuckIsPermanent, Spec

=============================================================================
