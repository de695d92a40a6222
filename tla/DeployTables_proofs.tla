------------------------ MODULE DeployTables_proofs ------------------------
(***************************************************************************)
(* What runs promise when the tables are in order: each step finds what it *)
(* needs, and a market once complete may be deployed again.                *)
(***************************************************************************)
EXTENDS DeployTables, DeployEngine_proofs, FiniteSetTheorems

-----------------------------------------------------------------------------
(* A step of the current script is a step of the tables.                   *)
LEMMA CurrentIsStepAt ==
  ASSUME TypeOK, pos \in DOMAIN Order[market], NEW j
  PROVE  CurrentSteps[j] = StepAt(market, pos, j)
BY DEF StepAt, CurrentSteps, CurrentScript

(* What the steps before the current one establish is held, or temporary.  *)
LEMMA OwnIsHeld ==
  ASSUME TypeOK, DoneSoFar, pos \in DOMAIN Order[market], pc \in DOMAIN CurrentSteps
  PROVE  OwnBefore(market, pos, pc) \subseteq Held \cup Temporary
<1> SUFFICES ASSUME NEW l \in 1 .. pc - 1, StepAt(market, pos, l).kind \in Establishing
             PROVE  StepAt(market, pos, l).eff \in Held \cup Temporary
  BY DEF OwnBefore
<1>1. /\ DOMAIN CurrentSteps = 1 .. Len(CurrentSteps) /\ Len(CurrentSteps) \in Nat
      /\ pc \in 1 .. Len(CurrentSteps)
  BY CurrentInTables
<1>2. l \in DOMAIN CurrentSteps /\ l < pc BY <1>1
<1> QED BY <1>2, CurrentIsStepAt DEF DoneSoFar

(* A script that is behind the run, and whose record is true, left what it *)
(* provides.                                                               *)
LEMMA PassedIsHeld ==
  ASSUME TypeOK, PassedAccounted, NEW h \in DOMAIN Order[market], h < pos,
         Recorded(market, Order[market][h]) => Provides(market, Order[market][h]) \subseteq Held
  PROVE  Provides(market, Order[market][h]) \subseteq Held
BY DEF PassedAccounted

-----------------------------------------------------------------------------
(* With true records, the current step has all it needs.                   *)
LEMMA NeedsHeld ==
  ASSUME EngineInv, RecordedMeansDone, TemporaryInPlace, InOrder(market),
         status \in {"running", "waiting"},
         pos \in DOMAIN Order[market], pc \in DOMAIN CurrentSteps
  PROVE  CurrentStep.needs \subseteq Held
<1>0. TypeOK /\ market \in Market /\ pc \in DOMAIN Steps[market][Order[market][pos]]
  BY DEF EngineInv, TypeOK, CurrentSteps, CurrentScript
<1>1. CurrentStep = StepAt(market, pos, pc) BY <1>0, CurrentIsStepAt DEF CurrentStep
<1>2. /\ Order[market] \in Seq(Script) /\ DOMAIN Order[market] = 1 .. Len(Order[market])
      /\ Len(Order[market]) \in Nat /\ pos \in 1 .. Len(Order[market])
  BY <1>0, TablesAssumption
<1> SUFFICES ASSUME NEW n \in CurrentStep.needs PROVE n \in Held OBVIOUS
<1>3. CASE n \in Temporary BY <1>3 DEF TemporaryInPlace
<1>4. CASE n \in OwnBefore(market, pos, pc) /\ n \notin Temporary
  BY <1>0, <1>4, OwnIsHeld DEF EngineInv
<1>5. CASE n \in LeftBefore(market, pos)
  <2>1. PICK h \in 1 .. pos - 1 : n \in Provides(market, Order[market][h])
    BY <1>5 DEF LeftBefore
  <2>2. h \in DOMAIN Order[market] /\ h < pos /\ Order[market][h] \in Script BY <1>2
  <2>3. Recorded(market, Order[market][h]) => Provides(market, Order[market][h]) \subseteq Held
    BY <1>0, <2>2 DEF RecordedMeansDone
  <2> QED BY <1>0, <2>1, <2>2, <2>3, PassedIsHeld DEF EngineInv
<1> QED BY <1>0, <1>1, <1>3, <1>4, <1>5 DEF InOrder

(* A run that is in a script has not recorded it, nor found it recorded.   *)
LEMMA NotYetRecordedStep ==
  ASSUME TypeOK, AwaitedIsLast, NotYetRecorded, [Next]_vars
  PROVE  NotYetRecorded'
<1> USE DEF disk
<1>1. CASE Launch \/ SkipRecorded \/ FinishScript
  <2>1. pc' = 0
    BY <1>1 DEF Launch, SkipRecorded, FinishScript
  <2> QED BY <2>1 DEF NotYetRecorded
<1>2. CASE BeginScript
  BY <1>2 DEF BeginScript, NotYetRecorded, Recorded, CurrentScript
<1>3. ASSUME UNCHANGED <<market, pos, migrations>>,
             pos \in DOMAIN Order[market] /\ pc' > 0 => pc > 0
      PROVE  NotYetRecorded'
  BY <1>3 DEF NotYetRecorded, Recorded, CurrentScript
<1>4. CASE FinishRun \/ Throw \/ SendTx \/ MineOrphan \/ Crash \/ UNCHANGED vars
  <2>1. UNCHANGED <<market, pos, migrations>> /\ pc' = pc
    BY <1>4 DEF FinishRun, Throw, SendTx, MineOrphan, Crash, vars
  <2> QED BY <1>3, <2>1
<1>5. CASE Check \/ Deploy \/ ReadChain
  <2>1. pc > 0 BY <1>5, StepInTables DEF Check, Deploy, ReadChain
  <2>2. UNCHANGED <<market, pos, migrations>> BY <1>5 DEF Check, Deploy, ReadChain
  <2> QED BY <1>3, <2>1, <2>2
<1>6. CASE MineAwaited
  <2>1. pc > 0 BY <1>6, CurrentInTables DEF MineAwaited, AwaitedIsLast
  <2>2. UNCHANGED <<market, pos, migrations>> BY <1>6 DEF MineAwaited
  <2> QED BY <1>3, <2>1, <2>2
<1> QED BY <1>1, <1>2, <1>4, <1>5, <1>6 DEF Next, Progress, Mine

(* What is temporary is set by the step right before the one that needs    *)
(* it, and by nothing else that is under way.                              *)
LEMMA TemporaryStep ==
  ASSUME EngineInv, TemporaryInPlace, InOrder(market), [Next]_vars
  PROVE  TemporaryInPlace'
<1> USE DEF disk
<1>0. TypeOK /\ TypeOK' /\ market \in Market BY TypeStep DEF EngineInv, TypeOK
<1> SUFFICES ASSUME status' \in {"running", "waiting"}, pos' \in DOMAIN Order[market'],
                    pc' \in DOMAIN CurrentSteps', CurrentStep'.needs \cap Temporary # {}
             PROVE  CurrentStep'.needs \cap Temporary \subseteq Held' /\ NoOthers'
  BY DEF TemporaryInPlace
<1>1. pc' > 0
  <2>1. Order[market'] \in Seq(Script) BY <1>0, TablesAssumption DEF TypeOK
  <2>2. CurrentScript' \in Script BY <2>1 DEF CurrentScript
  <2>3. CurrentSteps' \in Seq(Step) BY <1>0, <2>2, TablesAssumption DEF CurrentSteps, TypeOK
  <2> QED BY <2>3
\* In one script, the step before this one in its script is a "set" of what it needs.
<1>2. ASSUME UNCHANGED <<market, pos>>
      PROVE  /\ pos \in DOMAIN Order[market]
             /\ CurrentSteps' = CurrentSteps /\ CurrentStep' = CurrentSteps[pc']
             /\ pc' \in DOMAIN CurrentSteps
             /\ pc' \in 1 .. Len(CurrentSteps)
             /\ pc' > 1 /\ CurrentSteps[pc' - 1].kind = "set"
             /\ CurrentStep'.needs \cap Temporary \subseteq {CurrentSteps[pc' - 1].eff}
             /\ \A k \in 1 .. pc' - 1 :
                  CurrentSteps[k].kind = "unless" => k + 1 + CurrentSteps[k].skip # pc'
  <2>1. pos \in DOMAIN Order[market] /\ CurrentSteps' = CurrentSteps
    BY <1>2 DEF CurrentSteps, CurrentScript
  <2>2. CurrentStep' = CurrentSteps[pc'] BY <2>1 DEF CurrentStep
  <2>3. /\ pc' \in DOMAIN Steps[market][Order[market][pos]]
        /\ \A j : CurrentSteps[j] = StepAt(market, pos, j)
    BY <1>0, <2>1, CurrentIsStepAt DEF CurrentSteps, CurrentScript
  <2>4. pc' \in 1 .. Len(CurrentSteps) BY <1>0, <2>1, CurrentInTables
  <2> QED BY <2>1, <2>2, <2>3, <2>4 DEF InOrder
<1>3. CASE Launch \/ SkipRecorded \/ FinishScript
  <2>1. pc' = 0
    BY <1>3 DEF Launch, SkipRecorded, FinishScript
  <2> QED BY <1>1, <2>1
<1>4. CASE BeginScript BY <1>2, <1>4 DEF BeginScript
<1>5. CASE FinishRun \/ Throw \/ Crash BY <1>5 DEF FinishRun, Throw, Crash
<1>6. CASE Check \/ Deploy
  <2>1. /\ UNCHANGED <<market, pos>> /\ pc' = pc + 1
        /\ pc \in 1 .. Len(CurrentSteps) /\ CurrentSteps[pc].kind \in {"require", "deploy"}
    BY <1>0, <1>6, StepInTables DEF Check, Deploy, CurrentStep
  <2>2. CurrentSteps[pc' - 1].kind = "set" BY <1>2, <2>1
  <2>3. pc' - 1 = pc BY <1>0, <2>1 DEF TypeOK
  <2> QED BY <2>1, <2>2, <2>3
<1>7. CASE ReadChain
  <2>1. /\ UNCHANGED <<market, pos>> /\ pc \in 1 .. Len(CurrentSteps)
        /\ CurrentStep = CurrentSteps[pc] /\ CurrentSteps[pc].kind = "unless"
        /\ CurrentStep \in Step
    BY <1>0, <1>7, StepInTables DEF ReadChain, CurrentStep
  <2>2. pc \in Nat /\ CurrentStep.skip \in Nat BY <2>1, <1>0 DEF TypeOK, Step
  <2>3. CASE pc' = pc + 1
    <3>1. pc' - 1 = pc BY <2>2, <2>3
    <3> QED BY <1>2, <2>1, <3>1
  <2>4. CASE pc' = pc + 1 + CurrentStep.skip
    <3>1. pc \in 1 .. pc' - 1 BY <2>1, <2>2, <2>4
    <3> QED BY <1>2, <2>1, <2>4, <3>1
  <2> QED BY <1>7, <2>3, <2>4 DEF ReadChain
<1>8. ASSUME UNCHANGED <<market, pos, pc>>, status \in {"running", "waiting"}
      PROVE  CurrentStep' = CurrentStep /\ CurrentStep.needs \cap Temporary \subseteq Held /\ NoOthers
  <2>1. CurrentStep' = CurrentStep /\ pc \in DOMAIN CurrentSteps /\ pos \in DOMAIN Order[market]
    BY <1>2, <1>8 DEF CurrentStep
  <2> QED BY <1>8, <2>1 DEF TemporaryInPlace
<1>9. CASE SendTx
  <2>1. UNCHANGED <<market, pos, pc, chain, artifacts>> /\ status = "running"
    BY <1>9 DEF SendTx, AtStep, AtScript
  <2>2. pending = <<>> BY <1>8, <2>1 DEF NoOthers
  <2>3. Len(pending') = 1 /\ status' = "waiting" BY <1>9, <2>2 DEF SendTx
  <2> QED BY <1>8, <2>1, <2>3 DEF NoOthers, Held
<1>10. CASE MineOrphan
  <2>1. UNCHANGED <<market, pos, pc>> /\ status \in {"running", "waiting"}
    BY <1>10 DEF MineOrphan
  <2>2. NoOthers BY <1>8, <2>1
  <2>3. pending # <<>> /\ (status = "waiting" => Len(pending) > 1) BY <1>10 DEF MineOrphan
  <2>5. CASE status = "waiting"
    <3>1. Len(pending) = 1 BY <2>2, <2>5 DEF NoOthers
    <3>2. Len(pending) > 1 BY <2>3, <2>5
    <3>3. Len(pending) \in Nat BY <1>0 DEF TypeOK
    <3> QED BY <3>1, <3>2, <3>3
  <2>6. CASE status # "waiting" BY <2>2, <2>3, <2>6 DEF NoOthers
  <2> QED BY <2>5, <2>6
<1>11. CASE MineAwaited
  <2>1. /\ pending \in Seq(Step) /\ Len(pending) = 1 /\ Head(pending) = CurrentStep
        /\ CurrentStep \in Step /\ CurrentStep = CurrentSteps[pc]
    <3>1. /\ pending \in Seq(Step) /\ Len(pending) = 1 /\ pending # <<>>
          /\ Head(pending) = CurrentStep
      BY <1>11 DEF MineAwaited, EngineInv, AwaitedIsLast, TypeOK
    <3>2. Head(pending) \in Step BY <3>1
    <3> QED BY <3>1, <3>2 DEF CurrentStep
  <2>2. /\ Accepted(CurrentStep) /\ pc' = pc + 1 /\ status' = "running"
        /\ pending' = <<>> /\ chain' = Mined(CurrentStep) /\ UNCHANGED <<market, pos, artifacts>>
    BY <1>11, <2>1 DEF MineAwaited
  <2>3. pc' - 1 = pc BY <1>0, <2>2 DEF TypeOK
  <2>4. CurrentStep.kind = "set" /\ CurrentStep'.needs \cap Temporary \subseteq {CurrentStep.eff}
    BY <1>2, <2>1, <2>2, <2>3
  <2>5. chain'[CurrentStep.eff] > 0 /\ CurrentStep.eff \in Effect
    BY <1>0, <2>1, <2>2, <2>4, MinedGives DEF TypeOK, Step
  <2> QED BY <2>2, <2>4, <2>5 DEF Held, NoOthers
<1>12. CASE UNCHANGED vars
  <2>1. UNCHANGED <<market, pos, pc, status, pending, chain, artifacts>> BY <1>12 DEF vars
  <2> QED BY <1>8, <2>1 DEF NoOthers, Held
<1> QED BY <1>3, <1>4, <1>5, <1>6, <1>7, <1>9, <1>10, <1>11, <1>12 DEF Next, Progress, Mine

-----------------------------------------------------------------------------
(* A run stops only at its current step, and with all the step needs: at a *)
(* transaction that cannot be repeated, which an earlier run had sent.     *)
LEMMA StopsAtRepeat ==
  ASSUME EngineInv, RecordedMeansDone, TemporaryInPlace, InOrder(market), [Next]_vars,
         status # "failed", status' = "failed"
  PROVE  /\ UNCHANGED <<market, pos, pc, crashes, chain>>
         /\ pos \in DOMAIN Order[market] /\ pc \in DOMAIN CurrentSteps /\ pc > 0
         /\ CurrentStep.kind = "once" /\ chain[CurrentStep.eff] > 0
<1> USE DEF disk
<1>0. TypeOK BY DEF EngineInv
<1>1. Throw \/ MineAwaited
  BY DEF Next, Progress, Mine, Launch, SkipRecorded, BeginScript, FinishScript, FinishRun,
    Check, Deploy, ReadChain, SendTx, MineOrphan, Crash, AtStep, AtScript, vars
<1>2. ASSUME Throw PROVE FALSE
  <2>1. /\ pos \in DOMAIN Order[market] /\ pc \in DOMAIN CurrentSteps
        /\ status = "running" /\ ~(CurrentStep.needs \subseteq Held)
    BY <1>0, <1>2, StepInTables DEF Throw, AtStep, AtScript
  <2> QED BY <2>1, NeedsHeld
<1>3. CASE MineAwaited
  <2>1. /\ pos \in DOMAIN Order[market] /\ pc \in DOMAIN CurrentSteps
        /\ pending \in Seq(Step) /\ pending # <<>> /\ Len(pending) = 1
        /\ Head(pending) = CurrentStep /\ status = "waiting"
    BY <1>3 DEF MineAwaited, EngineInv, AwaitedIsLast, TypeOK
  <2>2. /\ ~Accepted(CurrentStep) /\ UNCHANGED <<market, pos, pc, crashes>>
        /\ chain' = Mined(CurrentStep)
    BY <1>3, <2>1 DEF MineAwaited
  <2>3. chain' = chain BY <2>2 DEF Mined
  <2>4. CurrentStep.needs \subseteq Held BY <2>1, NeedsHeld
  <2>5. CurrentStep.kind = "once" /\ chain[CurrentStep.eff] # 0 BY <2>2, <2>4 DEF Accepted
  <2>6. Head(pending) \in Step BY <2>1
  <2>7. chain[CurrentStep.eff] \in Nat BY <1>0, <2>1, <2>6 DEF TypeOK, Step
  <2>8. pc > 0 BY <1>0, <2>1, CurrentInTables
  <2> QED BY <2>1, <2>2, <2>3, <2>5, <2>7, <2>8
<1> QED BY <1>1, <1>2, <1>3

(* As long as no run was killed, none fails.                               *)
LEMMA NoCrashNoFailure ==
  ASSUME EngineInv, RecordedMeansDone, RepeatInv, InOrder(market), [Next]_vars, crashes = 0
  PROVE  status' # "failed"
<1> SUFFICES ASSUME status' = "failed" PROVE FALSE OBVIOUS
<1>1. status # "failed" BY DEF RepeatInv, FailureIsARepeat
<1>2. /\ pos \in DOMAIN Order[market] /\ pc \in DOMAIN CurrentSteps /\ pc > 0
      /\ CurrentStep.kind = "once" /\ chain[CurrentStep.eff] > 0
  BY <1>1, StopsAtRepeat DEF RepeatInv
<1>3. /\ market \in Market /\ CurrentScript \in Script
      /\ pc \in DOMAIN Steps[market][CurrentScript]
      /\ CurrentStep = Steps[market][CurrentScript][pc]
  BY <1>2, CurrentInTables DEF EngineInv, TypeOK, CurrentStep
<1>4. Recorded(market, CurrentScript) \/ LiveBeyond(market, CurrentScript, pc)
  BY <1>2, <1>3 DEF RepeatInv, OnceAccounted
<1>5. ~LiveBeyond(market, CurrentScript, pc)
  <2>1. ~(pc > pc) BY DEF EngineInv, TypeOK
  <2> QED BY <2>1 DEF LiveBeyond
<1> QED BY <1>2, <1>4, <1>5 DEF RepeatInv, NotYetRecorded

(* A process that is beyond a step stays beyond it, until it has recorded  *)
(* the script or is gone.                                                  *)
LEMMA BeyondStep ==
  ASSUME TypeOK, AwaitedIsLast, [Next]_vars,
         NEW m \in Market, NEW s \in Script, NEW k \in Nat \ {0},
         Recorded(m, s) \/ LiveBeyond(m, s, k), s \in Records[m],
         status' # "failed", ~Crash
  PROVE  Recorded(m, s)' \/ LiveBeyond(m, s, k)'
<1> USE DEF disk
<1>1. CASE Recorded(m, s) BY <1>1, RecordKeeps DEF Recorded
<1>2. CASE LiveBeyond(m, s, k)
  <2>0. /\ status \in {"running", "waiting"} /\ pos \in DOMAIN Order[market]
        /\ CurrentScript \in Records[market]
        /\ MigrationId[market][CurrentScript] = MigrationId[m][s]
        /\ pc > k /\ pc \in Nat /\ k \in Nat \ {0}
    BY <1>2, CurrentInTables DEF LiveBeyond
  <2>1. CASE FinishScript
    <3>1. MigrationId[m][s] \in migrations' BY <2>0, <2>1 DEF FinishScript
    <3> QED BY <3>1 DEF Recorded
  <2>2. ASSUME UNCHANGED <<market, pos>>, status' \in {"running", "waiting"}, pc' >= pc, pc' \in Nat
        PROVE  LiveBeyond(m, s, k)'
    BY <2>0, <2>2 DEF LiveBeyond, CurrentScript
  <2>3. CASE Launch \/ SkipRecorded \/ BeginScript
    <3>1. status \notin {"running", "waiting"} \/ pc = 0
      BY <2>3 DEF Launch, SkipRecorded, BeginScript
    <3> QED BY <2>0, <3>1
  <2>4. CASE FinishRun
    <3>1. Order[market] \in Seq(Script) BY TablesAssumption DEF TypeOK
    <3> QED BY <2>0, <2>4, <3>1 DEF FinishRun
  <2>5. CASE Throw BY <2>5 DEF Throw
  <2>6. CASE Check \/ Deploy
    <3>1. UNCHANGED <<market, pos, status>> /\ pc' = pc + 1 BY <2>6 DEF Check, Deploy
    <3> QED BY <2>0, <2>2, <3>1
  <2>7. CASE ReadChain
    <3>1. CurrentStep.skip \in Nat BY <2>7, StepInTables DEF ReadChain, Step
    <3>2. UNCHANGED <<market, pos, status>> /\ pc' \in {pc + 1, pc + 1 + CurrentStep.skip}
      BY <2>7 DEF ReadChain
    <3>3. pc' >= pc /\ pc' \in Nat BY <2>0, <3>1, <3>2
    <3> QED BY <2>0, <2>2, <3>2, <3>3
  <2>8. CASE SendTx \/ MineOrphan \/ UNCHANGED vars
    <3>1. UNCHANGED <<market, pos, pc>> /\ status' \in {status, "waiting"}
      BY <2>8 DEF SendTx, MineOrphan, vars
    <3>2. pc' >= pc /\ pc' \in Nat BY <2>0, <3>1
    <3> QED BY <2>0, <2>2, <3>1, <3>2
  <2>9. CASE MineAwaited
    <3>1. UNCHANGED <<market, pos>> /\ pc' = pc + 1 /\ status' = "running"
      BY <2>9 DEF MineAwaited
    <3>2. pc' >= pc /\ pc' \in Nat BY <2>0, <3>1
    <3> QED BY <2>2, <3>1, <3>2
  <2> QED BY <2>1, <2>3, <2>4, <2>5, <2>6, <2>7, <2>8, <2>9 DEF Next, Progress, Mine
<1> QED BY <1>1, <1>2

(* As long as no run was killed, nothing is under way but what is awaited. *)
LEMMA NoOthersStep ==
  ASSUME TypeOK, NoOthers, [Next]_vars, ~Crash
  PROVE  NoOthers' /\ ~MineOrphan
<1> USE DEF disk
<1>0. pending \in Seq(Step) /\ Len(pending) \in Nat BY DEF TypeOK
<1>1. ~MineOrphan
  <2> SUFFICES ASSUME MineOrphan PROVE FALSE OBVIOUS
  <2>1. pending # <<>> /\ (status = "waiting" => Len(pending) > 1) BY DEF MineOrphan
  <2>2. CASE status = "waiting"
    <3>1. Len(pending) = 1 BY <2>2 DEF NoOthers
    <3>2. Len(pending) > 1 BY <2>1, <2>2
    <3> QED BY <1>0, <3>1, <3>2
  <2>3. CASE status # "waiting" BY <2>1, <2>3 DEF NoOthers
  <2> QED BY <2>2, <2>3
<1>2. CASE SendTx
  <2>1. pending = <<>> BY <1>2 DEF SendTx, AtStep, AtScript, NoOthers
  <2>2. Len(pending') = 1 /\ status' = "waiting" BY <1>2, <2>1 DEF SendTx
  <2> QED BY <1>1, <2>2 DEF NoOthers
<1>3. CASE MineAwaited
  <2>1. pending' = <<>> /\ status' \in {"running", "failed"} BY <1>3 DEF MineAwaited
  <2> QED BY <1>1, <2>1 DEF NoOthers
<1>4. CASE Launch \/ SkipRecorded \/ BeginScript \/ FinishScript \/ FinishRun \/ Throw
           \/ Check \/ Deploy \/ ReadChain
  <2>1. UNCHANGED pending /\ status # "waiting" /\ status' # "waiting"
    BY <1>4 DEF Launch, SkipRecorded, BeginScript, FinishScript, FinishRun, Throw, Check,
      Deploy, ReadChain, AtStep, AtScript
  <2> QED BY <1>1, <2>1 DEF NoOthers
<1>5. CASE UNCHANGED vars BY <1>1, <1>5 DEF NoOthers, vars
<1> QED BY <1>1, <1>2, <1>3, <1>4, <1>5 DEF Next, Progress, Mine

(* What is done once is done by the step a live run gets beyond thereby,   *)
(* and by no other step but those that share its id and its place.         *)
LEMMA OnceAccountedStep ==
  ASSUME EngineInv, RecordedMeansDone, RepeatInv, InOrder(market),
         \A m, n \in Market : OnceIsOwn(m, n), [Next]_vars
  PROVE  OnceAccounted'
<1> USE DEF disk
<1> SUFFICES ASSUME crashes' = 0
             PROVE  /\ NoOthers'
                    /\ \A m \in Market, s \in Script : \A k \in DOMAIN Steps[m][s] :
                         Steps[m][s][k].kind = "once" /\ chain'[Steps[m][s][k].eff] > 0 =>
                           Recorded(m, s)' \/ LiveBeyond(m, s, k)'
  BY DEF OnceAccounted
<1>0. TypeOK /\ market \in Market BY DEF EngineInv, TypeOK
<1>1. crashes = 0 /\ ~Crash
  <2>1. crashes \in Nat BY <1>0 DEF TypeOK
  <2>2. ~Crash BY <2>1 DEF Crash
  <2> QED BY <2>2 DEF Next, Progress, Mine, Launch, SkipRecorded, BeginScript, FinishScript,
        FinishRun, Throw, Check, Deploy, ReadChain, SendTx, MineOrphan, MineAwaited, vars
<1>2. NoOthers' /\ ~MineOrphan
  BY <1>0, <1>1, NoOthersStep DEF RepeatInv, OnceAccounted
<1>3. status' # "failed" BY <1>1, NoCrashNoFailure
<1> SUFFICES ASSUME NEW m \in Market, NEW s \in Script, NEW k \in DOMAIN Steps[m][s],
                    Steps[m][s][k].kind = "once", chain'[Steps[m][s][k].eff] > 0
             PROVE  Recorded(m, s)' \/ LiveBeyond(m, s, k)'
  BY <1>2
<1>4. /\ Steps[m][s] \in Seq(Step) /\ Steps[m][s][k] \in Step /\ k \in Nat \ {0}
      /\ Steps[m][s][k].eff \in Effect /\ Steps[m][s][k].kind \in TxKinds \ {"unset"}
      /\ s \in Records[m]
  <2>1. Steps[m][s] \in Seq(Step) BY TablesAssumption
  <2>2. Steps[m][s][k] \in Step /\ k \in Nat \ {0} BY <2>1
  <2>3. Steps[m][s][k].kind \in TxKinds \ {"unset"} BY DEF TxKinds
  <2> QED BY <2>1, <2>2, <2>3 DEF Step, OnceIsOwn
<1>5. CASE chain[Steps[m][s][k].eff] > 0
  <2>1. Recorded(m, s) \/ LiveBeyond(m, s, k)
    BY <1>1, <1>5 DEF RepeatInv, OnceAccounted
  <2> QED BY <1>0, <1>1, <1>3, <1>4, <2>1, BeyondStep DEF EngineInv
<1>6. CASE ~(chain[Steps[m][s][k].eff] > 0)
  <2>1. MineAwaited
    <3>1. chain' # chain BY <1>6
    <3> QED BY <1>2, <3>1 DEF Next, Progress, Mine, Launch, SkipRecorded, BeginScript,
          FinishScript, FinishRun, Throw, Check, Deploy, ReadChain, SendTx, Crash, vars
  <2>2. /\ pos \in DOMAIN Order[market] /\ pc \in DOMAIN CurrentSteps
        /\ pending \in Seq(Step) /\ pending # <<>> /\ Len(pending) = 1
        /\ Head(pending) = CurrentStep /\ chain' = Mined(CurrentStep)
    BY <2>1 DEF MineAwaited, EngineInv, AwaitedIsLast, TypeOK
  <2>3. CurrentStep \in Step /\ CurrentStep.kind \in TxKinds
    <3>1. Head(pending) \in Step BY <2>2
    <3> QED BY <2>1, <2>2, <3>1 DEF EngineInv, AwaitedIsLast, MineAwaited
  <2>4. CurrentStep.eff = Steps[m][s][k].eff /\ CurrentStep.kind # "unset" /\ Accepted(CurrentStep)
    <3>1. chain \in [Effect -> Nat] /\ CurrentStep.eff \in Effect
      BY <1>0, <2>3 DEF TypeOK, Step
    <3> QED BY <1>4, <1>6, <2>2, <3>1 DEF Mined
  <2>5. /\ CurrentScript \in Script /\ pc \in DOMAIN Steps[market][CurrentScript]
        /\ CurrentStep = Steps[market][CurrentScript][pc]
    BY <1>0, <2>2, CurrentInTables DEF CurrentStep
  <2>6. /\ pc = k /\ CurrentScript \in Records[market]
        /\ MigrationId[market][CurrentScript] = MigrationId[m][s]
    BY <1>0, <2>3, <2>4, <2>5 DEF OnceIsOwn
  <2>7. UNCHANGED <<market, pos>> /\ pc' = pc + 1 /\ status' = "running"
    BY <2>1, <2>2, <2>4 DEF MineAwaited
  <2>8. pc' > k BY <1>4, <2>6, <2>7
  <2> QED BY <2>2, <2>6, <2>7, <2>8 DEF LiveBeyond, CurrentScript
<1> QED BY <1>5, <1>6

-----------------------------------------------------------------------------
(* Whatever the tables, if they are in order and the ids keep the work of  *)
(* scripts apart, a run that fails met a transaction of a killed run.      *)
THEOREM RepeatInvariant ==
  IdsSeparateWork /\ (\A m, n \in Market : OnceIsOwn(m, n)) /\ (\A m \in Market : InOrder(m)) => (Spec => []RepeatInv)
<1> SUFFICES ASSUME IdsSeparateWork, \A m, n \in Market : OnceIsOwn(m, n), \A m \in Market : InOrder(m)
             PROVE  Spec => []RepeatInv
  OBVIOUS
<1>1. Init => RepeatInv
  <2> SUFFICES ASSUME Init PROVE RepeatInv OBVIOUS
  <2>1. NotYetRecorded BY DEF Init, NotYetRecorded
  <2>2. TemporaryInPlace BY DEF Init, TemporaryInPlace
  <2>3. OnceAccounted
    <3>1. ASSUME NEW m \in Market, NEW s \in Script, NEW k \in DOMAIN Steps[m][s]
          PROVE  ~(chain[Steps[m][s][k].eff] > 0)
      <4>1. Steps[m][s] \in Seq(Step) BY TablesAssumption
      <4>2. Steps[m][s][k] \in Step BY <3>1, <4>1
      <4>3. Steps[m][s][k].eff \in Effect BY <4>2 DEF Step
      <4> QED BY <4>3 DEF Init
    <3> QED BY <3>1 DEF Init, OnceAccounted, NoOthers
  <2> QED BY <2>1, <2>2, <2>3 DEF Init, RepeatInv, FailureIsARepeat
<1>2. EngineInv /\ RecordedMeansDone /\ RepeatInv /\ [Next]_vars => RepeatInv'
  <2> SUFFICES ASSUME EngineInv, RecordedMeansDone, RepeatInv, [Next]_vars PROVE RepeatInv'
    OBVIOUS
  <2>1. TypeOK /\ InOrder(market) BY DEF EngineInv, TypeOK
  <2>2. NotYetRecorded' BY NotYetRecordedStep DEF EngineInv, RepeatInv
  <2>3. TemporaryInPlace' BY <2>1, TemporaryStep DEF RepeatInv
  <2>4. OnceAccounted' BY <2>1, OnceAccountedStep
  <2>5. ASSUME status' = "failed"
        PROVE  /\ pos' \in DOMAIN Order[market'] /\ pc' \in DOMAIN CurrentSteps'
               /\ crashes' > 0 /\ CurrentStep'.kind = "once" /\ chain'[CurrentStep'.eff] > 0
    <3> SUFFICES /\ UNCHANGED <<market, pos, pc, crashes>>
                 /\ pos \in DOMAIN Order[market] /\ pc \in DOMAIN CurrentSteps
                 /\ crashes > 0 /\ CurrentStep.kind = "once" /\ chain'[CurrentStep.eff] > 0
      BY DEF CurrentStep, CurrentSteps, CurrentScript
    <3>1. CASE status # "failed"
      <4>1. /\ UNCHANGED <<market, pos, pc, crashes, chain>>
            /\ pos \in DOMAIN Order[market] /\ pc \in DOMAIN CurrentSteps
            /\ CurrentStep.kind = "once" /\ chain[CurrentStep.eff] > 0
        BY <2>1, <2>5, <3>1, StopsAtRepeat DEF RepeatInv
      <4>2. crashes # 0 BY <2>1, <2>5, NoCrashNoFailure
      <4>3. crashes \in Nat BY <2>1 DEF TypeOK
      <4> QED BY <4>1, <4>2, <4>3
    <3>2. CASE status = "failed"
      <4>1. /\ pos \in DOMAIN Order[market] /\ pc \in DOMAIN CurrentSteps
            /\ crashes > 0 /\ CurrentStep.kind = "once" /\ chain[CurrentStep.eff] > 0
        BY <3>2 DEF RepeatInv, FailureIsARepeat
      <4>2. UNCHANGED <<market, pos, pc, crashes>>
        BY <2>5, <3>2 DEF Next, Progress, Mine, Launch, SkipRecorded, BeginScript,
          FinishScript, FinishRun, Throw, Check, Deploy, ReadChain, SendTx, MineOrphan,
          MineAwaited, Crash, AtStep, AtScript, vars
      <4>3. CurrentStep.eff \in Effect \ Temporary
        <5>1. /\ CurrentScript \in Script /\ pc \in DOMAIN Steps[market][CurrentScript]
              /\ CurrentStep = Steps[market][CurrentScript][pc]
              /\ CurrentStep \in Step /\ market \in Market
          BY <2>1, <4>1, CurrentInTables DEF CurrentStep, TypeOK
        <5>2. CurrentStep.eff \in EffectsOf(market, CurrentScript, {"once"})
          BY <4>1, <5>1 DEF EffectsOf
        <5> QED BY <5>1, <5>2, OnceAssumption DEF Step
      <4>4. chain'[CurrentStep.eff] > 0 BY <2>1, <4>1, <4>3, ChainKeeps DEF EngineInv
      <4> QED BY <4>1, <4>2, <4>4
    <3> QED BY <3>1, <3>2
  <2> QED BY <2>2, <2>3, <2>4, <2>5 DEF RepeatInv, FailureIsARepeat
<1> QED BY <1>1, <1>2, EngineInvariant, RecordIsTrue, PTL DEF Spec

(* The only reason for a run to fail is a once-only transaction of a       *)
(* killed run that went through.                                           *)
THEOREM FailureRepeats ==
  IdsSeparateWork /\ (\A m, n \in Market : OnceIsOwn(m, n)) /\ (\A m \in Market : InOrder(m)) =>
    (Spec => []FailureIsARepeat)
<1>1. RepeatInv => FailureIsARepeat BY DEF RepeatInv
<1> QED BY <1>1, RepeatInvariant, PTL

-----------------------------------------------------------------------------
(* The record of a script that shares its id with no other work is true,   *)
(* whatever ids the other scripts have.                                    *)
LEMMA OwnRecordsStep ==
  ASSUME EngineInv, OwnRecordsTrue, [Next]_vars
  PROVE  OwnRecordsTrue'
<1> USE DEF disk
<1> SUFFICES ASSUME NEW m \in Market, NEW s \in Script, Separate(m, s), Recorded(m, s)'
             PROVE  Provides(m, s) \subseteq Held'
  BY DEF OwnRecordsTrue
<1>1. Provides(m, s) \cap Temporary = {} BY DEF Provides
<1>2. CASE Recorded(m, s) BY <1>1, <1>2, HeldKeeps DEF OwnRecordsTrue, EngineInv
<1>3. CASE ~Recorded(m, s)
  <2>1. s \in Records[m] /\ MigrationId[m][s] \in migrations' \ migrations
    BY <1>3 DEF Recorded
  <2>2. FinishScript
    BY <2>1 DEF Next, Progress, Mine, Launch, SkipRecorded, BeginScript, FinishRun, Throw,
      Check, Deploy, ReadChain, SendTx, MineOrphan, MineAwaited, Crash, vars
  <2>3. /\ CurrentScript \in Records[market]
        /\ MigrationId[market][CurrentScript] = MigrationId[m][s]
    BY <2>1, <2>2 DEF FinishScript
  <2>4. Steps[market][CurrentScript] = Steps[m][s]
    BY <2>1, <2>3 DEF Separate, EngineInv, TypeOK
  <2>5. Provides(m, s) = Provides(market, CurrentScript) BY <2>4 DEF Provides, EffectsOf
  <2>6. Provides(market, CurrentScript) \subseteq Held BY <2>2, ScriptDone DEF EngineInv
  <2> QED BY <1>1, <2>5, <2>6, HeldKeeps DEF EngineInv
<1> QED BY <1>2, <1>3

(* The transactions a step sends are the tables'.                          *)
LEMMA StepIsTx ==
  ASSUME TypeOK, AtStep(TxKinds)
  PROVE  CurrentStep.eff \in TxEffects
<1>1. /\ pos \in DOMAIN Order[market] /\ CurrentStep.kind \in TxKinds
      /\ pc \in DOMAIN CurrentSteps
      /\ CurrentStep = Steps[market][CurrentScript][pc]
  BY StepInTables
<1>2. /\ CurrentScript \in Script /\ market \in Market
      /\ pc \in DOMAIN Steps[market][CurrentScript]
  BY <1>1, CurrentInTables DEF TypeOK
<1>3. CurrentStep.eff \in EffectsOf(market, CurrentScript, TxKinds) BY <1>1, <1>2 DEF EffectsOf
<1> QED BY <1>2, <1>3 DEF TxEffects

(* What a step leaves pending was pending, or is the step.                 *)
LEMMA PendingStep ==
  ASSUME TypeOK, [Next]_vars, NEW i \in DOMAIN pending'
  PROVE  \/ \E j \in DOMAIN pending : pending'[i] = pending[j]
         \/ SendTx /\ pending'[i] = CurrentStep
<1> USE DEF disk
<1>0. pending \in Seq(Step) BY DEF TypeOK
<1>1. CASE SendTx
  <2>1. pending' = Append(pending, CurrentStep) BY <1>1 DEF SendTx
  <2>2. CASE i = Len(pending) + 1 BY <1>0, <1>1, <2>1, <2>2
  <2>3. CASE i # Len(pending) + 1
    <3>1. CurrentStep \in Step BY <1>1, StepInTables DEF SendTx
    <3>2. i \in DOMAIN pending /\ pending'[i] = pending[i] BY <1>0, <2>1, <2>3, <3>1
    <3> QED BY <3>2
  <2> QED BY <2>2, <2>3
<1>2. CASE MineOrphan
  <2>1. pending # <<>> /\ pending' = Tail(pending) BY <1>2 DEF MineOrphan
  <2>2. i + 1 \in DOMAIN pending /\ pending'[i] = pending[i + 1] BY <1>0, <2>1
  <2> QED BY <2>2
<1>3. CASE MineAwaited
  <2>1. pending' = <<>> BY <1>3 DEF MineAwaited
  <2> QED BY <2>1
<1>4. CASE Launch \/ SkipRecorded \/ BeginScript \/ FinishScript \/ FinishRun \/ Throw
           \/ Check \/ Deploy \/ ReadChain \/ Crash \/ UNCHANGED vars
  <2>1. UNCHANGED pending
    BY <1>4 DEF Launch, SkipRecorded, BeginScript, FinishScript, FinishRun, Throw, Check,
      Deploy, ReadChain, Crash, vars
  <2> QED BY <2>1
<1> QED BY <1>1, <1>2, <1>3, <1>4 DEF Next, Progress, Mine

(* A fact that comes to hold was under way.                                *)
LEMMA ChainStep ==
  ASSUME TypeOK, AwaitedIsLast, [Next]_vars, NEW f \in Effect, chain'[f] > 0, ~(chain[f] > 0)
  PROVE  \E j \in DOMAIN pending : pending[j].eff = f
<1> USE DEF disk
<1>1. chain' # chain OBVIOUS
<1>2. MineOrphan \/ MineAwaited
  BY <1>1 DEF Next, Progress, Mine, Launch, SkipRecorded, BeginScript, FinishScript, FinishRun,
    Throw, Check, Deploy, ReadChain, SendTx, Crash, vars
<1>3. pending \in Seq(Step) /\ pending # <<>> /\ chain' = Mined(Head(pending))
  BY <1>2 DEF MineOrphan, MineAwaited, TypeOK, AwaitedIsLast
<1>4. Head(pending) = pending[1] /\ 1 \in DOMAIN pending /\ Head(pending) \in Step BY <1>3
<1>5. chain \in [Effect -> Nat] BY DEF TypeOK
<1>6. Head(pending).eff = f BY <1>3, <1>4, <1>5 DEF Mined, Step
<1> QED BY <1>4, <1>6

(* Only transactions of the tables are under way, or went through.         *)
LEMMA FromTablesStep ==
  ASSUME TypeOK, AwaitedIsLast, FromTables, [Next]_vars
  PROVE  FromTables'
<1>1. ASSUME NEW i \in DOMAIN pending' PROVE pending'[i].eff \in TxEffects
  <2>1. CASE \E j \in DOMAIN pending : pending'[i] = pending[j] BY <2>1 DEF FromTables
  <2>2. CASE SendTx /\ pending'[i] = CurrentStep BY <2>2, StepIsTx DEF SendTx
  <2> QED BY <2>1, <2>2, PendingStep
<1>2. ASSUME NEW f \in Effect, chain'[f] > 0 PROVE f \in TxEffects
  <2>1. CASE chain[f] > 0 BY <2>1 DEF FromTables
  <2>2. CASE ~(chain[f] > 0) BY <1>2, <2>2, ChainStep DEF FromTables
  <2> QED BY <2>1, <2>2
<1> QED BY <1>1, <1>2 DEF FromTables

(* What only one script leaves comes from that script.                     *)
LEMMA BegunByItsScript ==
  ASSUME TypeOK, NEW m \in Market, NEW z \in DOMAIN Order[m], NEW f, Closes(m, z, f),
         AtStep({"deploy"} \cup TxKinds), CurrentStep.eff = f
  PROVE  market = m /\ pos = z
<1>1. /\ pos \in DOMAIN Order[market] /\ pc \in DOMAIN CurrentSteps
      /\ CurrentStep = Steps[market][CurrentScript][pc]
      /\ CurrentStep.kind \in {"deploy"} \cup TxKinds
  BY StepInTables
<1>2. /\ CurrentScript \in Script /\ market \in Market
      /\ pc \in DOMAIN Steps[market][CurrentScript]
  BY <1>1, CurrentInTables DEF TypeOK
<1>3. CurrentStep.kind # "unset"
  <2> SUFFICES ASSUME CurrentStep.kind = "unset" PROVE FALSE OBVIOUS
  <2>1. f \in EffectsOf(market, CurrentScript, {"unset"}) BY <1>1, <1>2 DEF EffectsOf
  <2>2. f \in Temporary BY <1>2, <2>1 DEF Temporary
  <2> QED BY <2>2 DEF Closes, Provides
<1>4. CurrentStep.kind \in Establishing BY <1>1, <1>3 DEF TxKinds, Establishing
<1>5. f \in EffectsOf(market, CurrentScript, Establishing) BY <1>1, <1>2, <1>4 DEF EffectsOf
<1>6. market = m /\ CurrentScript = Order[m][z] BY <1>2, <1>5 DEF Closes, OnlyLeftBy
<1> QED BY <1>1, <1>6 DEF Closes, CurrentScript

LEMMA ClosedInOrderStep ==
  ASSUME EngineInv, [Next]_vars,
         NEW m \in Market, NEW z \in DOMAIN Order[m], NEW f, Closes(m, z, f),
         ClosedInOrder(m, z, f)
  PROVE  ClosedInOrder(m, z, f)'
<1> USE DEF disk
<1>0. /\ TypeOK /\ Order[m] \in Seq(Script) /\ z \in 1 .. Len(Order[m]) /\ z \in Nat
      /\ DOMAIN Order[m] = 1 .. Len(Order[m]) /\ Len(Order[m]) \in Nat
  BY TablesAssumption DEF EngineInv
<1> SUFFICES ASSUME Begun(f)', NEW h \in 1 .. z - 1, Order[m][h] \in Records[m]
             PROVE  Recorded(m, Order[m][h])'
  BY DEF ClosedInOrder
<1>1. Recorded(m, Order[m][h]) => Recorded(m, Order[m][h])' BY RecordKeeps DEF Recorded
<1>2. CASE Begun(f) BY <1>1, <1>2 DEF ClosedInOrder
<1>3. CASE ~Begun(f)
  <2>1. AtStep({"deploy"} \cup TxKinds) /\ CurrentStep.eff = f
    <3>1. CASE f \in artifacts'
      <4>1. f \in artifacts' \ artifacts BY <1>3, <3>1 DEF Begun
      <4>2. Deploy
        BY <4>1 DEF Next, Progress, Mine, Launch, SkipRecorded, BeginScript, FinishScript,
          FinishRun, Throw, Check, ReadChain, SendTx, MineOrphan, MineAwaited, Crash, vars
      <4> QED BY <4>1, <4>2 DEF Deploy, AtStep
    <3>2. CASE chain'[f] > 0
      <4>1. f \in Effect
        <5>1. PICK k \in DOMAIN Steps[m][Order[m][z]] : f = Steps[m][Order[m][z]][k].eff
          BY DEF Closes, Provides, EffectsOf
        <5>2. Order[m][z] \in Script BY <1>0
        <5>3. Steps[m][Order[m][z]] \in Seq(Step) BY <5>2, TablesAssumption
        <5>4. Steps[m][Order[m][z]][k] \in Step BY <5>1, <5>3
        <5> QED BY <5>1, <5>4 DEF Step
      <4>2. ~(chain[f] > 0) /\ ~\E j \in DOMAIN pending : pending[j].eff = f
        BY <1>3 DEF Begun
      <4> QED BY <1>0, <3>2, <4>1, <4>2, ChainStep DEF EngineInv
    <3>3. CASE \E i \in DOMAIN pending' : pending'[i].eff = f
      <4>1. PICK i \in DOMAIN pending' : pending'[i].eff = f BY <3>3
      <4>2. ~\E j \in DOMAIN pending : pending[j].eff = f BY <1>3 DEF Begun
      <4>3. SendTx /\ pending'[i] = CurrentStep BY <1>0, <4>1, <4>2, PendingStep
      <4> QED BY <4>1, <4>3 DEF SendTx, AtStep
    <3> QED BY <3>1, <3>2, <3>3 DEF Begun
  <2>2. market = m /\ pos = z BY <1>0, <2>1, BegunByItsScript
  <2>3. h \in DOMAIN Order[market] /\ h < pos BY <1>0, <2>2
  <2>4. Recorded(m, Order[m][h]) BY <2>2, <2>3 DEF EngineInv, PassedAccounted
  <2> QED BY <1>1, <2>4
<1> QED BY <1>2, <1>3

(* What Closing pairs is a script and what only it leaves.                 *)
LEMMA ClosingIs ==
  ASSUME NEW m \in Market, NEW zf \in Closing[m]
  PROVE  /\ zf[1] \in DOMAIN Order[m]
         /\ zf[2] \in Provides(m, Order[m][zf[1]])
         /\ Closes(m, zf[1], zf[2])
<1>1. PICK z \in DOMAIN Order[m] :
        zf \in {<<z, f>> : f \in {g \in Provides(m, Order[m][z]) : Closes(m, z, g)}}
  BY DEF Closing
<1>2. PICK f \in Provides(m, Order[m][z]) : Closes(m, z, f) /\ zf = <<z, f>> BY <1>1
<1>3. zf[1] = z /\ zf[2] = f BY <1>2
<1> QED BY <1>2, <1>3

-----------------------------------------------------------------------------
(* A need that is not met was left to a script before this one, and not to *)
(* one that is known to have left it.                                      *)
LEMMA NeedMissing ==
  ASSUME EngineInv, TemporaryInPlace, InOrder(market),
         status \in {"running", "waiting"},
         pos \in DOMAIN Order[market], pc \in DOMAIN CurrentSteps,
         NEW n \in CurrentStep.needs, n \notin Held
  PROVE  /\ n \notin Temporary
         /\ n \notin OwnBefore(market, pos, pc)
         /\ \E h \in DOMAIN Order[market] :
              h < pos /\ n \in Provides(market, Order[market][h])
<1>0. TypeOK /\ market \in Market /\ pc \in DOMAIN Steps[market][Order[market][pos]]
  BY DEF EngineInv, TypeOK, CurrentSteps, CurrentScript
<1>1. CurrentStep = StepAt(market, pos, pc) BY <1>0, CurrentIsStepAt DEF CurrentStep
<1>2. /\ Order[market] \in Seq(Script) /\ DOMAIN Order[market] = 1 .. Len(Order[market])
      /\ Len(Order[market]) \in Nat /\ pos \in 1 .. Len(Order[market])
  BY <1>0, TablesAssumption
<1>3. n \notin Temporary BY DEF TemporaryInPlace
<1>4. n \notin OwnBefore(market, pos, pc) BY <1>0, <1>3, OwnIsHeld DEF EngineInv
<1>5. n \in LeftBefore(market, pos) BY <1>0, <1>1, <1>3, <1>4 DEF InOrder
<1>6. PICK h \in 1 .. pos - 1 : n \in Provides(market, Order[market][h])
  BY <1>5 DEF LeftBefore
<1>7. h \in DOMAIN Order[market] /\ h < pos BY <1>2
<1> QED BY <1>3, <1>4, <1>6, <1>7

LEMMA MissingIsIncomplete ==
  ASSUME NEW n, n \notin Held, NEW h \in DOMAIN Order[market],
         n \in Provides(market, Order[market][h])
  PROVE  ~Complete(market)
BY DEF Complete

(* A run that throws asks for what no transaction will bring.              *)
LEMMA ThrownForGood ==
  ASSUME EngineInv, OwnRecordsTrue, TemporaryInPlace, InOrder(market), ThrowsForGood(market),
         Throw
  PROVE  \E i \in DOMAIN Order[market] :
           ~(Provides(market, Order[market][i]) \subseteq TxEffects \cup artifacts)
<1>0. TypeOK /\ market \in Market BY DEF EngineInv, TypeOK
<1>1. /\ pos \in DOMAIN Order[market] /\ pc \in DOMAIN CurrentSteps /\ status = "running"
      /\ CurrentStep.kind \in {"require", "deploy"} /\ ~(CurrentStep.needs \subseteq Held)
  BY <1>0, StepInTables DEF Throw, AtStep, AtScript
<1>2. PICK n \in CurrentStep.needs : n \notin Held BY <1>1
<1>3. /\ n \notin Temporary /\ n \notin OwnBefore(market, pos, pc)
  BY <1>1, <1>2, NeedMissing
<1>4. /\ CurrentStep = StepAt(market, pos, pc)
      /\ pc \in DOMAIN Steps[market][Order[market][pos]]
  BY <1>0, <1>1, CurrentIsStepAt DEF CurrentStep, CurrentSteps, CurrentScript
<1>5. /\ Order[market] \in Seq(Script) /\ DOMAIN Order[market] = 1 .. Len(Order[market])
      /\ Len(Order[market]) \in Nat /\ pos \in 1 .. Len(Order[market])
  BY <1>0, <1>1, TablesAssumption
<1>6. n \in SeparateBefore(market, pos) \/ n \in LeftBefore(market, pos) \ TxEffects
  BY <1>1, <1>2, <1>3, <1>4 DEF ThrowsForGood
<1>7. ASSUME n \in SeparateBefore(market, pos) PROVE FALSE
  <2>1. PICK h \in {g \in 1 .. pos - 1 : Separate(market, Order[market][g])} :
          n \in Provides(market, Order[market][h])
    BY <1>7 DEF SeparateBefore
  <2>2. h \in DOMAIN Order[market] /\ h < pos /\ Order[market][h] \in Script BY <1>5
  <2>3. Recorded(market, Order[market][h]) => Provides(market, Order[market][h]) \subseteq Held
    BY <1>0, <2>2 DEF OwnRecordsTrue
  <2> QED BY <1>0, <1>2, <2>1, <2>2, <2>3, PassedIsHeld DEF EngineInv
<1>8. CASE n \in LeftBefore(market, pos) \ TxEffects
  <2>1. PICK h \in 1 .. pos - 1 : n \in Provides(market, Order[market][h])
    BY <1>8 DEF LeftBefore
  <2>2. h \in DOMAIN Order[market] /\ n \notin artifacts BY <1>2, <1>5 DEF Held
  <2> QED BY <1>8, <2>1, <2>2
<1> QED BY <1>6, <1>7, <1>8

(* Once the facts that close the market hold, what the run is about to do  *)
(* only once would be on record, and the script passed over.               *)
LEMMA RepeatMeansIncomplete ==
  ASSUME EngineInv, NotYetRecorded, Repeatable(market),
         \A zf \in Closing[market] : ClosedInOrder(market, zf[1], zf[2]),
         pos \in DOMAIN Order[market], pc \in DOMAIN CurrentSteps, CurrentStep.kind = "once"
  PROVE  ~Complete(market)
<1> SUFFICES ASSUME Complete(market) PROVE FALSE OBVIOUS
<1>0. TypeOK /\ market \in Market /\ pc \in DOMAIN Steps[market][CurrentScript] /\ pc > 0
  BY CurrentInTables DEF EngineInv, TypeOK, CurrentSteps
<1>1. PICK zf \in Closing[market] : OnceBefore(market, zf[1]) BY DEF Repeatable
<1>2. /\ zf[1] \in DOMAIN Order[market] /\ zf[2] \in Provides(market, Order[market][zf[1]])
  BY <1>0, ClosingIs
<1>3. zf[2] \in Held BY <1>2 DEF Complete
<1>4. Begun(zf[2]) BY <1>3 DEF Begun, Held
<1>5. CurrentStep.eff \in EffectsOf(market, Order[market][pos], {"once"})
  BY <1>0 DEF EffectsOf, CurrentStep, CurrentSteps, CurrentScript
<1>6. pos < zf[1] /\ Order[market][pos] \in Records[market] BY <1>1, <1>5 DEF OnceBefore
<1>7. pos \in 1 .. zf[1] - 1
  <2>1. Order[market] \in Seq(Script) BY <1>0, TablesAssumption
  <2> QED BY <1>2, <1>6, <2>1
<1>8. Recorded(market, Order[market][pos]) BY <1>1, <1>4, <1>6, <1>7 DEF ClosedInOrder
<1> QED BY <1>0, <1>8 DEF NotYetRecorded, CurrentScript

(* A refused transaction finds the market incomplete, and nothing pending. *)
LEMMA RefusedForGood ==
  ASSUME EngineInv, NotYetRecorded, TemporaryInPlace, Repeatable(market),
         \A zf \in Closing[market] : ClosedInOrder(market, zf[1], zf[2]),
         MineAwaited, status' = "failed"
  PROVE  pending' = <<>> /\ ~Complete(market)'
<1> USE DEF disk
<1>1. /\ pos \in DOMAIN Order[market] /\ pc \in DOMAIN CurrentSteps
      /\ pending \in Seq(Step) /\ pending # <<>> /\ Len(pending) = 1
      /\ Head(pending) = CurrentStep /\ status = "waiting"
  BY DEF MineAwaited, EngineInv, AwaitedIsLast, TypeOK
<1>2. /\ ~Accepted(CurrentStep) /\ UNCHANGED <<market, artifacts>>
      /\ chain' = Mined(CurrentStep) /\ pending' = <<>>
  BY <1>1 DEF MineAwaited
<1>3. chain' = chain BY <1>2 DEF Mined
<1>4. ~Complete(market)
  <2>1. CASE CurrentStep.needs \subseteq Held
    <3>1. CurrentStep.kind = "once" BY <1>2, <2>1 DEF Accepted
    <3> QED BY <1>1, <3>1, RepeatMeansIncomplete
  <2>2. CASE ~(CurrentStep.needs \subseteq Held)
    <3>1. PICK n \in CurrentStep.needs : n \notin Held BY <2>2
    <3>2. PICK h \in DOMAIN Order[market] : n \in Provides(market, Order[market][h])
      BY <1>1, <3>1, NeedMissing DEF Repeatable
    <3> QED BY <3>1, <3>2, MissingIsIncomplete
  <2> QED BY <2>1, <2>2
<1> QED BY <1>2, <1>3, <1>4 DEF Complete, Held

LEMMA FailedForGoodStep ==
  ASSUME EngineInv, OwnRecordsTrue, NotYetRecorded, [Next]_vars,
         market' \in MayRepeat,
         market \in MayRepeat => TemporaryInPlace /\ FailedForGood,
         \A zf \in Closing[market] : ClosedInOrder(market, zf[1], zf[2])
  PROVE  FailedForGood'
<1> USE DEF disk
<1> SUFFICES ASSUME status' = "failed"
             PROVE  \/ pending' = <<>> /\ ~Complete(market)'
                    \/ \E i \in DOMAIN Order[market'] :
                         ~(Provides(market', Order[market'][i]) \subseteq TxEffects \cup artifacts')
  BY DEF FailedForGood, Complete
<1>1. \/ Throw /\ UNCHANGED <<market, artifacts>>
      \/ MineAwaited /\ UNCHANGED market
      \/ MineOrphan /\ pending # <<>> /\ UNCHANGED <<market, artifacts, status>>
      \/ UNCHANGED <<market, artifacts, chain, pending, status>>
  BY DEF Next, Progress, Mine, Launch, SkipRecorded, BeginScript, FinishScript, FinishRun,
    Throw, Check, Deploy, ReadChain, SendTx, MineOrphan, MineAwaited, Crash, AtStep, AtScript,
    vars
<1>2. UNCHANGED market BY <1>1
<1>3. /\ TemporaryInPlace /\ FailedForGood /\ Repeatable(market)
      /\ InOrder(market) /\ ThrowsForGood(market)
  BY <1>2 DEF MayRepeat, Repeatable
<1>4. CASE Throw /\ UNCHANGED <<market, artifacts>> BY <1>3, <1>4, ThrownForGood
<1>5. CASE MineAwaited BY <1>3, <1>5, RefusedForGood
<1>6. CASE MineOrphan /\ pending # <<>> /\ UNCHANGED <<market, artifacts, status>>
  BY <1>3, <1>6 DEF FailedForGood
<1>7. CASE UNCHANGED <<market, artifacts, chain, pending, status>>
  BY <1>3, <1>7 DEF FailedForGood, Complete, Held
<1> QED BY <1>1, <1>4, <1>5, <1>6, <1>7

-----------------------------------------------------------------------------
(* What a market's last scripts leave is there only when what can be done  *)
(* only once is on record: whatever markets there are, whether or not the  *)
(* ids of other scripts clash, and however often runs are killed.          *)
THEOREM RerunInvariant == Spec => []RerunInv
<1>1. Init => RerunInv /\ OwnRecordsTrue
  <2> SUFFICES ASSUME Init PROVE RerunInv /\ OwnRecordsTrue OBVIOUS
  <2>1. NotYetRecorded /\ TemporaryInPlace /\ FailedForGood
    BY DEF Init, NotYetRecorded, TemporaryInPlace, FailedForGood
  <2>2. FromTables BY DEF Init, FromTables
  <2>3. OwnRecordsTrue BY DEF Init, OwnRecordsTrue, Recorded
  <2>4. ASSUME NEW m \in Market, NEW zf \in Closing[m] PROVE ClosedInOrder(m, zf[1], zf[2])
    <3>1. zf[1] \in DOMAIN Order[m] /\ zf[2] \in Provides(m, Order[m][zf[1]])
      BY ClosingIs
    <3>2. Order[m][zf[1]] \in Script /\ Steps[m][Order[m][zf[1]]] \in Seq(Step)
      <4>1. Order[m] \in Seq(Script) BY TablesAssumption
      <4>2. Order[m][zf[1]] \in Script BY <3>1, <4>1
      <4> QED BY <4>2, TablesAssumption
    <3>3. PICK k \in DOMAIN Steps[m][Order[m][zf[1]]] : zf[2] = Steps[m][Order[m][zf[1]]][k].eff
      BY <3>1 DEF Provides, EffectsOf
    <3>4. Steps[m][Order[m][zf[1]]][k] \in Step BY <3>2, <3>3
    <3>5. zf[2] \in Effect BY <3>3, <3>4 DEF Step
    <3>6. ~Begun(zf[2]) BY <3>5 DEF Init, Begun
    <3> QED BY <3>6 DEF ClosedInOrder
  <2> QED BY <2>1, <2>2, <2>3, <2>4 DEF RerunInv
<1>2. EngineInv /\ RerunInv /\ OwnRecordsTrue /\ [Next]_vars => (RerunInv /\ OwnRecordsTrue)'
  <2> SUFFICES ASSUME EngineInv, RerunInv, OwnRecordsTrue, [Next]_vars
               PROVE  RerunInv' /\ OwnRecordsTrue'
    OBVIOUS
  <2>0. TypeOK /\ AwaitedIsLast /\ market \in Market BY DEF EngineInv, TypeOK
  <2>1. FromTables' BY <2>0, FromTablesStep DEF RerunInv
  <2>2. NotYetRecorded' BY <2>0, NotYetRecordedStep DEF RerunInv
  <2>3. OwnRecordsTrue' BY OwnRecordsStep
  <2>4. \A m \in Market : \A zf \in Closing[m] : ClosedInOrder(m, zf[1], zf[2])'
    <3> SUFFICES ASSUME NEW m \in Market, NEW zf \in Closing[m]
                 PROVE  ClosedInOrder(m, zf[1], zf[2])'
      OBVIOUS
    <3>1. ClosedInOrder(m, zf[1], zf[2]) BY DEF RerunInv
    <3> QED BY <3>1, ClosingIs, ClosedInOrderStep
  <2>5. ASSUME market' \in MayRepeat PROVE TemporaryInPlace' /\ FailedForGood'
    <3>1. FailedForGood' BY <2>0, <2>5, FailedForGoodStep DEF RerunInv
    <3>2. CASE UNCHANGED market
      <4>1. TemporaryInPlace /\ InOrder(market)
        BY <2>5, <3>2 DEF RerunInv, MayRepeat, Repeatable
      <4> QED BY <3>1, <4>1, TemporaryStep
    <3>3. CASE ~UNCHANGED market
      <4>1. Launch
        BY <3>3 DEF Next, Progress, Mine, SkipRecorded, BeginScript, FinishScript, FinishRun,
          Throw, Check, Deploy, ReadChain, SendTx, MineOrphan, MineAwaited, Crash, vars
      <4>2. pc' = 0 BY <4>1 DEF Launch
      <4>3. TypeOK' BY <2>0, TypeStep
      <4>4. ASSUME pos' \in DOMAIN Order[market'] PROVE pc' \notin DOMAIN CurrentSteps'
        <5>1. Order[market'] \in Seq(Script) BY <4>3, TablesAssumption DEF TypeOK
        <5>2. CurrentScript' \in Script BY <4>4, <5>1 DEF CurrentScript
        <5>3. CurrentSteps' \in Seq(Step)
          BY <4>3, <5>2, TablesAssumption DEF CurrentSteps, TypeOK
        <5> QED BY <4>2, <5>3
      <4> QED BY <3>1, <4>4 DEF TemporaryInPlace
    <3> QED BY <3>2, <3>3
  <2> QED BY <2>1, <2>2, <2>3, <2>4, <2>5 DEF RerunInv
<1> QED BY <1>1, <1>2, EngineInvariant, PTL DEF Spec

(* A market whose tables say so may be deployed again once it is complete: *)
(* no run for it fails, whatever runs for other markets did in between.    *)
THEOREM CompleteReruns == Spec => [](market \in MayRepeat => CompleteMarketReruns)
<1>1. RerunInv => (market \in MayRepeat => CompleteMarketReruns)
  <2> SUFFICES ASSUME RerunInv, market \in MayRepeat, status = "failed", Complete(market)
               PROVE  FALSE
    BY DEF CompleteMarketReruns
  <2>1. PICK i \in DOMAIN Order[market] :
          ~(Provides(market, Order[market][i]) \subseteq TxEffects \cup artifacts)
    BY DEF RerunInv, FailedForGood
  <2>2. Held \subseteq TxEffects \cup artifacts BY DEF RerunInv, FromTables, Held
  <2> QED BY <2>1, <2>2 DEF Complete
<1> QED BY <1>1, RerunInvariant, PTL

-----------------------------------------------------------------------------
(* Steps of A below p, and below q.                                        *)
LEMMA CountBelow ==
  ASSUME NEW A \in SUBSET Nat, IsFiniteSet(A), NEW p \in Nat, NEW q \in Nat, p <= q
  PROVE  /\ Cardinality({j \in A : j < p}) \in Nat
         /\ Cardinality({j \in A : j < q}) \in Nat
         /\ Cardinality(A) \in Nat
         /\ Cardinality({j \in A : j < p}) <= Cardinality({j \in A : j < q})
         /\ Cardinality({j \in A : j < p}) <= Cardinality(A)
         /\ p \in A => Cardinality({j \in A : j < p}) + 1 <= Cardinality(A)
         /\ p \in A /\ p < q =>
              Cardinality({j \in A : j < p}) + 1 <= Cardinality({j \in A : j < q})
<1> DEFINE P == {j \in A : j < p}
           Q == {j \in A : j < q}
<1>0. \A j \in Nat : j < p => j < q OBVIOUS
<1>1. P \in SUBSET A /\ Q \in SUBSET A /\ P \in SUBSET Q BY <1>0
<1>2. /\ IsFiniteSet(P) /\ Cardinality(P) <= Cardinality(A)
      /\ IsFiniteSet(Q) /\ Cardinality(P) <= Cardinality(Q)
  BY <1>1, FS_Subset
<1>3. Cardinality(P) \in Nat /\ Cardinality(Q) \in Nat /\ Cardinality(A) \in Nat
  BY <1>2, FS_CardinalityType
<1>4. Cardinality(P \cup {p}) = Cardinality(P) + 1
  <2>1. p \notin P OBVIOUS
  <2> QED BY <1>2, <2>1, FS_AddElement
<1>5. p \in A => Cardinality(P) + 1 <= Cardinality(A)
  <2> SUFFICES ASSUME p \in A PROVE Cardinality(P) + 1 <= Cardinality(A) OBVIOUS
  <2>1. P \cup {p} \in SUBSET A OBVIOUS
  <2>2. Cardinality(P \cup {p}) <= Cardinality(A) BY <2>1, FS_Subset
  <2> QED BY <1>4, <2>2
<1>6. p \in A /\ p < q => Cardinality(P) + 1 <= Cardinality(Q)
  <2> SUFFICES ASSUME p \in A, p < q PROVE Cardinality(P) + 1 <= Cardinality(Q) OBVIOUS
  <2>1. P \cup {p} \in SUBSET Q BY <1>0
  <2>2. Cardinality(P \cup {p}) <= Cardinality(Q) BY <1>2, <2>1, FS_Subset
  <2> QED BY <1>4, <2>2
<1> QED BY <1>2, <1>3, <1>5, <1>6

(* The transaction a run is at, on f, is an addition beyond step k.        *)
LEMMA AtAdd ==
  ASSUME TypeOK, NEW f, NEW k \in Nat \ {0}, NEW e, NEW A, AddsBehind(f, k, e, A),
         pos \in DOMAIN Order[market], pc \in DOMAIN CurrentSteps,
         CurrentStep.kind \in TxKinds, CurrentStep.eff = f
  PROVE  /\ pc \in A /\ pc > k
         /\ status \in {"running", "waiting"} => Adding(f, k)
<1>1. /\ CurrentScript \in Script /\ market \in Market
      /\ pc \in DOMAIN Steps[market][CurrentScript]
      /\ CurrentStep = Steps[market][CurrentScript][pc]
  BY CurrentInTables DEF CurrentStep, TypeOK
<1>2. CurrentStep.kind = "add" BY <1>1 DEF AddsBehind
<1>3. pc \in AddsOf(market, CurrentScript, f) BY <1>1, <1>2 DEF AddsOf
<1>4. AddsOf(market, CurrentScript, f) = A /\ \A j \in A : k < j
  BY <1>1, <1>3 DEF AddsBehind
<1>5. pc > k BY <1>3, <1>4
<1> QED BY <1>3, <1>4, <1>5 DEF Adding

(* A run gets beyond step k by an accepted transaction only.               *)
LEMMA GetsBeyond ==
  ASSUME EngineInv, [Next]_vars, NEW f, NEW k \in Nat \ {0}, NEW e, NEW A,
         AddsBehind(f, k, e, A), ~Adding(f, k), Adding(f, k)'
  PROVE  /\ MineAwaited /\ status' = "running" /\ pending' = <<>>
         /\ pending # <<>> /\ Head(pending) = CurrentStep /\ CurrentStep \in Step
         /\ Accepted(CurrentStep) /\ CurrentStep.kind = "once" /\ CurrentStep.eff = e
<1> USE DEF disk
<1>0. TypeOK /\ pc \in Nat /\ k >= 1 BY DEF EngineInv, TypeOK
<1>1. /\ status' \in {"running", "waiting"} /\ pos' \in DOMAIN Order[market']
      /\ AddsOf(market', CurrentScript', f) # {} /\ pc' > k
  BY DEF Adding
<1>2. ASSUME UNCHANGED <<market, pos>>, status \in {"running", "waiting"}
      PROVE  /\ pos \in DOMAIN Order[market] /\ pc <= k
             /\ CurrentScript \in Script /\ CurrentSteps = Steps[market][CurrentScript]
             /\ CurrentSteps[k].kind = "once" /\ CurrentSteps[k].eff = e
             /\ ~Guarded(market, CurrentScript, k)
  <2>1. CurrentScript' = CurrentScript /\ pos \in DOMAIN Order[market]
    BY <1>1, <1>2 DEF CurrentScript
  <2>2. CurrentScript \in Script /\ market \in Market /\ CurrentSteps = Steps[market][CurrentScript]
    BY <1>0, <2>1, CurrentInTables DEF TypeOK
  <2>3. AddsOf(market, CurrentScript, f) # {} BY <1>1, <1>2, <2>1
  <2>4. ~(pc > k) BY <1>2, <2>1, <2>3 DEF Adding
  <2> QED BY <1>0, <2>1, <2>2, <2>3, <2>4 DEF AddsBehind
<1>3. ASSUME pc' \in {0, 1} PROVE FALSE BY <1>0, <1>1, <1>3
<1>4. ASSUME UNCHANGED <<market, pos, pc>>, status \in {"running", "waiting"} PROVE FALSE
  BY <1>0, <1>1, <1>2, <1>4
<1>5. ASSUME Launch \/ SkipRecorded \/ BeginScript \/ FinishScript PROVE FALSE
  <2> pc' \in {0, 1} BY <1>0, <1>5 DEF Launch, SkipRecorded, BeginScript, FinishScript
  <2> QED BY <1>3
<1>6. ASSUME SendTx \/ MineOrphan \/ UNCHANGED vars PROVE FALSE
  <2> UNCHANGED <<market, pos, pc>> /\ status \in {"running", "waiting"}
    BY <1>1, <1>6 DEF SendTx, MineOrphan, AtStep, AtScript, vars
  <2> QED BY <1>4
<1>7. ASSUME FinishRun \/ Throw \/ Crash PROVE FALSE
  BY <1>1, <1>7 DEF FinishRun, Throw, Crash
<1>8. ASSUME Check \/ Deploy PROVE FALSE
  <2>1. /\ UNCHANGED <<market, pos>> /\ pc' = pc + 1 /\ status = "running"
        /\ CurrentSteps[pc].kind # "once"
    BY <1>0, <1>8, StepInTables DEF Check, Deploy, AtStep, AtScript, CurrentStep
  <2>2. pc = k BY <1>0, <1>1, <1>2, <2>1
  <2> QED BY <1>2, <2>1, <2>2
<1>9. ASSUME ReadChain PROVE FALSE
  <2>1. /\ UNCHANGED <<market, pos>> /\ status = "running"
        /\ CurrentStep \in Step /\ CurrentStep = CurrentSteps[pc]
        /\ CurrentSteps[pc].kind = "unless" /\ pc \in 1 .. Len(CurrentSteps)
    BY <1>0, <1>9, StepInTables DEF ReadChain, AtStep, AtScript, CurrentStep
  <2>2. CurrentStep.skip \in Nat BY <2>1 DEF Step
  <2>3. pc' \in {pc + 1, pc + 1 + CurrentStep.skip} BY <1>9 DEF ReadChain
  <2>4. pc # k BY <1>2, <2>1
  <2>5. pc \in 1 .. k - 1 /\ k <= pc + CurrentStep.skip
    BY <1>0, <1>1, <1>2, <2>1, <2>2, <2>3, <2>4
  <2> QED BY <1>2, <2>1, <2>5 DEF Guarded
<1>10. MineAwaited
  BY <1>5, <1>6, <1>7, <1>8, <1>9 DEF Next, Progress, Mine
<1>11. /\ pending \in Seq(Step) /\ pending # <<>> /\ Len(pending) = 1
       /\ Head(pending) = CurrentStep /\ status = "waiting"
  BY <1>10 DEF MineAwaited, EngineInv, AwaitedIsLast, TypeOK
<1>12. /\ Accepted(CurrentStep) /\ pc' = pc + 1 /\ status' = "running" /\ pending' = <<>>
       /\ UNCHANGED <<market, pos>>
  BY <1>1, <1>10, <1>11 DEF MineAwaited
<1>13. pc = k BY <1>0, <1>1, <1>2, <1>11, <1>12
<1>14. CurrentStep \in Step
  <2>1. Head(pending) \in Step BY <1>11
  <2> QED BY <1>11, <2>1
<1> QED BY <1>2, <1>10, <1>11, <1>12, <1>13, <1>14 DEF CurrentStep

(* A step may take a process beyond step k, leave it there, take it away,  *)
(* or happen with no process there.                                        *)
LEMMA AddInvBegins ==
  ASSUME EngineInv, [Next]_vars, NEW f \in Effect, NEW k \in Nat \ {0}, NEW e \in Effect,
         NEW A \in SUBSET Nat, IsFiniteSet(A), e # f,
         AddsBehind(f, k, e, A), AddInv(f, k, e, A), ~Adding(f, k), Adding(f, k)'
  PROVE  AddInv(f, k, e, A)'
<1>1. /\ MineAwaited /\ status' = "running" /\ pending' = <<>>
      /\ pending # <<>> /\ Head(pending) = CurrentStep /\ CurrentStep \in Step
      /\ Accepted(CurrentStep) /\ CurrentStep.kind = "once" /\ CurrentStep.eff = e
  BY GetsBeyond
<1>2. chain \in [Effect -> Nat] /\ chain' = Mined(CurrentStep)
  BY <1>1 DEF MineAwaited, EngineInv, TypeOK
<1>3. chain[e] = 0 /\ chain'[e] > 0 BY <1>1, <1>2, MinedGives DEF Accepted
<1>4. chain'[f] = 0
  <2>1. chain[f] = 0 BY <1>3 DEF AddInv
  <2> QED BY <1>1, <1>2, <2>1 DEF Mined
<1>5. pc' \in Nat
  <2>1. TypeOK' BY TypeStep DEF EngineInv
  <2> QED BY <2>1 DEF TypeOK
<1>6. Cardinality({j \in A : j < pc'}) \in Nat BY <1>5, CountBelow
<1>7. chain'[f] <= Cardinality({j \in A : j < pc'}) BY <1>4, <1>6
<1>8. PendingOn(f)' = {} BY <1>1 DEF PendingOn
<1> QED BY <1>3, <1>7, <1>8 DEF AddInv

\* What a process beyond step k does, it does in its script.
LEMMA AddingActions ==
  ASSUME EngineInv, [Next]_vars, NEW f, NEW k \in Nat \ {0}, Adding(f, k)
  PROVE  \/ Check \/ Deploy \/ ReadChain \/ SendTx \/ MineOrphan \/ MineAwaited \/ UNCHANGED vars
         \/ FinishScript \/ Throw \/ Crash
<1>1. /\ status \in {"running", "waiting"} /\ pos \in DOMAIN Order[market]
      /\ pc > k /\ pc \in Nat /\ k >= 1 /\ Order[market] \in Seq(Script)
  BY TablesAssumption DEF Adding, EngineInv, TypeOK
<1>2. pc # 0 /\ pos # Len(Order[market]) + 1 BY <1>1
<1> QED BY <1>1, <1>2 DEF Next, Progress, Mine, Launch, SkipRecorded, BeginScript, FinishRun

LEMMA AddInvGoesOn ==
  ASSUME EngineInv, [Next]_vars, NEW f \in Effect, NEW k \in Nat \ {0},
         NEW e \in Effect \ Temporary, NEW A \in SUBSET Nat, IsFiniteSet(A),
         AddsBehind(f, k, e, A), AddInv(f, k, e, A), Adding(f, k), Adding(f, k)'
  PROVE  AddInv(f, k, e, A)'
<1> USE DEF disk
<1>0. /\ TypeOK /\ pc \in Nat /\ pc' \in Nat /\ chain \in [Effect -> Nat]
      /\ pending \in Seq(Step) /\ Len(pending) \in Nat
  <2>1. TypeOK /\ TypeOK' BY TypeStep DEF EngineInv
  <2>2. pc \in Nat /\ pc' \in Nat BY <2>1 DEF TypeOK
  <2>3. chain \in [Effect -> Nat] /\ pending \in Seq(Step) BY <2>1 DEF TypeOK
  <2> QED BY <2>1, <2>2, <2>3
<1>1. /\ status \in {"running", "waiting"} /\ pos \in DOMAIN Order[market]
      /\ status' \in {"running", "waiting"} /\ pc' > k /\ k >= 1
  BY DEF Adding
<1>2. /\ chain[f] <= Cardinality({j \in A : j < pc})
      /\ PendingOn(f) \subseteq IF status = "waiting" THEN {Len(pending)} ELSE {}
  BY DEF AddInv
<1>3. chain'[e] > 0
  <2>1. chain[e] > 0 BY <1>0 DEF AddInv
  <2> QED BY <1>0, <2>1, ChainKeeps DEF EngineInv
<1>4. ASSUME chain'[f] <= Cardinality({j \in A : j < pc'}),
             PendingOn(f)' \subseteq IF status' = "waiting" THEN {Len(pending')} ELSE {}
      PROVE  AddInv(f, k, e, A)'
  BY <1>3, <1>4 DEF AddInv
<1>5. ASSUME chain'[f] = chain[f], pc <= pc'
      PROVE  chain'[f] <= Cardinality({j \in A : j < pc'})
  <2>1. /\ Cardinality({j \in A : j < pc}) <= Cardinality({j \in A : j < pc'})
        /\ Cardinality({j \in A : j < pc}) \in Nat /\ Cardinality({j \in A : j < pc'}) \in Nat
    BY <1>0, <1>5, CountBelow
  <2> QED BY <1>0, <1>2, <1>5, <2>1
<1>6. CASE Check \/ Deploy \/ ReadChain \/ UNCHANGED vars
  <2>1. UNCHANGED <<chain, pending, status>>
    BY <1>6 DEF Check, Deploy, ReadChain, vars
  <2>2. pc <= pc'
    <3>1. CASE Check \/ Deploy \/ UNCHANGED vars
      BY <1>0, <3>1 DEF Check, Deploy, vars
    <3>2. CASE ReadChain
      <4>1. CurrentStep.skip \in Nat BY <1>0, <3>2, StepInTables DEF ReadChain, Step
      <4>2. pc' \in {pc + 1, pc + 1 + CurrentStep.skip} BY <3>2 DEF ReadChain
      <4> QED BY <1>0, <4>1, <4>2
    <3> QED BY <1>6, <3>1, <3>2
  <2> QED BY <1>2, <1>4, <1>5, <2>1, <2>2 DEF PendingOn
<1>7. CASE SendTx
  <2>1. /\ UNCHANGED <<chain, pc>> /\ pending' = Append(pending, CurrentStep)
        /\ status = "running" /\ status' = "waiting" /\ CurrentStep \in Step
    BY <1>0, <1>7, StepInTables DEF SendTx, AtStep, AtScript
  <2>2. PendingOn(f) = {} BY <1>2, <2>1
  <2>3. ASSUME NEW i \in DOMAIN pending', pending'[i].eff = f PROVE i = Len(pending')
    <3>1. i \in DOMAIN pending => pending'[i] = pending[i] BY <1>0, <2>1, <2>3
    <3>2. i \notin DOMAIN pending BY <2>2, <2>3, <3>1 DEF PendingOn
    <3> QED BY <1>0, <2>1, <2>3, <3>2
  <2>4. PendingOn(f)' \subseteq {Len(pending')} BY <2>3 DEF PendingOn
  <2>5. pc <= pc' BY <1>0, <2>1
  <2> QED BY <1>4, <1>5, <2>1, <2>4, <2>5
<1>8. CASE MineOrphan
  <2>1. /\ UNCHANGED <<status, pc>> /\ pending # <<>> /\ (status = "waiting" => Len(pending) > 1)
        /\ pending' = Tail(pending) /\ chain' = Mined(Head(pending))
    BY <1>8 DEF MineOrphan
  <2>2. /\ Head(pending) = pending[1] /\ 1 \in DOMAIN pending /\ Head(pending) \in Step
        /\ Len(pending') = Len(pending) - 1
        /\ \A i \in DOMAIN pending' : i \in Nat /\ i + 1 \in DOMAIN pending /\ pending'[i] = pending[i + 1]
    BY <1>0, <2>1
  <2>3. Head(pending).eff # f
    <3> SUFFICES ASSUME Head(pending).eff = f PROVE FALSE OBVIOUS
    <3>1. 1 \in PendingOn(f) BY <2>2 DEF PendingOn
    <3>2. status = "waiting" /\ Len(pending) = 1 BY <1>2, <3>1
    <3>3. Len(pending) > 1 BY <2>1, <3>2
    <3> QED BY <1>0, <3>2, <3>3
  <2>4. chain'[f] = chain[f] BY <1>0, <2>1, <2>2, <2>3 DEF Mined, Step
  <2>5. ASSUME NEW i \in DOMAIN pending', pending'[i].eff = f
        PROVE  status' = "waiting" /\ i = Len(pending')
    <3>1. i + 1 \in PendingOn(f) BY <2>2, <2>5 DEF PendingOn
    <3>2. status = "waiting" /\ i + 1 = Len(pending) BY <1>2, <3>1
    <3> QED BY <1>0, <2>1, <2>2, <3>2
  <2>6. PendingOn(f)' \subseteq IF status' = "waiting" THEN {Len(pending')} ELSE {}
    BY <2>5 DEF PendingOn
  <2>7. pc <= pc' BY <1>0, <2>1
  <2> QED BY <1>4, <1>5, <2>4, <2>6, <2>7
<1>9. CASE MineAwaited
  <2>1. /\ pending # <<>> /\ Len(pending) = 1 /\ Head(pending) = CurrentStep /\ status = "waiting"
        /\ pc \in DOMAIN CurrentSteps /\ CurrentStep.kind \in TxKinds
    BY <1>9, <1>0 DEF MineAwaited, EngineInv, AwaitedIsLast
  <2>2. /\ Accepted(CurrentStep) /\ pc' = pc + 1 /\ pending' = <<>> /\ status' = "running"
        /\ chain' = Mined(CurrentStep)
    BY <1>1, <1>9, <2>1 DEF MineAwaited
  <2>3. CurrentStep \in Step
    <3>1. Head(pending) \in Step BY <1>0, <2>1
    <3> QED BY <2>1, <3>1
  <2>4. PendingOn(f)' = {} BY <2>2 DEF PendingOn
  <2>5. CASE CurrentStep.eff # f
    <3>1. chain'[f] = chain[f] BY <1>0, <2>2, <2>3, <2>5 DEF Mined, Step
    <3>2. pc <= pc' BY <1>0, <2>2
    <3> QED BY <1>4, <1>5, <2>4, <3>1, <3>2
  <2>6. CASE CurrentStep.eff = f
    <3>1. pc \in A BY <1>0, <1>1, <2>1, <2>6, AtAdd
    <3>2. pc <= pc' /\ pc < pc' BY <1>0, <2>2
    <3>3. /\ Cardinality({j \in A : j < pc}) + 1 <= Cardinality({j \in A : j < pc'})
          /\ Cardinality({j \in A : j < pc}) \in Nat /\ Cardinality({j \in A : j < pc'}) \in Nat
      BY <1>0, <3>1, <3>2, CountBelow
    <3>4. chain'[f] \in {0, 1, chain[f] + 1} /\ chain[f] \in Nat
      BY <1>0, <2>2, <2>3, <2>6 DEF Mined, Step
    <3>5. chain'[f] <= Cardinality({j \in A : j < pc'}) BY <1>2, <3>3, <3>4
    <3> QED BY <1>4, <2>4, <3>5
  <2> QED BY <2>5, <2>6
<1>10. CASE FinishScript \/ Throw \/ Crash
  <2>1. pc' = 0 \/ status' \notin {"running", "waiting"}
    BY <1>10 DEF FinishScript, Throw, Crash
  <2> QED BY <1>1, <2>1
<1> QED BY <1>6, <1>7, <1>8, <1>9, <1>10, AddingActions

LEMMA AddInvStops ==
  ASSUME EngineInv, [Next]_vars, NEW f \in Effect, NEW k \in Nat \ {0},
         NEW e \in Effect \ Temporary, NEW A \in SUBSET Nat, IsFiniteSet(A),
         AddsBehind(f, k, e, A), AddInv(f, k, e, A), Adding(f, k), ~Adding(f, k)'
  PROVE  AddInv(f, k, e, A)'
<1> USE DEF disk
<1>0. /\ TypeOK /\ pc \in Nat /\ chain \in [Effect -> Nat]
      /\ pending \in Seq(Step) /\ Len(pending) \in Nat
  <2>1. TypeOK BY DEF EngineInv
  <2>2. pc \in Nat BY <2>1 DEF TypeOK
  <2>3. chain \in [Effect -> Nat] /\ pending \in Seq(Step) BY <2>1 DEF TypeOK
  <2> QED BY <2>1, <2>2, <2>3
<1>1. /\ status \in {"running", "waiting"} /\ pos \in DOMAIN Order[market]
      /\ AddsOf(market, CurrentScript, f) # {} /\ pc > k /\ k >= 1
  BY DEF Adding
<1>2. /\ chain[f] <= Cardinality({j \in A : j < pc})
      /\ PendingOn(f) \subseteq IF status = "waiting" THEN {Len(pending)} ELSE {}
  BY DEF AddInv
<1>3. chain'[e] > 0
  <2>1. chain[e] > 0 BY <1>0 DEF AddInv
  <2> QED BY <1>0, <2>1, ChainKeeps DEF EngineInv
<1>4. chain[f] <= Cardinality(A)
  <2>1. /\ Cardinality({j \in A : j < pc}) \in Nat /\ Cardinality(A) \in Nat
        /\ Cardinality({j \in A : j < pc}) <= Cardinality(A)
    <3>1. pc <= pc BY <1>0
    <3> QED BY <1>0, <3>1, CountBelow
  <2> QED BY <1>0, <1>2, <2>1
<1>5. ASSUME UNCHANGED chain, \A i, j \in PendingOn(f)' : i = j /\ chain[f] < Cardinality(A)
      PROVE  AddInv(f, k, e, A)'
  BY <1>3, <1>4, <1>5 DEF AddInv
\* A process at work stays so, unless it ends its script, fails or is killed.
<1>6. ASSUME UNCHANGED <<market, pos>>, status' \in {"running", "waiting"}, pc' \in Nat, pc <= pc'
      PROVE  FALSE
  <2>1. pc' > k BY <1>0, <1>1, <1>6
  <2> QED BY <1>1, <1>6, <2>1 DEF Adding, CurrentScript
<1>7. ASSUME Check \/ Deploy \/ SendTx \/ MineOrphan \/ UNCHANGED vars PROVE FALSE
  <2>1. /\ UNCHANGED <<market, pos>> /\ status' \in {status, "waiting"} /\ pc' \in {pc, pc + 1}
    BY <1>7 DEF Check, Deploy, SendTx, MineOrphan, vars
  <2>2. pc' \in Nat /\ pc <= pc' BY <1>0, <2>1
  <2> QED BY <1>1, <1>6, <2>1, <2>2
<1>8. ASSUME ReadChain PROVE FALSE
  <2>1. CurrentStep.skip \in Nat BY <1>0, <1>8, StepInTables DEF ReadChain, Step
  <2>2. UNCHANGED <<market, pos, status>> /\ pc' \in {pc + 1, pc + 1 + CurrentStep.skip}
    BY <1>8 DEF ReadChain
  <2>3. pc' \in Nat /\ pc <= pc' BY <1>0, <2>1, <2>2
  <2> QED BY <1>1, <1>6, <2>2, <2>3
<1>9. CASE MineAwaited
  <2>1. UNCHANGED <<market, pos>> /\ pending' = <<>> BY <1>9 DEF MineAwaited
  <2>2. ASSUME Accepted(Head(pending)) PROVE FALSE
    <3>1. status' = "running" /\ pc' = pc + 1 BY <1>9, <2>2 DEF MineAwaited
    <3>2. pc' \in Nat /\ pc <= pc' BY <1>0, <3>1
    <3> QED BY <1>6, <2>1, <3>1, <3>2
  <2>3. UNCHANGED chain BY <1>9, <2>2 DEF MineAwaited, Mined
  <2>4. PendingOn(f)' = {} BY <2>1 DEF PendingOn
  <2> QED BY <1>5, <2>3, <2>4
<1>10. CASE FinishScript \/ Throw
  <2>1. UNCHANGED <<chain, pending>> /\ status = "running"
    BY <1>10 DEF FinishScript, Throw, AtStep, AtScript
  <2>2. PendingOn(f)' = {} BY <1>2, <2>1 DEF PendingOn
  <2> QED BY <1>5, <2>1, <2>2
<1>11. CASE Crash
  <2>1. UNCHANGED <<chain, pending>> BY <1>11 DEF Crash
  <2>2. ASSUME NEW i \in PendingOn(f) PROVE i = Len(pending) /\ chain[f] < Cardinality(A)
    <3>1. status = "waiting" /\ i = Len(pending) BY <1>2, <2>2
    <3>2. /\ pc \in DOMAIN CurrentSteps /\ CurrentStep.kind \in TxKinds
          /\ pending[Len(pending)] = CurrentStep
      BY <3>1 DEF EngineInv, AwaitedIsLast
    <3>3. CurrentStep.eff = f BY <2>2, <3>1, <3>2 DEF PendingOn
    <3>4. pc \in A BY <1>0, <1>1, <3>2, <3>3, AtAdd
    <3>5. /\ Cardinality({j \in A : j < pc}) + 1 <= Cardinality(A)
          /\ Cardinality({j \in A : j < pc}) \in Nat /\ Cardinality(A) \in Nat
      <4>1. pc <= pc BY <1>0
      <4> QED BY <1>0, <3>4, <4>1, CountBelow
    <3> QED BY <1>0, <1>2, <3>1, <3>5
  <2>3. PendingOn(f)' = PendingOn(f) BY <2>1 DEF PendingOn
  <2> QED BY <1>5, <2>1, <2>2, <2>3
<1> QED BY <1>7, <1>8, <1>9, <1>10, <1>11, AddingActions

LEMMA AddInvElsewhere ==
  ASSUME EngineInv, [Next]_vars, NEW f \in Effect, NEW k \in Nat \ {0},
         NEW e \in Effect \ Temporary, NEW A \in SUBSET Nat, IsFiniteSet(A),
         AddsBehind(f, k, e, A), AddInv(f, k, e, A), ~Adding(f, k), ~Adding(f, k)'
  PROVE  AddInv(f, k, e, A)'
<1> USE DEF disk
<1>0. /\ TypeOK /\ AwaitedIsLast /\ chain \in [Effect -> Nat] /\ pending \in Seq(Step)
      /\ Cardinality(A) \in Nat
  <2>1. Cardinality(A) \in Nat BY FS_CardinalityType
  <2> QED BY <2>1 DEF EngineInv, TypeOK
<1>1. /\ chain[f] <= Cardinality(A)
      /\ \A i, j \in PendingOn(f) : i = j /\ chain[f] < Cardinality(A)
  BY DEF AddInv
\* No run is at a transaction on f.
<1>2. ASSUME pos \in DOMAIN Order[market], pc \in DOMAIN CurrentSteps, CurrentStep.kind \in TxKinds,
             status \in {"running", "waiting"}
      PROVE  CurrentStep.eff # f
  BY <1>0, <1>2, AtAdd
<1>3. ASSUME SendTx PROVE CurrentStep.eff # f
  BY <1>0, <1>2, <1>3, StepInTables DEF SendTx, AtStep, AtScript
<1>4. chain'[e] = 0 => chain'[f] = 0 /\ PendingOn(f)' = {}
  <2> SUFFICES ASSUME chain'[e] = 0 PROVE chain'[f] = 0 /\ PendingOn(f)' = {} OBVIOUS
  <2>1. chain[e] = 0
    <3>1. ~(chain[e] > 0) BY <1>0, ChainKeeps DEF EngineInv
    <3> QED BY <1>0, <3>1
  <2>2. chain[f] = 0 /\ PendingOn(f) = {} BY <2>1 DEF AddInv
  <2>3. ~(chain'[f] > 0) BY <1>0, <2>2, ChainStep DEF PendingOn
  <2>4. chain'[f] \in Nat
    <3>1. TypeOK' BY <1>0, TypeStep
    <3> QED BY <3>1 DEF TypeOK
  <2>5. ASSUME NEW i \in DOMAIN pending', pending'[i].eff = f PROVE FALSE
    <3>1. CASE \E j \in DOMAIN pending : pending'[i] = pending[j] BY <2>2, <2>5, <3>1 DEF PendingOn
    <3>2. CASE SendTx /\ pending'[i] = CurrentStep BY <1>3, <2>5, <3>2
    <3> QED BY <1>0, <3>1, <3>2, PendingStep
  <2> QED BY <2>3, <2>4, <2>5 DEF PendingOn
<1>5. ASSUME chain'[f] <= Cardinality(A),
             \A i, j \in PendingOn(f)' : i = j /\ chain'[f] < Cardinality(A)
      PROVE  AddInv(f, k, e, A)'
  BY <1>4, <1>5 DEF AddInv
<1>6. CASE UNCHANGED <<chain, pending>> BY <1>1, <1>5, <1>6 DEF PendingOn
<1>7. CASE Launch \/ SkipRecorded \/ BeginScript \/ FinishScript \/ FinishRun \/ Throw
           \/ Check \/ Deploy \/ ReadChain \/ Crash \/ UNCHANGED vars
  <2>1. UNCHANGED <<chain, pending>>
    BY <1>7 DEF Launch, SkipRecorded, BeginScript, FinishScript, FinishRun, Throw, Check,
      Deploy, ReadChain, Crash, vars
  <2> QED BY <1>6, <2>1
<1>8. CASE SendTx
  <2>1. UNCHANGED chain /\ pending' = Append(pending, CurrentStep) BY <1>8 DEF SendTx
  <2>2. CurrentStep.eff # f /\ CurrentStep \in Step
    BY <1>0, <1>3, <1>8, StepInTables DEF SendTx
  <2>3. ASSUME NEW i \in DOMAIN pending', pending'[i].eff = f PROVE i \in PendingOn(f)
    <3>1. i # Len(pending) + 1 BY <1>0, <2>1, <2>2, <2>3
    <3>2. i \in DOMAIN pending /\ pending'[i] = pending[i] BY <1>0, <2>1, <2>2, <3>1
    <3> QED BY <2>3, <3>2 DEF PendingOn
  <2>4. PendingOn(f)' \subseteq PendingOn(f) BY <2>3 DEF PendingOn
  <2> QED BY <1>1, <1>5, <2>1, <2>4
<1>9. CASE MineOrphan
  <2>1. /\ pending # <<>> /\ pending' = Tail(pending) /\ chain' = Mined(Head(pending))
    BY <1>9 DEF MineOrphan
  <2>2. /\ Head(pending) = pending[1] /\ 1 \in DOMAIN pending /\ Head(pending) \in Step
        /\ \A i \in DOMAIN pending' :
             i \in Nat \ {0} /\ i + 1 \in DOMAIN pending /\ pending'[i] = pending[i + 1]
    BY <1>0, <2>1
  <2>3. ASSUME NEW i \in PendingOn(f)' PROVE i \in Nat \ {0} /\ i + 1 \in PendingOn(f)
    BY <2>2, <2>3 DEF PendingOn
  <2>4. CASE Head(pending).eff # f
    <3>1. chain'[f] = chain[f] BY <1>0, <2>1, <2>2, <2>4 DEF Mined, Step
    <3>2. ASSUME NEW i \in PendingOn(f)', NEW j \in PendingOn(f)'
          PROVE  i = j /\ chain'[f] < Cardinality(A)
      <4>1. i + 1 = j + 1 /\ chain[f] < Cardinality(A) BY <1>1, <2>3, <3>2
      <4>2. i \in Nat /\ j \in Nat BY <2>3, <3>2
      <4> QED BY <3>1, <4>1, <4>2
    <3> QED BY <1>1, <1>5, <3>1, <3>2
  <2>5. CASE Head(pending).eff = f
    <3>1. 1 \in PendingOn(f) BY <2>2, <2>5 DEF PendingOn
    <3>2. PendingOn(f)' = {}
      <4> SUFFICES ASSUME NEW i \in PendingOn(f)' PROVE FALSE OBVIOUS
      <4>1. i \in Nat \ {0} /\ i + 1 \in PendingOn(f) BY <2>3
      <4>2. i + 1 = 1 BY <1>1, <3>1, <4>1
      <4> QED BY <4>1, <4>2
    <3>3. chain'[f] \in {0, 1, chain[f], chain[f] + 1} /\ chain[f] \in Nat
      BY <1>0, <2>1, <2>2, <2>5 DEF Mined, Step
    <3>4. chain[f] < Cardinality(A) BY <1>1, <3>1
    <3>5. chain'[f] <= Cardinality(A) BY <1>0, <3>3, <3>4
    <3> QED BY <1>5, <3>2, <3>5
  <2> QED BY <2>4, <2>5
<1>10. CASE MineAwaited
  <2>1. /\ pending # <<>> /\ Head(pending) = CurrentStep /\ status = "waiting"
        /\ pos \in DOMAIN Order[market] /\ pc \in DOMAIN CurrentSteps
        /\ CurrentStep.kind \in TxKinds
    BY <1>0, <1>10 DEF MineAwaited, AwaitedIsLast
  <2>2. CurrentStep.eff # f BY <1>2, <2>1
  <2>3. CurrentStep \in Step
    <3>1. Head(pending) \in Step BY <1>0, <2>1
    <3> QED BY <2>1, <3>1
  <2>4. chain' = Mined(CurrentStep) /\ pending' = <<>> BY <1>10, <2>1 DEF MineAwaited
  <2>5. chain'[f] = chain[f] BY <1>0, <2>2, <2>3, <2>4 DEF Mined, Step
  <2>6. PendingOn(f)' = {} BY <2>4 DEF PendingOn
  <2> QED BY <1>1, <1>5, <2>5, <2>6
<1> QED BY <1>7, <1>8, <1>9, <1>10 DEF Next, Progress, Mine

(* However often the scripts are killed and run again, for whatever        *)
(* markets, what they add is there no more often than one of them adds it. *)
THEOREM AddedOnceOnly == AddsAccounted => (Spec => []AddedOnce)
<1> SUFFICES ASSUME AddsAccounted PROVE Spec => []AddedOnce OBVIOUS
<1> DEFINE Inv ==
      \A m \in Market, s \in Script : \A j \in DOMAIN Steps[m][s] :
        Steps[m][s][j].kind = "add" =>
          \A k \in 1 .. j - 1 :
            AddsBehind(Steps[m][s][j].eff, k, Steps[m][s][k].eff,
                       AddsOf(m, s, Steps[m][s][j].eff)) =>
              AddInv(Steps[m][s][j].eff, k, Steps[m][s][k].eff,
                     AddsOf(m, s, Steps[m][s][j].eff))
<1>1. ASSUME NEW m \in Market, NEW s \in Script, NEW j \in DOMAIN Steps[m][s],
             Steps[m][s][j].kind = "add", NEW k \in 1 .. j - 1,
             AddsBehind(Steps[m][s][j].eff, k, Steps[m][s][k].eff, AddsOf(m, s, Steps[m][s][j].eff))
      PROVE  /\ Steps[m][s][j].eff \in Effect /\ k \in Nat \ {0}
             /\ Steps[m][s][k].eff \in Effect \ Temporary
             /\ AddsOf(m, s, Steps[m][s][j].eff) \in SUBSET Nat
             /\ IsFiniteSet(AddsOf(m, s, Steps[m][s][j].eff))
             /\ Steps[m][s][k].eff # Steps[m][s][j].eff
  <2> DEFINE f == Steps[m][s][j].eff
             e == Steps[m][s][k].eff
  <2>1. /\ Steps[m][s] \in Seq(Step) /\ Len(Steps[m][s]) \in Nat
        /\ DOMAIN Steps[m][s] = 1 .. Len(Steps[m][s])
    <3>1. Steps[m][s] \in Seq(Step) BY TablesAssumption
    <3> QED BY <3>1
  <2>2. k \in DOMAIN Steps[m][s] /\ k \in Nat \ {0} BY <1>1, <2>1
  <2>3. Steps[m][s][j] \in Step /\ Steps[m][s][k] \in Step BY <1>1, <2>1, <2>2
  <2>4. j \in AddsOf(m, s, f) BY <1>1 DEF AddsOf
  <2>5. Steps[m][s][k].kind = "once" BY <1>1, <2>4 DEF AddsBehind
  <2>6. e # f BY <1>1, <2>2, <2>5 DEF AddsBehind, TxKinds
  <2>7. e \in EffectsOf(m, s, {"once"}) BY <2>2, <2>5 DEF EffectsOf
  <2>8. e \in Effect \ Temporary BY <2>3, <2>7, OnceAssumption DEF Step
  <2>9. AddsOf(m, s, f) \in SUBSET (1 .. Len(Steps[m][s])) BY <2>1 DEF AddsOf
  <2>10. IsFiniteSet(1 .. Len(Steps[m][s]))
    <3>1. Len(Steps[m][s]) \in Int /\ 1 \in Int BY <2>1
    <3> QED BY <3>1, FS_Interval
  <2>11. IsFiniteSet(AddsOf(m, s, f)) BY <2>9, <2>10, FS_Subset
  <2>12. AddsOf(m, s, f) \in SUBSET Nat BY <2>1, <2>9
  <2> QED BY <2>2, <2>3, <2>6, <2>8, <2>11, <2>12 DEF Step
<1>2. Init => Inv
  <2> SUFFICES ASSUME Init, NEW m \in Market, NEW s \in Script, NEW j \in DOMAIN Steps[m][s],
                      Steps[m][s][j].kind = "add", NEW k \in 1 .. j - 1,
                      AddsBehind(Steps[m][s][j].eff, k, Steps[m][s][k].eff,
                                 AddsOf(m, s, Steps[m][s][j].eff))
               PROVE  AddInv(Steps[m][s][j].eff, k, Steps[m][s][k].eff,
                             AddsOf(m, s, Steps[m][s][j].eff))
    OBVIOUS
  <2> DEFINE f == Steps[m][s][j].eff
             e == Steps[m][s][k].eff
             A == AddsOf(m, s, f)
  <2>1. f \in Effect /\ e \in Effect /\ IsFiniteSet(A) BY <1>1
  <2>2. chain[f] = 0 /\ PendingOn(f) = {} /\ ~Adding(f, k)
    BY <2>1 DEF Init, PendingOn, Adding
  <2>3. Cardinality(A) \in Nat BY <2>1, FS_CardinalityType
  <2> HIDE DEF f, e, A
  <2>4. AddInv(f, k, e, A) BY <2>2, <2>3 DEF AddInv
  <2> QED BY <2>4 DEF f, e, A
<1>3. EngineInv /\ Inv /\ [Next]_vars => Inv'
  <2> SUFFICES ASSUME EngineInv, Inv, [Next]_vars,
                      NEW m \in Market, NEW s \in Script, NEW j \in DOMAIN Steps[m][s],
                      Steps[m][s][j].kind = "add", NEW k \in 1 .. j - 1,
                      AddsBehind(Steps[m][s][j].eff, k, Steps[m][s][k].eff,
                                 AddsOf(m, s, Steps[m][s][j].eff))
               PROVE  AddInv(Steps[m][s][j].eff, k, Steps[m][s][k].eff,
                             AddsOf(m, s, Steps[m][s][j].eff))'
    OBVIOUS
  <2> DEFINE f == Steps[m][s][j].eff
             e == Steps[m][s][k].eff
             A == AddsOf(m, s, f)
  <2>1. /\ f \in Effect /\ k \in Nat \ {0} /\ e \in Effect \ Temporary
        /\ A \in SUBSET Nat /\ IsFiniteSet(A) /\ e # f
    BY <1>1
  <2>2. AddsBehind(f, k, e, A) /\ AddInv(f, k, e, A) OBVIOUS
  <2> HIDE DEF f, e, A
  <2>3. AddInv(f, k, e, A)'
    <3>1. CASE ~Adding(f, k) /\ Adding(f, k)' BY <2>1, <2>2, <3>1, AddInvBegins
    <3>2. CASE Adding(f, k) /\ Adding(f, k)' BY <2>1, <2>2, <3>2, AddInvGoesOn
    <3>3. CASE Adding(f, k) /\ ~Adding(f, k)' BY <2>1, <2>2, <3>3, AddInvStops
    <3>4. CASE ~Adding(f, k) /\ ~Adding(f, k)' BY <2>1, <2>2, <3>4, AddInvElsewhere
    <3> QED BY <3>1, <3>2, <3>3, <3>4
  <2> QED BY <2>3 DEF f, e, A
<1>4. EngineInv /\ Inv => AddedOnce
  <2> SUFFICES ASSUME EngineInv, Inv, NEW m \in Market, NEW s \in Script,
                      NEW j \in DOMAIN Steps[m][s], Steps[m][s][j].kind = "add"
               PROVE  chain[Steps[m][s][j].eff] <= Cardinality(AddsOf(m, s, Steps[m][s][j].eff))
    BY DEF AddedOnce
  <2> DEFINE f == Steps[m][s][j].eff
             A == AddsOf(m, s, f)
  <2>1. PICK k \in 1 .. j - 1 : AddsBehind(f, k, Steps[m][s][k].eff, A) BY DEF AddsAccounted
  <2>2. AddInv(f, k, Steps[m][s][k].eff, A) BY <2>1
  <2>3. f \in Effect /\ IsFiniteSet(A) /\ A \in SUBSET Nat BY <1>1, <2>1
  <2>4. pc \in Nat /\ chain[f] \in Nat BY <2>3 DEF EngineInv, TypeOK
  <2> HIDE DEF f, A
  <2>5. /\ Cardinality({i \in A : i < pc}) \in Nat /\ Cardinality(A) \in Nat
        /\ Cardinality({i \in A : i < pc}) <= Cardinality(A)
    <3>1. pc <= pc BY <2>4
    <3> QED BY <2>3, <2>4, <3>1, CountBelow
  <2>6. chain[f] <= Cardinality(A) BY <2>2, <2>4, <2>5 DEF AddInv
  <2> QED BY <2>6 DEF f, A
<1> QED BY <1>2, <1>3, <1>4, EngineInvariant, PTL DEF Spec

=============================================================================
