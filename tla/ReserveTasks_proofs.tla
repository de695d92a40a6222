------------------------ MODULE ReserveTasks_proofs ------------------------
(***************************************************************************)
(* Proofs about ReserveTasks, for any reserves, settings and sets of       *)
(* tasks: its inductive invariants; that a posted setLendingGauge never    *)
(* reverts and a gauge the pool uses has its phases once; what a task can  *)
(* fail at; that what was cut short stays so; and what a hook that ends    *)
(* well leaves.                                                            *)
(***************************************************************************)
EXTENDS ReserveTasks, SequenceTheorems, TLAPS

-----------------------------------------------------------------------------
(* The steps of tasks.                                                     *)
\* Steps of the loops over reserves, and of the hand-over
Other == {s \in Step : s.kind \notin Gauge}

LEMMA ForEachOther ==
  ASSUME NEW kind \in Kind \ Gauge, NEW review \in BOOLEAN, NEW S
  PROVE  ForEach(kind, review, S) \in Seq(Other)
<1>1. Len(Order) \in Nat /\ DOMAIN Order = 1 .. Len(Order) /\ Order \in Seq(Reserve)
  BY TasksAssumption
<1>2. ASSUME NEW k \in DOMAIN Order PROVE On(kind, review, {Order[k]} \cap S) \in Other
  <2>1. Order[k] \in Reserve
    BY <1>1, <1>2
  <2>2. QED BY <2>1 DEF On, Other, Step, Kind
<1>3. QED BY <1>1, <1>2, IsASeq DEF ForEach

LEMMA OneOther ==
  ASSUME NEW kind \in Kind \ Gauge, NEW review \in BOOLEAN, NEW S \in SUBSET Reserve
  PROVE  <<On(kind, review, S)>> \in Seq(Other)
<1>1. On(kind, review, S) \in Other
  BY DEF On, Other, Step
<1>2. QED BY <1>1

LEMMA HookOther == Hook \in Seq(Other) /\ EModeCategory \in Seq(Other)
<1>1. Wanted["emode"] \in SUBSET Reserve
  BY TasksAssumption DEF Configured
<1>2. EModeCategory \in Seq(Other)
  BY <1>1, OneOther DEF EModeCategory, Kind, Gauge
<1>3. Review("stable", Reserve) \in Seq(Other)
  BY ForEachOther DEF Review, Kind, Gauge, Reviewed
<1>4. \A k \in Configured : Setup(k) \in Seq(Other)
  BY ForEachOther DEF Setup, Kind, Gauge, Configured
<1>5. Setup("ceiling") \in Seq(Other) /\ Setup("isolation") \in Seq(Other)
      /\ Setup("emode") \in Seq(Other) /\ Setup("fee") \in Seq(Other)
  BY <1>4 DEF Configured
<1>6. SetupEModes \in Seq(Other)
  BY <1>2, <1>5, ConcatProperties DEF SetupEModes
<1>7. Review("stable", Reserve) \o Setup("ceiling") \in Seq(Other)
  BY <1>3, <1>5, ConcatProperties
<1>8. (Review("stable", Reserve) \o Setup("ceiling")) \o Setup("isolation") \in Seq(Other)
  BY <1>5, <1>7, ConcatProperties
<1>9. ((Review("stable", Reserve) \o Setup("ceiling")) \o Setup("isolation"))
         \o SetupEModes \in Seq(Other)
  BY <1>6, <1>8, ConcatProperties
<1>10. Hook \in Seq(Other)
  BY <1>5, <1>9, ConcatProperties DEF Hook
<1>11. QED BY <1>2, <1>10

\* A plan without steps of a gauge task, or a gauge task's own
LEMMA OtherPlans ==
  ASSUME NEW p \in Seq(Other)
  PROVE  p \in Seq(Step) /\ InStep(p) /\ (p # <<>> => Head(p).kind \notin Gauge)
<1>1. \A k \in DOMAIN p : p[k] \in Other
  OBVIOUS
<1>2. p \in Seq(Step)
  BY DEF Other
<1>3. InStep(p)
  BY <1>1 DEF InStep, Other, Gauge
<1>4. p # <<>> => Head(p) = p[1] /\ 1 \in DOMAIN p
  OBVIOUS
<1>5. QED BY <1>1, <1>2, <1>3, <1>4 DEF Other

LEMMA Triple ==
  ASSUME NEW S, NEW a \in S, NEW b \in S, NEW c \in S
  PROVE  <<a, b, c>> \in Seq(S)
OBVIOUS

LEMMA GaugePlans ==
  ASSUME NEW r \in Reserve
  PROVE  /\ LendingGauge(r) \in Seq(Step) /\ InStep(LendingGauge(r))
         /\ Head(LendingGauge(r)).kind = "gauge"
<1> DEFINE p == LendingGauge(r)
<1>1. p = << On("gauge", FALSE, {r}), On("phases", FALSE, {r}), On("attach", FALSE, {r}) >>
  BY DEF LendingGauge
<1>2. \A k \in Gauge : On(k, FALSE, {r}) \in Step
  BY DEF On, Step, Kind
<1>3. p \in Seq(Step)
  <2>1. /\ On("gauge", FALSE, {r}) \in Step /\ On("phases", FALSE, {r}) \in Step
        /\ On("attach", FALSE, {r}) \in Step
    BY <1>2 DEF Gauge
  <2>2. QED BY <1>1, <2>1, Triple
<1>4. DOMAIN p = {1, 2, 3} /\ p[1] = On("gauge", FALSE, {r})
      /\ p[2] = On("phases", FALSE, {r}) /\ p[3] = On("attach", FALSE, {r})
  BY <1>1
<1> HIDE DEF p
<1>5. InStep(p)
  <2>1. /\ p[1] = On("gauge", FALSE, p[2].on) /\ p[2] = On("phases", FALSE, p[3].on)
    BY <1>4 DEF On
  <2>2. /\ p[1].kind = "gauge" /\ p[2].kind = "phases" /\ p[3].kind = "attach"
        /\ \A k \in {1, 2, 3} : ~p[k].review /\ p[k].on # {}
    BY <1>4 DEF On
  <2>3. /\ 1 - 1 = 0 /\ 2 - 1 = 1 /\ 3 - 1 = 2 /\ ~(1 > 1)
    OBVIOUS
  <2>4. ASSUME NEW k \in {1, 2, 3}
        PROVE  /\ k > 1 /\ p[k].kind = "phases" => p[k - 1] = On("gauge", FALSE, p[k].on)
               /\ k > 1 /\ p[k].kind = "attach" => p[k - 1] = On("phases", FALSE, p[k].on)
    BY <2>1, <2>2, <2>3
  <2>5. QED BY <1>4, <2>2, <2>4 DEF InStep
<1>6. Head(p).kind = "gauge"
  BY <1>3, <1>4 DEF On
<1>7. QED BY <1>3, <1>5, <1>6 DEF p

LEMMA PlansOK ==
  ASSUME NEW t \in Task, NEW p \in Plans(t)
  PROVE  /\ p \in Seq(Step) /\ InStep(p)
         /\ p # <<>> => Head(p).kind \notin {"phases", "attach"}
<1>1. <<>> \in Seq(Other)
  OBVIOUS
<1>2. CASE t = "lending-gauge"
  <2>1. Plans(t) = {<<>>} \cup {LendingGauge(r) : r \in Reserve}
    BY <1>2 DEF Plans
  <2>2. QED BY <1>1, <2>1, GaugePlans, OtherPlans
<1>3. CASE t # "lending-gauge"
  <2>1. p \in Seq(Other)
    <3>1. CASE t = "hook"
      BY <3>1, HookOther DEF Plans
    <3>2. CASE t = "hook and transfer"
      <4>1. <<On("transfer", FALSE, {})>> \in Seq(Other)
        BY OneOther DEF Kind, Gauge
      <4>2. p = Hook \o <<On("transfer", FALSE, {})>>
        BY <3>2 DEF Plans
      <4>3. QED BY <4>1, <4>2, HookOther, ConcatProperties
    <3>3. CASE t = "review-stable-borrow"
      BY <3>3, ForEachOther DEF Plans, Review, Kind, Gauge, Reviewed
    <3>4. CASE t = "review-rate-strategies"
      BY <3>4, ForEachOther DEF Plans, Review, Kind, Gauge, Reviewed
    <3>5. CASE t = "review-supply-caps"
      BY <3>5, ForEachOther DEF Plans, Review, Kind, Gauge, Reviewed
    <3>6. CASE t = "review-e-mode"
      <4>1. Wanted["emode"] \in SUBSET Reserve
        BY TasksAssumption DEF Configured
      <4>2. QED BY <3>6, <4>1, OneOther DEF Plans, Kind, Gauge
    <3>7. CASE t = "upgrade-htokens"
      BY <1>1, <3>7, ForEachOther DEF Plans, Kind, Gauge
    <3>8. QED BY <1>3, <3>1, <3>2, <3>3, <3>4, <3>5, <3>6, <3>7 DEF Task
  <2>2. QED BY <2>1, OtherPlans DEF Gauge
<1>4. QED BY <1>2, <1>3

\* What is left of a plan after its first step
LEMMA TailOK ==
  ASSUME NEW p \in Seq(Step), p # <<>>, InStep(p)
  PROVE  /\ Head(p) \in Step /\ Tail(p) \in Seq(Step) /\ InStep(Tail(p))
         /\ Head(p).kind \in Gauge => ~Head(p).review /\ Head(p).on # {}
         /\ Tail(p) # <<>> /\ Head(Tail(p)).kind = "phases" =>
              Head(p) = On("gauge", FALSE, Head(Tail(p)).on)
         /\ Tail(p) # <<>> /\ Head(Tail(p)).kind = "attach" =>
              Head(p) = On("phases", FALSE, Head(Tail(p)).on)
<1> DEFINE q == Tail(p)
<1>1. /\ Len(p) \in Nat \ {0} /\ DOMAIN p = 1 .. Len(p) /\ Head(p) = p[1] /\ p[1] \in Step
      /\ 1 \in DOMAIN p
  OBVIOUS
<1>2. /\ q \in Seq(Step) /\ DOMAIN q = 1 .. Len(p) - 1
      /\ \A k \in 1 .. Len(p) - 1 : q[k] = p[k + 1]
      /\ q # <<>> => Head(q) = q[1] /\ 1 \in DOMAIN q
  <2>1. q \in Seq(Step) /\ Len(q) = Len(p) - 1
    OBVIOUS
  <2>2. \A k \in 1 .. Len(p) - 1 : q[k] = p[k + 1]
    OBVIOUS
  <2>3. DOMAIN q = 1 .. Len(p) - 1
    BY <2>1
  <2>4. q # <<>> => Head(q) = q[1] /\ 1 \in DOMAIN q
    BY <2>1
  <2>5. QED BY <2>1, <2>2, <2>3, <2>4
<1> HIDE DEF q
<1>3. ASSUME NEW k \in DOMAIN q
      PROVE  /\ k + 1 \in DOMAIN p /\ k + 1 > 1 /\ k + 1 - 1 = k
             /\ q[k] = p[k + 1] /\ (k > 1 => q[k - 1] = p[k])
  BY <1>1, <1>2
<1>4. InStep(q)
  <2>1. SUFFICES ASSUME NEW k \in DOMAIN q
                 PROVE  /\ q[k].kind \in Gauge => ~q[k].review /\ q[k].on # {}
                        /\ k > 1 /\ q[k].kind = "phases" => q[k - 1] = On("gauge", FALSE, q[k].on)
                        /\ k > 1 /\ q[k].kind = "attach" => q[k - 1] = On("phases", FALSE, q[k].on)
    BY DEF InStep
  <2>2. PICK j \in DOMAIN p : j = k + 1 /\ j > 1 /\ q[k] = p[j]
                             /\ (k > 1 => q[k - 1] = p[j - 1])
    BY <1>3
  <2>3. /\ p[j].kind \in Gauge => ~p[j].review /\ p[j].on # {}
        /\ p[j].kind = "phases" => p[j - 1] = On("gauge", FALSE, p[j].on)
        /\ p[j].kind = "attach" => p[j - 1] = On("phases", FALSE, p[j].on)
    BY <2>2 DEF InStep
  <2>4. QED BY <2>2, <2>3
<1>5. q # <<>> => q[1] = p[2] /\ 2 \in DOMAIN p /\ 2 > 1 /\ 2 - 1 = 1
  BY <1>1, <1>2
<1>6. /\ q # <<>> /\ Head(q).kind = "phases" => p[1] = On("gauge", FALSE, Head(q).on)
      /\ q # <<>> /\ Head(q).kind = "attach" => p[1] = On("phases", FALSE, Head(q).on)
  BY <1>2, <1>5 DEF InStep
<1>7. p[1].kind \in Gauge => ~p[1].review /\ p[1].on # {}
  BY <1>1 DEF InStep
<1>8. QED BY <1>1, <1>2, <1>4, <1>6, <1>7 DEF q

-----------------------------------------------------------------------------
(* What a transaction does.                                                *)
LEMMA ExecuteOK ==
  ASSUME TypeOK, GaugesReady, GaugeFirst, NEW t \in Step, Ready(t), Execute(t)
  PROVE  /\ follows' \in [Kind -> SUBSET Reserve] /\ phases' \in [Reserve -> Nat]
         /\ powers' \in BOOLEAN
         /\ GaugesReady' /\ GaugeFirst'
         /\ Accepted(t) /\ t.kind = "gauge" =>
              powers' /\ \A r \in t.on : r \in follows["gauge"]' /\ phases[r]' = 0
         /\ Accepted(t) /\ t.kind = "phases" =>
              powers' /\ \A r \in t.on : r \in follows["gauge"]' /\ phases[r]' = 1
<1>1. t.on \subseteq Reserve /\ t.kind \in Kind
  BY DEF Step
<1>2. CASE ~Accepted(t)
  BY <1>2 DEF Execute, chain, TypeOK, GaugesReady, GaugeFirst
<1>3. CASE Accepted(t)
  <2>1. /\ follows' = [follows EXCEPT ![t.kind] = follows[t.kind] \cup t.on]
        /\ phases' = [r \in Reserve |->
                        IF t.kind = "phases" /\ r \in t.on THEN phases[r] + 1 ELSE phases[r]]
        /\ powers' = (t.kind # "transfer")
    BY <1>3 DEF Execute
  <2>2. follows' \in [Kind -> SUBSET Reserve] /\ phases' \in [Reserve -> Nat]
        /\ powers' \in BOOLEAN
    BY <1>1, <2>1 DEF TypeOK
  <2>3. \A k \in Kind : follows'[k] = IF k = t.kind THEN follows[k] \cup t.on ELSE follows[k]
    BY <1>1, <2>1 DEF TypeOK
  <2>4. "gauge" \in Kind /\ "attach" \in Kind
    BY DEF Kind, Gauge
  <2>5. \A r \in Reserve :
          phases'[r] = IF t.kind = "phases" /\ r \in t.on THEN phases[r] + 1 ELSE phases[r]
    BY <2>1
  <2>6. \A r \in Reserve : phases[r] \in Nat
    BY DEF TypeOK
  <2>7. GaugeFirst'
    <3>1. SUFFICES ASSUME NEW r \in Reserve, phases'[r] > 0 PROVE r \in follows'["gauge"]
      BY DEF GaugeFirst
    <3>2. CASE t.kind = "phases" /\ r \in t.on
      <4>1. r \in follows["gauge"]
        BY <3>2 DEF Ready
      <4>2. QED BY <2>3, <2>4, <4>1
    <3>3. CASE ~(t.kind = "phases" /\ r \in t.on)
      BY <2>3, <2>4, <2>5, <3>1, <3>3 DEF GaugeFirst
    <3>4. QED BY <3>2, <3>3
  <2>8. GaugesReady'
    <3>1. SUFFICES ASSUME NEW r \in Reserve
                   PROVE  /\ phases'[r] <= 1
                          /\ r \in follows'["attach"] =>
                               r \in follows'["gauge"] /\ phases'[r] = 1
      BY DEF GaugesReady
    <3>2. CASE t.kind = "phases" /\ r \in t.on
      <4>1. phases[r] = 0
        BY <3>2 DEF Ready
      <4>2. phases'[r] = 1
        BY <2>5, <3>2, <4>1
      <4>3. follows'["attach"] = follows["attach"]
        BY <2>3, <2>4, <3>2
      <4>4. QED BY <4>1, <4>2, <4>3 DEF GaugesReady
    <3>3. CASE t.kind = "attach" /\ r \in t.on
      BY <2>3, <2>4, <2>5, <3>3 DEF Ready
    <3>4. CASE ~(t.kind \in {"phases", "attach"} /\ r \in t.on)
      <4>1. phases'[r] = phases[r] /\ (r \in follows'["attach"] => r \in follows["attach"])
        BY <2>3, <2>4, <2>5, <3>4
      <4>2. r \in follows["gauge"] => r \in follows'["gauge"]
        BY <2>3, <2>4
      <4>3. QED BY <4>1, <4>2 DEF GaugesReady
    <3>5. QED BY <3>2, <3>3, <3>4
  <2>9. ASSUME t.kind = "gauge"
        PROVE  powers' /\ \A r \in t.on : r \in follows["gauge"]' /\ phases[r]' = 0
    <3>1. t.on \cap follows["gauge"] = {} /\ powers'
      BY <1>3, <2>1, <2>9 DEF Accepted
    <3>2. \A r \in t.on : r \in follows'["gauge"] /\ phases'[r] = phases[r]
      BY <1>1, <2>3, <2>4, <2>5, <2>9
    <3>3. \A r \in t.on : ~(phases[r] > 0)
      BY <1>1, <3>1 DEF GaugeFirst
    <3>4. QED BY <1>1, <2>6, <3>1, <3>2, <3>3
  <2>10. ASSUME t.kind = "phases"
         PROVE  powers' /\ \A r \in t.on : r \in follows["gauge"]' /\ phases[r]' = 1
    <3>1. powers' /\ \A r \in t.on : r \in follows["gauge"] /\ phases[r] = 0
      BY <2>1, <2>10 DEF Ready
    <3>2. \A r \in t.on : r \in follows'["gauge"] /\ phases'[r] = phases[r] + 1
      BY <1>1, <2>3, <2>4, <2>5, <2>10, <3>1
    <3>3. QED BY <3>1, <3>2
  <2>11. QED BY <2>2, <2>7, <2>8, <2>9, <2>10
<1>4. QED BY <1>2, <1>3

-----------------------------------------------------------------------------
(* The initial states.                                                     *)
LEMMA InitInv == Init => TasksInv
<1>1. SUFFICES ASSUME Init PROVE TasksInv
  OBVIOUS
<1>2. PICK f \in Found, upgraded \in {{}, Reserve} :
        follows = [k \in Kind |-> IF k \in Reviewed THEN f[k]
                                 ELSE IF k = "revision" THEN upgraded ELSE {}]
  BY <1>1 DEF Init
<1>3. f \in [Reviewed -> SUBSET Reserve]
  BY <1>2, TasksAssumption
<1>4. follows \in [Kind -> SUBSET Reserve]
  BY <1>2, <1>3
<1>5. follows["attach"] = {}
  BY <1>2 DEF Kind, Gauge, Reviewed
<1>6. TypeOK
  <2>1. task \in Task
    BY <1>1, TasksAssumption DEF Init
  <2>2. phases \in [Reserve -> Nat] /\ crashes \in 0 .. MaxCrashes
    BY <1>1, TasksAssumption DEF Init
  <2>3. pending \in Seq(Step) /\ plan \in Seq(Step)
    BY <1>1 DEF Init
  <2>4. QED BY <1>1, <1>4, <2>1, <2>2, <2>3 DEF Init, TypeOK
<1>7. GaugesReady /\ GaugeFirst
  <2>1. \A r \in Reserve : phases[r] = 0
    BY <1>1 DEF Init
  <2>2. QED BY <1>5, <2>1 DEF GaugesReady, GaugeFirst
<1>8. InStep(plan) /\ SentReady
  <2>1. DOMAIN plan = {} /\ DOMAIN pending = {}
    BY <1>1 DEF Init
  <2>2. QED BY <2>1 DEF InStep, SentReady
<1>9. QED BY <1>1, <1>6, <1>7, <1>8 DEF Init, TasksInv, PlanReady, WaitsForLast

-----------------------------------------------------------------------------
(* The steps.                                                              *)
\* What only the chain decides is kept while the chain is.
LEMMA ChainKept ==
  ASSUME TasksInv, UNCHANGED chain
  PROVE  /\ GaugesReady' /\ GaugeFirst' /\ (UNCHANGED pending => SentReady')
         /\ \A t \in Step : Ready(t)' = Ready(t)
<1>1. UNCHANGED <<follows, phases, powers>>
  BY DEF chain
<1>2. \A t \in Step : Ready(t)' = Ready(t)
  BY <1>1 DEF Ready
<1>3. GaugesReady' /\ GaugeFirst'
  BY <1>1 DEF TasksInv, GaugesReady, GaugeFirst
<1>4. UNCHANGED pending => SentReady'
  BY <1>1 DEF TasksInv, SentReady, Ready
<1>5. QED BY <1>2, <1>3, <1>4

LEMMA LaunchInv == TasksInv /\ (\E t \in Task : Launch(t)) => TasksInv'
<1>1. SUFFICES ASSUME TasksInv, NEW t \in Task, Launch(t) PROVE TasksInv'
  OBVIOUS
<1>2. plan' \in Plans(t)
  BY <1>1 DEF Launch
<1>3. /\ plan' \in Seq(Step) /\ InStep(plan')
      /\ plan' # <<>> => Head(plan').kind \notin {"phases", "attach"}
  BY <1>2, PlansOK
<1>4. TypeOK'
  BY <1>1, <1>3 DEF Launch, TasksInv, TypeOK, chain
<1>5. GaugesReady' /\ GaugeFirst' /\ SentReady'
  BY <1>1, ChainKept DEF Launch
<1>6. PlanReady' /\ WaitsForLast'
  BY <1>1, <1>3 DEF Launch, PlanReady, WaitsForLast, Current, Ready
<1>7. QED BY <1>3, <1>4, <1>5, <1>6 DEF TasksInv

LEMMA StopInv == TasksInv /\ (Throw \/ Finish \/ Crash) => TasksInv'
<1>1. SUFFICES ASSUME TasksInv, Throw \/ Finish \/ Crash PROVE TasksInv'
  OBVIOUS
<1>2. UNCHANGED <<menu, chain, pending, task>> /\ status' \in {"failed", "done", "killed"}
      /\ plan' \in {plan, <<>>}
  BY <1>1 DEF Throw, Finish, Crash
<1>3. TypeOK /\ MaxCrashes \in Nat
  BY <1>1, TasksAssumption DEF TasksInv
<1>4. crashes' \in 0 .. MaxCrashes
  BY <1>1, <1>3 DEF Throw, Finish, Crash, TypeOK
<1>5. plan' \in Seq(Step)
  <2>1. plan \in Seq(Step) /\ <<>> \in Seq(Step)
    BY <1>3 DEF TypeOK
  <2>2. QED BY <1>2, <2>1
<1>6. TypeOK'
  BY <1>2, <1>3, <1>4, <1>5 DEF TypeOK, chain
<1>7. GaugesReady' /\ GaugeFirst' /\ SentReady'
  BY <1>1, <1>2, ChainKept
<1>8. InStep(plan')
  <2>1. InStep(<<>>)
    BY DEF InStep
  <2>2. QED BY <1>1, <1>2, <2>1 DEF TasksInv
<1>9. PlanReady' /\ WaitsForLast'
  BY <1>2 DEF PlanReady, WaitsForLast
<1>10. QED BY <1>6, <1>7, <1>8, <1>9 DEF TasksInv

\* A step that is left out is not one of a gauge task.
LEMMA SkipInv == TasksInv /\ Skip => TasksInv'
<1>1. SUFFICES ASSUME TasksInv, Skip PROVE TasksInv'
  OBVIOUS
<1>2. plan # <<>> /\ plan' = Tail(plan) /\ Skipped /\ UNCHANGED <<menu, chain, pending, status, task, crashes>>
  BY <1>1 DEF Skip, Working
<1>3. TypeOK /\ plan \in Seq(Step) /\ InStep(plan)
  BY <1>1 DEF TasksInv, TypeOK
<1>4. /\ plan' \in Seq(Step) /\ InStep(plan')
      /\ Current.kind \in Gauge => ~Current.review /\ Current.on # {}
      /\ plan' # <<>> /\ Head(plan').kind = "phases" => Current.kind = "gauge"
      /\ plan' # <<>> /\ Head(plan').kind = "attach" => Current.kind = "phases"
  BY <1>2, <1>3, TailOK DEF Current, On
<1>5. Current.kind \notin Gauge
  BY <1>2, <1>4 DEF Skipped, Gauge
<1>6. TypeOK'
  BY <1>2, <1>3, <1>4 DEF TypeOK, chain
<1>7. GaugesReady' /\ GaugeFirst' /\ SentReady'
  BY <1>1, <1>2, ChainKept
<1>8. PlanReady'
  BY <1>4, <1>5 DEF PlanReady, Ready, Current, Gauge
<1>9. WaitsForLast'
  BY <1>1, <1>2 DEF WaitsForLast, Skip, Working
<1>10. QED BY <1>4, <1>6, <1>7, <1>8, <1>9 DEF TasksInv

\* What a transaction appended to those under way is and what it follows
LEMMA AppendOK ==
  ASSUME NEW s \in Seq(Step), NEW t \in Step
  PROVE  /\ Append(s, t) \in Seq(Step) /\ Append(s, t) # <<>>
         /\ Append(s, t)[Len(Append(s, t))] = t
         /\ \A k \in DOMAIN Append(s, t) :
              \/ k \in DOMAIN s /\ Append(s, t)[k] = s[k]
              \/ Append(s, t)[k] = t
         /\ s = <<>> => DOMAIN Append(s, t) = {1}
<1> DEFINE u == Append(s, t)
<1>1. /\ u \in Seq(Step) /\ u # <<>> /\ Len(u) = Len(s) + 1 /\ Len(s) \in Nat
      /\ u[Len(s) + 1] = t /\ \A k \in 1 .. Len(s) : u[k] = s[k]
  BY AppendProperties
<1>2. DOMAIN u = 1 .. Len(s) + 1 /\ DOMAIN s = 1 .. Len(s)
  BY <1>1
<1> HIDE DEF u
<1>3. ASSUME NEW k \in DOMAIN u PROVE (k \in DOMAIN s /\ u[k] = s[k]) \/ u[k] = t
  <2>1. k \in 1 .. Len(s) \/ k = Len(s) + 1
    BY <1>1, <1>2
  <2>2. QED BY <1>1, <1>2, <2>1
<1>4. s = <<>> => DOMAIN u = {1}
  BY <1>1, <1>2
<1>5. QED BY <1>1, <1>3, <1>4 DEF u

LEMMA SendOK ==
  ASSUME TasksInv, Working, UNCHANGED chain, pending' = Append(pending, Current)
  PROVE  pending' \in Seq(Step) /\ SentReady'
<1>1. Current \in Step /\ pending \in Seq(Step)
  BY TailOK DEF TasksInv, TypeOK, Working, Current
<1>2. Ready(Current) /\ (Current.kind \in {"phases", "attach"} => pending = <<>>)
  BY DEF TasksInv, PlanReady, Working
<1>3. pending' \in Seq(Step)
  BY <1>1, AppendOK
<1>4. ASSUME NEW k \in DOMAIN pending', pending'[k].kind \in {"phases", "attach"}
      PROVE  k = 1 /\ Ready(pending'[k])
  <2>1. CASE k \in DOMAIN pending /\ pending'[k] = pending[k]
    BY <1>4, <2>1 DEF TasksInv, SentReady
  <2>2. CASE pending'[k] = Current
    BY <1>1, <1>2, <1>4, <2>2, AppendOK
  <2>3. QED BY <1>1, <2>1, <2>2, AppendOK
<1>5. SentReady'
  <2>1. \A k \in DOMAIN pending' : pending'[k] \in Step
    BY <1>3
  <2>2. \A k \in DOMAIN pending' : Ready(pending'[k]) => Ready(pending[k])'
    BY DEF Ready, chain
  <2>3. QED BY <1>4, <2>2 DEF SentReady
<1>6. QED BY <1>3, <1>5

LEMMA SendInv == TasksInv /\ Send => TasksInv'
<1>1. SUFFICES ASSUME TasksInv, Send PROVE TasksInv'
  OBVIOUS
<1>2. /\ Working /\ pending' = Append(pending, Current) /\ status' = "waiting"
      /\ UNCHANGED <<menu, chain, task, plan, crashes>>
  BY <1>1 DEF Send
<1>3. UNCHANGED chain
  BY <1>2
<1>4. pending' \in Seq(Step) /\ SentReady'
  BY <1>1, <1>2, <1>3, SendOK
<1>5. Current \in Step /\ pending \in Seq(Step)
  BY <1>1, <1>2, TailOK DEF TasksInv, TypeOK, Working, Current
<1>6. TypeOK'
  BY <1>1, <1>2, <1>4 DEF TasksInv, TypeOK, chain
<1>7. GaugesReady' /\ GaugeFirst'
  BY <1>1, <1>3, ChainKept
<1>8. InStep(plan)' /\ PlanReady'
  BY <1>1, <1>2 DEF TasksInv, PlanReady, InStep
<1>9. WaitsForLast'
  <2>1. pending' # <<>> /\ pending'[Len(pending')] = Current
    BY <1>2, <1>5, AppendOK
  <2>2. QED BY <1>2, <2>1 DEF WaitsForLast, Current, Working
<1>10. QED BY <1>4, <1>6, <1>7, <1>8, <1>9 DEF TasksInv

\* setLendingGauge is the last step of a gauge task.
LEMMA PostInv == TasksInv /\ Post => TasksInv'
<1>1. SUFFICES ASSUME TasksInv, Post PROVE TasksInv'
  OBVIOUS
<1>2. /\ Working /\ Current.kind = "attach" /\ pending' = Append(pending, Current)
      /\ plan' = Tail(plan) /\ plan # <<>> /\ status = "running"
      /\ UNCHANGED <<menu, chain, status, task, crashes>>
  BY <1>1 DEF Post, Working
<1>3. UNCHANGED chain
  BY <1>2
<1>4. pending' \in Seq(Step) /\ SentReady'
  BY <1>1, <1>2, <1>3, SendOK
<1>5. /\ plan' \in Seq(Step) /\ InStep(plan')
      /\ plan' # <<>> /\ Head(plan').kind = "phases" => Current.kind = "gauge"
      /\ plan' # <<>> /\ Head(plan').kind = "attach" => Current.kind = "phases"
  <2>1. plan \in Seq(Step) /\ InStep(plan)
    BY <1>1 DEF TasksInv, TypeOK
  <2>2. QED BY <1>2, <2>1, TailOK DEF Current, On
<1>6. TypeOK'
  BY <1>1, <1>2, <1>4, <1>5 DEF TasksInv, TypeOK, chain
<1>7. GaugesReady' /\ GaugeFirst'
  BY <1>1, <1>3, ChainKept
<1>8. PlanReady' /\ WaitsForLast'
  BY <1>2, <1>5 DEF PlanReady, WaitsForLast, Ready, Current
<1>9. QED BY <1>4, <1>5, <1>6, <1>7, <1>8 DEF TasksInv

LEMMA MineAwaitedInv == TasksInv /\ MineAwaited => TasksInv'
<1>1. SUFFICES ASSUME TasksInv, MineAwaited PROVE TasksInv'
  OBVIOUS
<1>2. /\ TypeOK /\ GaugesReady /\ GaugeFirst /\ InStep(plan) /\ plan \in Seq(Step)
      /\ pending \in Seq(Step)
  BY <1>1 DEF TasksInv, TypeOK
<1>3. /\ status = "waiting" /\ Len(pending) = 1 /\ pending' = <<>>
      /\ UNCHANGED <<menu, task, crashes>>
  BY <1>1 DEF MineAwaited
<1>4. /\ Head(pending) = Current /\ Current \in Step /\ plan # <<>> /\ Ready(Current)
  <2>1. plan # <<>> /\ pending[Len(pending)] = Current
    BY <1>1, <1>3 DEF TasksInv, WaitsForLast
  <2>2. Head(pending) = pending[1] /\ 1 \in DOMAIN pending
    BY <1>2, <1>3
  <2>3. Ready(pending[1])
    BY <1>1, <2>2 DEF TasksInv, SentReady, Ready
  <2>4. QED BY <1>2, <1>3, <2>1, <2>2, <2>3, TailOK DEF Current
<1>5. Execute(Current)
  BY <1>1, <1>4 DEF MineAwaited
<1>6. /\ follows' \in [Kind -> SUBSET Reserve] /\ phases' \in [Reserve -> Nat]
      /\ powers' \in BOOLEAN /\ GaugesReady' /\ GaugeFirst'
  BY <1>2, <1>4, <1>5, ExecuteOK
<1>7. SentReady'
  BY <1>3 DEF SentReady
<1>8. CASE ~Accepted(Current)
  <2>1. status' = "failed" /\ UNCHANGED plan
    BY <1>1, <1>4, <1>8 DEF MineAwaited
  <2>2. TypeOK'
    BY <1>2, <1>3, <1>6, <2>1 DEF TypeOK
  <2>3. QED BY <1>2, <1>6, <1>7, <2>1, <2>2 DEF TasksInv, PlanReady, WaitsForLast, InStep
<1>9. CASE Accepted(Current)
  <2>1. status' = "running" /\ plan' = Tail(plan)
    BY <1>1, <1>4, <1>9 DEF MineAwaited
  <2>2. /\ plan' \in Seq(Step) /\ InStep(plan')
        /\ plan' # <<>> /\ Head(plan').kind = "phases" => Current = On("gauge", FALSE, Head(plan').on)
        /\ plan' # <<>> /\ Head(plan').kind = "attach" => Current = On("phases", FALSE, Head(plan').on)
    BY <1>2, <1>4, <2>1, TailOK DEF Current
  <2>3. TypeOK'
    BY <1>2, <1>3, <1>6, <2>1, <2>2 DEF TypeOK
  <2>4. ASSUME plan' # <<>>, Head(plan').kind = "phases"
        PROVE  powers' /\ \A r \in Head(plan').on : r \in follows["gauge"]' /\ phases[r]' = 0
    <3>1. Current.kind = "gauge" /\ Current.on = Head(plan').on
      BY <2>2, <2>4 DEF On
    <3>2. QED BY <1>2, <1>4, <1>5, <1>9, <3>1, ExecuteOK
  <2>5. ASSUME plan' # <<>>, Head(plan').kind = "attach"
        PROVE  powers' /\ \A r \in Head(plan').on : r \in follows["gauge"]' /\ phases[r]' = 1
    <3>1. Current.kind = "phases" /\ Current.on = Head(plan').on
      BY <2>2, <2>5 DEF On
    <3>2. QED BY <1>2, <1>4, <1>5, <1>9, <3>1, ExecuteOK
  <2>6. PlanReady'
    BY <1>3, <2>4, <2>5 DEF PlanReady, Ready, Current
  <2>7. WaitsForLast'
    BY <2>1 DEF WaitsForLast
  <2>8. QED BY <1>6, <1>7, <2>2, <2>3, <2>6, <2>7 DEF TasksInv
<1>10. QED BY <1>8, <1>9

\* Behind the first transaction there is none that needs it.
LEMMA MineOtherInv == TasksInv /\ MineOther => TasksInv'
<1>1. SUFFICES ASSUME TasksInv, MineOther PROVE TasksInv'
  OBVIOUS
<1>2. /\ TypeOK /\ GaugesReady /\ GaugeFirst /\ pending \in Seq(Step)
  BY <1>1 DEF TasksInv, TypeOK
<1>3. /\ pending # <<>> /\ (status = "waiting" => Len(pending) > 1)
      /\ Execute(Head(pending)) /\ pending' = Tail(pending)
      /\ UNCHANGED <<menu, status, task, plan, crashes>>
  BY <1>1 DEF MineOther, process
<1>4. /\ Head(pending) = pending[1] /\ 1 \in DOMAIN pending /\ pending[1] \in Step
  BY <1>2, <1>3
<1>5. Ready(Head(pending))
  BY <1>1, <1>4 DEF TasksInv, SentReady, Ready
<1>6. /\ follows' \in [Kind -> SUBSET Reserve] /\ phases' \in [Reserve -> Nat]
      /\ powers' \in BOOLEAN /\ GaugesReady' /\ GaugeFirst'
  BY <1>2, <1>3, <1>4, <1>5, ExecuteOK
<1>7. /\ pending' \in Seq(Step) /\ Len(pending') = Len(pending) - 1
      /\ Len(pending) \in Nat \ {0}
      /\ \A k \in DOMAIN pending' :
           k + 1 \in DOMAIN pending /\ k + 1 > 1 /\ pending'[k] = pending[k + 1]
  BY <1>2, <1>3
<1>8. TypeOK'
  BY <1>2, <1>3, <1>6, <1>7 DEF TypeOK
<1>9. SentReady'
  <2>1. ASSUME NEW k \in DOMAIN pending' PROVE pending'[k].kind \notin {"phases", "attach"}
    <3>1. PICK j \in DOMAIN pending : j > 1 /\ pending'[k] = pending[j]
      BY <1>7
    <3>2. QED BY <1>1, <3>1 DEF TasksInv, SentReady
  <2>2. QED BY <2>1 DEF SentReady
<1>10. PlanReady'
  BY <1>1, <1>3 DEF TasksInv, PlanReady, Ready, Current
<1>11. WaitsForLast'
  <2>1. SUFFICES ASSUME status = "waiting"
                 PROVE  plan # <<>> /\ pending' # <<>> /\ pending'[Len(pending')] = Current
    BY <1>3 DEF WaitsForLast, Current
  <2>2. plan # <<>> /\ pending[Len(pending)] = Current /\ Len(pending) > 1
    BY <1>1, <1>3, <2>1 DEF TasksInv, WaitsForLast
  <2>3. Len(pending') \in DOMAIN pending' /\ pending' # <<>>
    BY <1>7, <2>2
  <2>4. pending'[Len(pending')] = pending[Len(pending') + 1] /\ Len(pending') + 1 = Len(pending)
    BY <1>7, <2>3
  <2>5. QED BY <2>2, <2>3, <2>4
<1>12. InStep(plan)'
  BY <1>1, <1>3 DEF TasksInv, InStep
<1>13. QED BY <1>6, <1>8, <1>9, <1>10, <1>11, <1>12 DEF TasksInv

-----------------------------------------------------------------------------
(* The theorems.                                                           *)
LEMMA NextInv == TasksInv /\ [Next]_vars => TasksInv'
<1>1. CASE UNCHANGED vars
  BY <1>1 DEF vars, chain, process, TasksInv, TypeOK, GaugesReady, GaugeFirst, InStep,
              PlanReady, WaitsForLast, SentReady, Ready, Current
<1>2. CASE Next
  BY <1>2, LaunchInv, StopInv, SkipInv, SendInv, PostInv, MineAwaitedInv, MineOtherInv
     DEF Next, Progress, Mine
<1>3. QED BY <1>1, <1>2

(* The inductive invariant: addPhases and setLendingGauge are sent when    *)
(* what they need is there and nothing else is under way.                  *)
THEOREM TasksInvariant == Spec => []TasksInv
<1>1. QED BY InitInv, NextInv, PTL DEF Spec

(* setLendingGauge, whose receipt no task reads, never reverts.            *)
THEOREM PostedIsAccepted == Spec => []PostedNeverReverts
<1>1. TasksInv => PostedNeverReverts
  <2>1. SUFFICES ASSUME TasksInv, Attaching
                 PROVE  Accepted(Head(pending)) /\ \A r \in Head(pending).on : phases[r] = 1
    BY DEF PostedNeverReverts
  <2>2. pending \in Seq(Step) /\ pending # <<>> /\ Head(pending).kind = "attach"
    BY <2>1 DEF TasksInv, TypeOK, Attaching
  <2>3. Head(pending) = pending[1] /\ 1 \in DOMAIN pending
    BY <2>2
  <2>4. Ready(Head(pending))
    BY <2>1, <2>2, <2>3 DEF TasksInv, SentReady
  <2>5. QED BY <2>2, <2>4 DEF Ready, Accepted
<1>2. QED BY <1>1, TasksInvariant, PTL

(* A gauge the pool uses has its phases exactly once.                      *)
THEOREM GaugesAreReady == Spec => []GaugesReady
<1>1. TasksInv => GaugesReady
  BY DEF TasksInv
<1>2. QED BY <1>1, TasksInvariant, PTL

-----------------------------------------------------------------------------
(* What is left of a plan.                                                 *)
\* CategoryFirst and OneByOne of a plan p, when C are in the category
InCategory(p, C) ==
  \A k \in DOMAIN p : p[k].kind = "emode" =>
    \/ p[k].on \subseteq C
    \/ \E j \in 1 .. k - 1 : /\ p[j].kind = "category" /\ ~p[j].review
                             /\ p[k].on \subseteq p[j].on

Single(p) ==
  \A k \in DOMAIN p : p[k].kind \in {"gauge", "revision"} =>
    \E r \in Reserve : p[k] = On(p[k].kind, FALSE, {r})

LEMMA ForEachElements ==
  ASSUME NEW kind \in Kind, NEW review \in BOOLEAN, NEW S
  PROVE  /\ ForEach(kind, review, S) \in Seq(Step)
         /\ DOMAIN ForEach(kind, review, S) = DOMAIN Order
         /\ \A k \in DOMAIN Order :
              ForEach(kind, review, S)[k] = On(kind, review, {Order[k]} \cap S)
<1>1. Len(Order) \in Nat /\ DOMAIN Order = 1 .. Len(Order) /\ Order \in Seq(Reserve)
  BY TasksAssumption
<1>2. ASSUME NEW k \in DOMAIN Order PROVE On(kind, review, {Order[k]} \cap S) \in Step
  <2>1. Order[k] \in Reserve
    BY <1>1, <1>2
  <2>2. QED BY <2>1 DEF On, Step
<1>3. QED BY <1>1, <1>2, IsASeq DEF ForEach

\* A plan made of two
LEMMA Joined ==
  ASSUME NEW p \in Seq(Step), NEW q \in Seq(Step)
  PROVE  /\ p \o q \in Seq(Step)
         /\ \A k \in DOMAIN p : k \in DOMAIN (p \o q) /\ (p \o q)[k] = p[k]
         /\ \A k \in DOMAIN q :
              Len(p) + k \in DOMAIN (p \o q) /\ (p \o q)[Len(p) + k] = q[k]
         /\ \A k \in DOMAIN (p \o q) :
              k \in DOMAIN p \/ (k - Len(p) \in DOMAIN q /\ (p \o q)[k] = q[k - Len(p)])
<1> DEFINE u == p \o q
<1>1. /\ u \in Seq(Step) /\ Len(u) = Len(p) + Len(q) /\ Len(p) \in Nat /\ Len(q) \in Nat
      /\ \A i \in 1 .. Len(u) : u[i] = IF i <= Len(p) THEN p[i] ELSE q[i - Len(p)]
  BY ConcatProperties
<1>2. /\ DOMAIN p = 1 .. Len(p) /\ DOMAIN q = 1 .. Len(q)
      /\ DOMAIN u = 1 .. Len(p) + Len(q)
  BY <1>1
<1> HIDE DEF u
<1>3. \A k \in DOMAIN p : k \in DOMAIN u /\ u[k] = p[k]
  BY <1>1, <1>2
<1>4. ASSUME NEW k \in DOMAIN q PROVE Len(p) + k \in DOMAIN u /\ u[Len(p) + k] = q[k]
  <2>1. /\ Len(p) + k \in 1 .. Len(u) /\ ~(Len(p) + k <= Len(p)) /\ Len(p) + k - Len(p) = k
    BY <1>1, <1>2
  <2>2. QED BY <1>1, <1>2, <2>1
<1>5. ASSUME NEW k \in DOMAIN u, k \notin DOMAIN p
      PROVE  k - Len(p) \in DOMAIN q /\ u[k] = q[k - Len(p)]
  <2>1. k \in 1 .. Len(u) /\ ~(k <= Len(p)) /\ k - Len(p) \in 1 .. Len(q)
    BY <1>1, <1>2, <1>5
  <2>2. QED BY <1>1, <1>2, <2>1
<1>6. QED BY <1>1, <1>3, <1>4, <1>5 DEF u

LEMMA InCategoryJoined ==
  ASSUME NEW p \in Seq(Step), NEW q \in Seq(Step), NEW C, InCategory(p, C), InCategory(q, C)
  PROVE  InCategory(p \o q, C)
<1> DEFINE u == p \o q
           Named(k) == \E j \in 1 .. k - 1 : /\ u[j].kind = "category" /\ ~u[j].review
                                             /\ u[k].on \subseteq u[j].on
<1>1. SUFFICES ASSUME NEW k \in DOMAIN u, u[k].kind = "emode"
               PROVE  u[k].on \subseteq C \/ Named(k)
  BY DEF InCategory
<1>2. /\ Len(p) \in Nat /\ DOMAIN p = 1 .. Len(p) /\ DOMAIN q = 1 .. Len(q)
      /\ Len(q) \in Nat
  OBVIOUS
<1>3. CASE k \in DOMAIN p
  <2>1. u[k] = p[k]
    BY <1>3, Joined
  <2>2. CASE p[k].on \subseteq C
    BY <2>1, <2>2
  <2>3. CASE ~(p[k].on \subseteq C)
    <3>1. PICK j \in 1 .. k - 1 : /\ p[j].kind = "category" /\ ~p[j].review
                                  /\ p[k].on \subseteq p[j].on
      BY <1>1, <1>3, <2>1, <2>3 DEF InCategory
    <3>2. j \in DOMAIN p
      BY <1>2, <1>3
    <3>3. u[j] = p[j]
      BY <3>2, Joined
    <3>4. QED BY <2>1, <3>1, <3>3
  <2>4. QED BY <2>2, <2>3
<1>4. CASE k \notin DOMAIN p
  <2>1. k - Len(p) \in DOMAIN q /\ u[k] = q[k - Len(p)]
    BY <1>4, Joined
  <2>2. CASE q[k - Len(p)].on \subseteq C
    BY <2>1, <2>2
  <2>3. CASE ~(q[k - Len(p)].on \subseteq C)
    <3>1. PICK j \in 1 .. k - Len(p) - 1 :
                /\ q[j].kind = "category" /\ ~q[j].review
                /\ q[k - Len(p)].on \subseteq q[j].on
      BY <1>1, <2>1, <2>3 DEF InCategory
    <3>2. k - Len(p) \in 1 .. Len(q)
      BY <1>2, <2>1
    <3>3. k \in Int
      BY Joined, <1>2
    <3>4. j \in DOMAIN q /\ Len(p) + j \in 1 .. k - 1
      BY <1>2, <3>2, <3>3
    <3>5. u[Len(p) + j] = q[j]
      BY <3>4, Joined
    <3>6. QED BY <2>1, <3>1, <3>4, <3>5
  <2>4. QED BY <2>2, <2>3
<1>5. QED BY <1>3, <1>4

LEMMA SingleJoined ==
  ASSUME NEW p \in Seq(Step), NEW q \in Seq(Step), Single(p), Single(q)
  PROVE  Single(p \o q)
<1> DEFINE u == p \o q
<1>1. \A k \in DOMAIN u :
        \/ k \in DOMAIN p /\ u[k] = p[k]
        \/ k - Len(p) \in DOMAIN q /\ u[k] = q[k - Len(p)]
  BY Joined
<1> HIDE DEF u
<1>2. Single(u)
  BY <1>1 DEF Single
<1>3. QED BY <1>2 DEF u

\* Loops over settings other than the e-mode are no trouble.
LEMMA LoopFits ==
  ASSUME NEW kind \in Kind \ (Gauge \cup {"emode", "revision"}), NEW review \in BOOLEAN,
         NEW S, NEW C
  PROVE  /\ ForEach(kind, review, S) \in Seq(Step)
         /\ InCategory(ForEach(kind, review, S), C) /\ Single(ForEach(kind, review, S))
<1>1. kind \notin {"emode", "gauge", "revision"} /\ kind \in Kind
  BY DEF Gauge
<1> DEFINE p == ForEach(kind, review, S)
<1>2. /\ p \in Seq(Step) /\ DOMAIN p = DOMAIN Order
      /\ \A k \in DOMAIN Order : p[k] = On(kind, review, {Order[k]} \cap S)
  BY <1>1, ForEachElements
<1> HIDE DEF p
<1>3. \A k \in DOMAIN p : p[k].kind = kind
  BY <1>2 DEF On
<1>4. InCategory(p, C) /\ Single(p)
  BY <1>1, <1>3 DEF InCategory, Single
<1>5. QED BY <1>2, <1>4 DEF p

LEMMA Unit ==
  ASSUME NEW S, NEW a \in S
  PROVE  /\ <<a>> \in Seq(S) /\ Len(<<a>>) = 1 /\ DOMAIN <<a>> = {1}
         /\ <<a>>[1] = a
OBVIOUS

LEMMA SetupEModesFits ==
  ASSUME NEW C
  PROVE  SetupEModes \in Seq(Step) /\ InCategory(SetupEModes, C) /\ Single(SetupEModes)
<1> DEFINE p == EModeCategory
           q == Setup("emode")
           u == p \o q
<1>1. Wanted["emode"] \in SUBSET Reserve /\ "emode" \in Kind /\ "category" \in Kind
  BY TasksAssumption DEF Configured, Kind
<1>2. /\ p \in Seq(Step) /\ Len(p) = 1 /\ DOMAIN p = {1}
      /\ p[1] = On("category", FALSE, Wanted["emode"])
  <2>1. On("category", FALSE, Wanted["emode"]) \in Step
    BY <1>1 DEF On, Step
  <2>2. p = <<On("category", FALSE, Wanted["emode"])>>
    BY DEF EModeCategory
  <2> HIDE DEF p
  <2>3. QED BY <2>1, <2>2, Unit
<1>3. /\ q \in Seq(Step) /\ DOMAIN q = DOMAIN Order
      /\ \A k \in DOMAIN q : q[k] = On("emode", FALSE, {Order[k]} \cap Wanted["emode"])
  <2>1. q = ForEach("emode", FALSE, Wanted["emode"])
    BY DEF Setup
  <2> HIDE DEF q
  <2>2. /\ q \in Seq(Step) /\ DOMAIN q = DOMAIN Order
        /\ \A k \in DOMAIN Order : q[k] = On("emode", FALSE, {Order[k]} \cap Wanted["emode"])
    BY <1>1, <2>1, ForEachElements, FALSE \in BOOLEAN
  <2>3. QED BY <2>2
<1>4. DOMAIN q = 1 .. Len(q) /\ Len(q) \in Nat
  BY <1>3
<1> HIDE DEF p, q
<1>5. /\ u \in Seq(Step)
      /\ \A k \in DOMAIN u :
           (k = 1 /\ u[k] = p[1]) \/ (k - 1 \in DOMAIN q /\ u[k] = q[k - 1])
      /\ u[1] = p[1]
  <2>1. /\ u \in Seq(Step)
        /\ \A k \in DOMAIN p : u[k] = p[k]
        /\ \A k \in DOMAIN u : k \in DOMAIN p \/ (k - Len(p) \in DOMAIN q /\ u[k] = q[k - Len(p)])
    BY <1>2, <1>3, Joined
  <2> HIDE DEF u
  <2>2. QED BY <1>2, <2>1
<1>6. DOMAIN u \subseteq Int
  BY <1>5
<1> HIDE DEF u
<1>7. InCategory(u, C)
  <2>1. SUFFICES ASSUME NEW k \in DOMAIN u, u[k].kind = "emode"
                 PROVE  \E j \in 1 .. k - 1 : /\ u[j].kind = "category" /\ ~u[j].review
                                              /\ u[k].on \subseteq u[j].on
    BY DEF InCategory
  <2>2. k - 1 \in DOMAIN q /\ u[k] = q[k - 1]
    BY <1>2, <1>5, <2>1 DEF On
  <2>3. u[k].on \subseteq Wanted["emode"]
    BY <1>3, <2>2 DEF On
  <2>4. 1 \in 1 .. k - 1
    BY <1>4, <1>6, <2>2
  <2>5. u[1].kind = "category" /\ ~u[1].review /\ u[1].on = Wanted["emode"]
    BY <1>2, <1>5 DEF On
  <2>6. QED BY <2>3, <2>4, <2>5
<1>8. Single(u)
  <2>1. p[1].kind = "category" /\ \A k \in DOMAIN q : q[k].kind = "emode"
    BY <1>2, <1>3 DEF On
  <2>2. \A k \in DOMAIN u : u[k].kind \in {"category", "emode"}
    BY <1>5, <2>1
  <2>3. QED BY <2>2 DEF Single
<1>9. QED BY <1>5, <1>7, <1>8 DEF SetupEModes, u, p, q

LEMMA UnitFits ==
  ASSUME NEW kind \in Kind \ {"emode", "gauge", "revision"}, NEW review \in BOOLEAN,
         NEW S \in SUBSET Reserve, NEW C
  PROVE  /\ <<On(kind, review, S)>> \in Seq(Step)
         /\ InCategory(<<On(kind, review, S)>>, C) /\ Single(<<On(kind, review, S)>>)
<1> DEFINE a == On(kind, review, S)
           p == <<a>>
<1>1. a \in Step /\ a.kind = kind
  BY DEF On, Step
<1> HIDE DEF a
<1>2. p \in Seq(Step) /\ DOMAIN p = {1} /\ p[1] = a
  BY <1>1, Unit
<1> HIDE DEF p
<1>3. InCategory(p, C) /\ Single(p)
  BY <1>1, <1>2 DEF InCategory, Single
<1>4. QED BY <1>2, <1>3 DEF p, a

LEMMA HookFits ==
  ASSUME NEW C PROVE Hook \in Seq(Step) /\ InCategory(Hook, C) /\ Single(Hook)
<1> DEFINE a == Review("stable", Reserve)
           b == Setup("ceiling")
           c == Setup("isolation")
           d == SetupEModes
           e == Setup("fee")
<1>1. \A k \in {"ceiling", "isolation", "fee"} :
        Setup(k) \in Seq(Step) /\ InCategory(Setup(k), C) /\ Single(Setup(k))
  BY LoopFits DEF Setup, Kind, Gauge, Configured
<1>2. a \in Seq(Step) /\ InCategory(a, C) /\ Single(a)
  BY LoopFits DEF Review, Kind, Gauge, Reviewed
<1>3. /\ b \in Seq(Step) /\ InCategory(b, C) /\ Single(b)
      /\ c \in Seq(Step) /\ InCategory(c, C) /\ Single(c)
      /\ e \in Seq(Step) /\ InCategory(e, C) /\ Single(e)
  BY <1>1
<1>4. d \in Seq(Step) /\ InCategory(d, C) /\ Single(d)
  BY SetupEModesFits
<1>5. Hook = (((a \o b) \o c) \o d) \o e
  BY DEF Hook
<1> HIDE DEF a, b, c, d, e
<1>6. a \o b \in Seq(Step) /\ InCategory(a \o b, C) /\ Single(a \o b)
  BY <1>2, <1>3, Joined, InCategoryJoined, SingleJoined
<1>7. /\ (a \o b) \o c \in Seq(Step) /\ InCategory((a \o b) \o c, C)
      /\ Single((a \o b) \o c)
  BY <1>3, <1>6, Joined, InCategoryJoined, SingleJoined
<1>8. /\ ((a \o b) \o c) \o d \in Seq(Step) /\ InCategory(((a \o b) \o c) \o d, C)
      /\ Single(((a \o b) \o c) \o d)
  BY <1>4, <1>7, Joined, InCategoryJoined, SingleJoined
<1>9. QED BY <1>3, <1>5, <1>8, Joined, InCategoryJoined, SingleJoined

\* No plan puts an asset into a category before it makes it, and all are
\* careful with what can be done only once.
LEMMA PlansFit ==
  ASSUME NEW t \in Task, NEW p \in Plans(t), NEW C
  PROVE  InCategory(p, C) /\ Single(p)
<1>1. InCategory(<<>>, C) /\ Single(<<>>)
  BY DEF InCategory, Single
<1>2. \A S \in SUBSET Reserve, k \in Reviewed : InCategory(Review(k, S), C) /\ Single(Review(k, S))
  BY LoopFits DEF Review, Kind, Gauge, Reviewed
<1>3. CASE t = "hook"
  BY <1>3, HookFits DEF Plans
<1>4. CASE t = "hook and transfer"
  <2> DEFINE q == <<On("transfer", FALSE, {})>>
  <2>1. q \in Seq(Step) /\ InCategory(q, C) /\ Single(q)
    BY UnitFits DEF Kind, Reviewed, Configured, Gauge
  <2>2. p = Hook \o q
    BY <1>4 DEF Plans
  <2> HIDE DEF q
  <2>3. QED BY <2>1, <2>2, HookFits, InCategoryJoined, SingleJoined
<1>5. CASE t = "review-stable-borrow"
  BY <1>2, <1>5 DEF Plans, Reviewed
<1>6. CASE t = "review-rate-strategies"
  BY <1>2, <1>6 DEF Plans, Reviewed
<1>7. CASE t = "review-supply-caps"
  BY <1>2, <1>7 DEF Plans, Reviewed
<1>8. CASE t = "review-e-mode"
  <2>1. Wanted["emode"] \in SUBSET Reserve /\ "category" \in Kind \ {"emode", "gauge", "revision"}
    BY TasksAssumption DEF Configured, Kind
  <2>2. p = <<On("category", TRUE, Wanted["emode"])>>
    BY <1>8 DEF Plans
  <2>3. QED BY <2>1, <2>2, UnitFits
<1>9. CASE t = "upgrade-htokens"
  <2>1. "revision" \in Kind
    BY DEF Kind
  <2> DEFINE q == ForEach("revision", FALSE, Reserve)
  <2>2. /\ DOMAIN q = DOMAIN Order
        /\ \A k \in DOMAIN Order : q[k] = On("revision", FALSE, {Order[k]} \cap Reserve)
    BY <2>1, ForEachElements, FALSE \in BOOLEAN
  <2> HIDE DEF q
  <2>3. ASSUME NEW k \in DOMAIN Order
        PROVE  q[k].kind = "revision" /\ \E r \in Reserve : q[k] = On("revision", FALSE, {r})
    <3>1. Order[k] \in Reserve
      BY TasksAssumption
    <3>2. {Order[k]} \cap Reserve = {Order[k]}
      BY <3>1
    <3>3. q[k] = On("revision", FALSE, {Order[k]})
      BY <2>2, <3>2
    <3>4. q[k].kind = "revision"
      BY <3>3 DEF On
    <3>5. QED BY <3>1, <3>3, <3>4
  <2>4. InCategory(q, C) /\ Single(q)
    BY <2>2, <2>3 DEF InCategory, Single
  <2>5. p = <<>> \/ p = q
    BY <1>9 DEF Plans, q
  <2>6. QED BY <1>1, <2>4, <2>5
<1>10. CASE t = "lending-gauge"
  <2>1. SUFFICES ASSUME NEW r \in Reserve, p = LendingGauge(r)
                 PROVE  InCategory(p, C) /\ Single(p)
    BY <1>1, <1>10 DEF Plans
  <2>2. p = << On("gauge", FALSE, {r}), On("phases", FALSE, {r}), On("attach", FALSE, {r}) >>
    BY <2>1 DEF LendingGauge
  <2>3. DOMAIN p = {1, 2, 3} /\ p[1] = On("gauge", FALSE, {r})
        /\ p[2] = On("phases", FALSE, {r}) /\ p[3] = On("attach", FALSE, {r})
    BY <2>2
  <2>4. p[1].kind = "gauge" /\ p[2].kind = "phases" /\ p[3].kind = "attach"
    BY <2>3 DEF On
  <2>5. QED BY <2>3, <2>4 DEF InCategory, Single
<1>11. QED BY <1>3, <1>4, <1>5, <1>6, <1>7, <1>8, <1>9, <1>10 DEF Task

\* The elements of what is left after the first step
LEMMA TailElements ==
  ASSUME NEW p \in Seq(Step), p # <<>>
  PROVE  /\ Head(p) = p[1] /\ 1 \in DOMAIN p /\ Head(p) \in Step
         /\ Tail(p) \in Seq(Step) /\ DOMAIN Tail(p) \subseteq Nat \ {0}
         /\ \A k \in DOMAIN Tail(p) : k + 1 \in DOMAIN p /\ Tail(p)[k] = p[k + 1]
         /\ \A k \in DOMAIN p : k # 1 => k - 1 \in DOMAIN Tail(p) /\ p[k] = Tail(p)[k - 1]
<1> DEFINE q == Tail(p)
<1>1. /\ Len(p) \in Nat \ {0} /\ DOMAIN p = 1 .. Len(p) /\ Head(p) = p[1] /\ p[1] \in Step
      /\ q \in Seq(Step) /\ Len(q) = Len(p) - 1
      /\ \A k \in 1 .. Len(p) - 1 : q[k] = p[k + 1]
  OBVIOUS
<1>2. DOMAIN q = 1 .. Len(p) - 1
  BY <1>1
<1> HIDE DEF q
<1>3. ASSUME NEW k \in DOMAIN p, k # 1 PROVE k - 1 \in DOMAIN q /\ p[k] = q[k - 1]
  <2>1. k - 1 \in 1 .. Len(p) - 1 /\ (k - 1) + 1 = k
    BY <1>1, <1>3
  <2>2. q[k - 1] = p[(k - 1) + 1]
    BY <1>1, <2>1
  <2>3. QED BY <1>2, <2>1, <2>2
<1>4. \A k \in DOMAIN q : k + 1 \in DOMAIN p /\ q[k] = p[k + 1]
  BY <1>1, <1>2
<1>5. DOMAIN q \subseteq Nat \ {0} /\ 1 \in DOMAIN p
  BY <1>1, <1>2
<1>6. QED BY <1>1, <1>3, <1>4, <1>5 DEF q

LEMMA TailFits ==
  ASSUME NEW p \in Seq(Step), p # <<>>, NEW C, NEW D, C \subseteq D, InCategory(p, C),
         Head(p).kind = "category" /\ ~Head(p).review => Head(p).on \subseteq D
  PROVE  InCategory(Tail(p), D)
<1> DEFINE q == Tail(p)
<1>1. SUFFICES ASSUME NEW k \in DOMAIN q, q[k].kind = "emode", ~(q[k].on \subseteq D)
               PROVE  \E j \in 1 .. k - 1 : /\ q[j].kind = "category" /\ ~q[j].review
                                            /\ q[k].on \subseteq q[j].on
  BY DEF InCategory
<1>2. /\ k \in Nat \ {0} /\ k + 1 \in DOMAIN p /\ q[k] = p[k + 1] /\ Head(p) = p[1]
      /\ \A j \in DOMAIN q : q[j] = p[j + 1]
      /\ \A j \in DOMAIN p : j # 1 => j - 1 \in DOMAIN q /\ p[j] = q[j - 1]
  BY TailElements
<1> HIDE DEF q
<1>3. PICK i \in DOMAIN p : i = k + 1 /\ q[k] = p[i]
  BY <1>2
<1>4. PICK j \in 1 .. i - 1 : /\ p[j].kind = "category" /\ ~p[j].review
                              /\ p[i].on \subseteq p[j].on
  BY <1>1, <1>3 DEF InCategory
<1>5. j # 1
  BY <1>1, <1>2, <1>3, <1>4
<1>6. j \in DOMAIN p /\ j - 1 \in 1 .. k - 1
  <2>1. DOMAIN p = 1 .. Len(p) /\ Len(p) \in Nat
    OBVIOUS
  <2>2. QED BY <1>2, <1>3, <1>4, <1>5, <2>1
<1>7. p[j] = q[j - 1]
  BY <1>2, <1>5, <1>6
<1>8. QED BY <1>2, <1>3, <1>4, <1>6, <1>7

LEMMA TailSingle ==
  ASSUME NEW p \in Seq(Step), p # <<>>, Single(p)
  PROVE  Single(Tail(p))
<1>1. \A k \in DOMAIN Tail(p) : \E j \in DOMAIN p : Tail(p)[k] = p[j]
  BY TailElements
<1>2. QED BY <1>1 DEF Single

\* What a transaction adds
LEMMA ExecuteAdds ==
  ASSUME TypeOK, NEW t \in Step, Execute(t)
  PROVE  /\ \A k \in Kind : follows[k] \subseteq follows'[k]
         /\ \A k \in Kind : (k # t.kind \/ ~Accepted(t)) => follows'[k] = follows[k]
         /\ Accepted(t) => t.on \subseteq follows'[t.kind]
<1>1. CASE ~Accepted(t)
  BY <1>1 DEF Execute, chain
<1>2. CASE Accepted(t)
  <2>1. follows' = [follows EXCEPT ![t.kind] = follows[t.kind] \cup t.on] /\ t.kind \in Kind
    BY <1>2 DEF Execute, Step
  <2>2. \A k \in Kind : follows'[k] = IF k = t.kind THEN follows[k] \cup t.on ELSE follows[k]
    BY <2>1 DEF TypeOK
  <2>3. QED BY <1>2, <2>1, <2>2
<1>3. QED BY <1>1, <1>2

-----------------------------------------------------------------------------
(* What a task can fail at.                                                *)
\* TaskFailureInv after a step, in these words
LEMMA FailureAfterStep ==
  ASSUME TaskFailureIsExplained', InCategory(plan', follows'["category"]), Single(plan')
  PROVE  TaskFailureInv'
BY DEF TaskFailureInv, CategoryFirst, OneByOne, InCategory, Single

LEMMA FailureInWords ==
  TaskFailureInv => /\ TaskFailureIsExplained /\ InCategory(plan, follows["category"])
                /\ Single(plan)
BY DEF TaskFailureInv, CategoryFirst, OneByOne, InCategory, Single

\* What a failure is explained by stays while the chain gains.
LEMMA ExplainedKept ==
  ASSUME TaskFailureIsExplained, UNCHANGED plan, status' = "failed" => status = "failed",
         powers' => powers, \A k \in Kind : follows[k] \subseteq follows'[k]
  PROVE  TaskFailureIsExplained'
<1>1. Current' = Current /\ Throws' = Throws
  BY DEF Current, Throws
<1>2. "gauge" \in Kind /\ "revision" \in Kind
  BY DEF Kind, Gauge
<1>3. QED BY <1>1, <1>2 DEF TaskFailureIsExplained

LEMMA InCategoryGrows ==
  ASSUME NEW p, NEW C, NEW D, C \subseteq D, InCategory(p, C)
  PROVE  InCategory(p, D)
<1>1. ASSUME NEW k \in DOMAIN p, p[k].kind = "emode", ~(p[k].on \subseteq D)
      PROVE  \E j \in 1 .. k - 1 : /\ p[j].kind = "category" /\ ~p[j].review
                                   /\ p[k].on \subseteq p[j].on
  BY <1>1 DEF InCategory
<1>2. QED BY <1>1 DEF InCategory

\* The contracts refuse a task's transaction for what was handed over or
\* done before.
LEMMA RefusedIsExplained ==
  ASSUME TasksInv, TaskFailureInv, status = "waiting", ~Accepted(Current), powers, Ready(Current)
  PROVE  Current.kind \in {"gauge", "revision"} /\ Current.on \subseteq follows[Current.kind]
<1>1. /\ plan \in Seq(Step) /\ plan # <<>> /\ InCategory(plan, follows["category"])
      /\ Single(plan)
  BY FailureInWords DEF TasksInv, TypeOK, WaitsForLast
<1>2. Current = plan[1] /\ 1 \in DOMAIN plan
  BY <1>1, TailElements DEF Current
<1>3. Current.kind = "emode" => Current.on \subseteq follows["category"]
  BY <1>1, <1>2 DEF InCategory
<1>4. Current.kind \in {"phases", "attach"} => Current.on \subseteq follows["gauge"]
  BY DEF Ready
<1>5. Current.kind \in {"gauge", "revision"} /\ Current.on \cap follows[Current.kind] # {}
  BY <1>3, <1>4 DEF Accepted
<1>6. PICK r \in Reserve : Current = On(Current.kind, FALSE, {r})
  BY <1>1, <1>2, <1>5 DEF Single
<1>7. Current.on = {r}
  BY <1>6 DEF On
<1>8. QED BY <1>5, <1>7

LEMMA StepFailure ==
  ASSUME TasksInv, TaskFailureInv, [Next]_vars
  PROVE  TaskFailureInv'
<1>1. /\ TypeOK /\ plan \in Seq(Step) /\ pending \in Seq(Step)
      /\ TaskFailureIsExplained /\ InCategory(plan, follows["category"]) /\ Single(plan)
      /\ "category" \in Kind
  BY FailureInWords DEF TasksInv, TypeOK, Kind
<1>2. ASSUME UNCHANGED <<chain, plan>>, status' = "failed" => status = "failed"
      PROVE  TaskFailureInv'
  BY <1>1, <1>2, ExplainedKept, FailureAfterStep DEF chain
<1>3. ASSUME UNCHANGED chain, status' # "failed", plan' = Tail(plan), plan # <<>>,
             Current.kind = "category" /\ ~Current.review => Current.on = {}
      PROVE  TaskFailureInv'
  <2>1. InCategory(Tail(plan), follows["category"]) /\ Single(Tail(plan))
    BY <1>1, <1>3, TailFits, TailSingle DEF Current
  <2>2. follows' = follows /\ TaskFailureIsExplained'
    BY <1>3 DEF chain, TaskFailureIsExplained
  <2>3. QED BY <1>3, <2>1, <2>2, FailureAfterStep
<1>4. ASSUME NEW t \in Task, Launch(t) PROVE TaskFailureInv'
  <2>1. plan' \in Plans(t) /\ status' = "running"
    BY <1>4 DEF Launch
  <2>2. InCategory(plan', follows'["category"]) /\ Single(plan')
    BY <2>1, PlansFit
  <2>3. QED BY <2>1, <2>2, FailureAfterStep DEF TaskFailureIsExplained
<1>5. CASE Throw
  <2>1. Throws' /\ UNCHANGED <<chain, plan>>
    BY <1>5 DEF Throw, Throws, Current
  <2>2. QED BY <1>1, <2>1, FailureAfterStep DEF TaskFailureIsExplained, chain
<1>6. CASE Skip
  <2>1. /\ UNCHANGED <<chain, status>> /\ status = "running" /\ plan # <<>>
        /\ plan' = Tail(plan) /\ Skipped
    BY <1>6 DEF Skip, Working
  <2>2. Current.kind = "category" /\ ~Current.review => Current.on = {}
    BY <2>1 DEF Skipped
  <2>3. QED BY <1>3, <2>1, <2>2
<1>7. CASE Send
  BY <1>2, <1>7 DEF Send
<1>8. CASE Post
  BY <1>3, <1>8 DEF Post, Working
<1>9. CASE Finish
  BY <1>2, <1>9 DEF Finish
<1>10. CASE Crash
  <2>1. plan' = <<>> /\ status' = "killed"
    BY <1>10 DEF Crash
  <2>2. DOMAIN plan' = {}
    BY <2>1
  <2>3. InCategory(plan', follows'["category"]) /\ Single(plan')
    BY <2>2 DEF InCategory, Single
  <2>4. QED BY <2>1, <2>3, FailureAfterStep DEF TaskFailureIsExplained
<1>11. CASE MineAwaited
  <2>1. /\ status = "waiting" /\ plan # <<>> /\ Head(pending) = Current /\ Current \in Step
        /\ Ready(Current) /\ Execute(Current) /\ Current = Head(plan)
        /\ IF Accepted(Current) THEN status' = "running" /\ plan' = Tail(plan)
           ELSE status' = "failed" /\ UNCHANGED plan
    <3>1. /\ status = "waiting" /\ Len(pending) = 1 /\ Execute(Head(pending))
          /\ IF Accepted(Head(pending)) THEN status' = "running" /\ plan' = Tail(plan)
             ELSE status' = "failed" /\ UNCHANGED plan
      BY <1>11 DEF MineAwaited
    <3>2. plan # <<>> /\ pending[1] = Current
      BY <3>1 DEF TasksInv, WaitsForLast
    <3>3. Head(pending) = pending[1] /\ 1 \in DOMAIN pending
      BY <1>1, <3>1
    <3>4. Ready(pending[1])
      BY <3>3 DEF TasksInv, SentReady, Ready
    <3>5. QED BY <1>1, <3>1, <3>2, <3>3, <3>4, TailElements DEF Current
  <2>2. \A k \in Kind : follows[k] \subseteq follows'[k]
    BY <1>1, <2>1, ExecuteAdds
  <2>3. CASE Accepted(Current)
    <3>1. Current.on \subseteq follows'[Current.kind]
      BY <1>1, <2>1, <2>3, ExecuteAdds
    <3>2. InCategory(Tail(plan), follows'["category"]) /\ Single(Tail(plan))
      BY <1>1, <2>1, <2>2, <3>1, TailFits, TailSingle
    <3>3. QED BY <2>1, <2>3, <3>2, FailureAfterStep DEF TaskFailureIsExplained
  <2>4. CASE ~Accepted(Current)
    <3>1. status' = "failed" /\ UNCHANGED <<plan, follows, powers>>
      BY <2>1, <2>4 DEF Execute, chain
    <3>2. Current' = Current
      BY <3>1 DEF Current
    <3>3. TaskFailureIsExplained'
      BY <2>1, <2>4, <3>1, <3>2, RefusedIsExplained DEF TaskFailureIsExplained
    <3>4. QED BY <1>1, <3>1, <3>3, FailureAfterStep
  <2>5. QED BY <2>3, <2>4
<1>12. CASE MineOther
  <2>1. /\ pending # <<>> /\ Execute(Head(pending)) /\ UNCHANGED <<status, plan>>
    BY <1>12 DEF MineOther, process
  <2>2. Head(pending) \in Step
    BY <1>1, <2>1, TailElements
  <2>3. \A k \in Kind : follows[k] \subseteq follows'[k]
    BY <1>1, <2>1, <2>2, ExecuteAdds
  <2>4. powers' => powers
    BY <2>1 DEF Execute, chain, Accepted
  <2>5. TaskFailureIsExplained'
    BY <1>1, <2>1, <2>3, <2>4, ExplainedKept
  <2>6. InCategory(plan', follows'["category"]) /\ Single(plan')
    BY <1>1, <2>1, <2>3, InCategoryGrows
  <2>7. QED BY <2>5, <2>6, FailureAfterStep
<1>13. CASE UNCHANGED vars
  BY <1>2, <1>13 DEF vars, process
<1>14. QED
  BY <1>4, <1>5, <1>6, <1>7, <1>8, <1>9, <1>10, <1>11, <1>12, <1>13 DEF Next, Progress, Mine

LEMMA InitFailure == Init => TaskFailureInv
<1>1. SUFFICES ASSUME Init PROVE TaskFailureInv
  OBVIOUS
<1>2. DOMAIN plan = {} /\ status # "failed"
  BY <1>1 DEF Init
<1>3. QED BY <1>2 DEF TaskFailureInv, TaskFailureIsExplained, CategoryFirst, OneByOne

(* Whatever is killed, repeated, posted or handed over, an asset gets into *)
(* a category after it was made, and what works only once is tried for one *)
(* reserve at a time.                                                      *)
THEOREM FailureInvariant == Spec => []TaskFailureInv
<1>1. TasksInv /\ TaskFailureInv /\ [Next]_vars => TaskFailureInv'
  BY StepFailure
<1>2. QED BY <1>1, InitFailure, TasksInvariant, PTL DEF Spec

(* A task stops only for a lookup it cannot make, for powers handed over,  *)
(* or because it repeats what can be done only once.                       *)
THEOREM FailureExplained == Spec => []TaskFailureIsExplained
<1>1. TaskFailureInv => TaskFailureIsExplained
  BY DEF TaskFailureInv
<1>2. QED BY <1>1, FailureInvariant, PTL

-----------------------------------------------------------------------------
(* An upgrade of the tokens.                                               *)
\* When C are upgraded, the first token is, or a plan p begins with it.
FirstComesFirst(p, C) ==
  (\E k \in DOMAIN p : p[k].kind = "revision") =>
    Order[1] \in C \/ (Head(p).kind = "revision" /\ Order[1] \in Head(p).on)

\* UpgradeInv after a step, in these words
LEMMA UpgradeAfterStep ==
  ASSUME follows'["revision"] # {} => Order[1] \in follows'["revision"],
         \A k \in DOMAIN pending' :
           pending'[k].kind = "revision" => Order[1] \in pending'[k].on \cup follows'["revision"],
         Active' => FirstComesFirst(plan', follows'["revision"])
  PROVE  UpgradeInv'
BY DEF UpgradeInv, FirstComesFirst, Active, Current

LEMMA UpgradeInWords ==
  UpgradeInv =>
    /\ follows["revision"] # {} => Order[1] \in follows["revision"]
    /\ \A k \in DOMAIN pending :
         pending[k].kind = "revision" => Order[1] \in pending[k].on \cup follows["revision"]
    /\ Active => FirstComesFirst(plan, follows["revision"])
BY DEF UpgradeInv, FirstComesFirst, Active, Current

\* The steps of all tasks but upgrade-htokens
NotRevision == {s \in Step : s.kind # "revision"}

\* Those of the hook
HookStep ==
  {s \in Step : /\ s.kind \in {"stable", "category"} \cup Configured
                /\ s.kind \in Configured => ~s.review}

LEMMA ForEachOf ==
  ASSUME NEW kind \in Kind, NEW review \in BOOLEAN, NEW S,
         NEW T, \A r \in SUBSET Reserve : On(kind, review, r) \in T
  PROVE  ForEach(kind, review, S) \in Seq(T)
<1> DEFINE p == ForEach(kind, review, S)
<1>1. /\ p \in Seq(Step) /\ DOMAIN p = DOMAIN Order
      /\ \A k \in DOMAIN Order : p[k] = On(kind, review, {Order[k]} \cap S)
  BY ForEachElements
<1> HIDE DEF p
<1>2. ASSUME NEW k \in DOMAIN p PROVE p[k] \in T
  <2>1. Order[k] \in Reserve
    BY <1>1, TasksAssumption
  <2>2. QED BY <1>1, <2>1
<1>3. p \in Seq(T)
  BY <1>1, <1>2
<1>4. QED BY <1>3 DEF p

LEMMA HookSteps == Hook \in Seq(HookStep)
<1>1. \A S \in SUBSET Reserve : On("category", FALSE, S) \in HookStep
  BY DEF On, Step, Kind, Configured, HookStep
<1>2. EModeCategory \in Seq(HookStep)
  <2>1. On("category", FALSE, Wanted["emode"]) \in HookStep
    BY <1>1, TasksAssumption DEF Configured
  <2>2. QED BY <2>1, Unit DEF EModeCategory
<1>3. Review("stable", Reserve) \in Seq(HookStep)
  <2>1. \A S \in SUBSET Reserve : On("stable", TRUE, S) \in HookStep
    BY DEF On, Step, Kind, Reviewed, Configured, HookStep
  <2>2. "stable" \in Kind
    BY DEF Kind, Reviewed
  <2>3. QED BY <2>1, <2>2, ForEachOf DEF Review
<1>4. ASSUME NEW k \in Configured PROVE Setup(k) \in Seq(HookStep)
  <2>1. \A S \in SUBSET Reserve : On(k, FALSE, S) \in HookStep
    BY DEF On, Step, Kind, HookStep
  <2>2. k \in Kind /\ FALSE \in BOOLEAN
    BY DEF Kind
  <2>3. QED BY <2>1, <2>2, ForEachOf DEF Setup
<1>5. Setup("ceiling") \in Seq(HookStep) /\ Setup("isolation") \in Seq(HookStep)
      /\ Setup("emode") \in Seq(HookStep) /\ Setup("fee") \in Seq(HookStep)
  BY <1>4 DEF Configured
<1>6. SetupEModes \in Seq(HookStep)
  BY <1>2, <1>5, ConcatProperties DEF SetupEModes
<1>7. Review("stable", Reserve) \o Setup("ceiling") \in Seq(HookStep)
  BY <1>3, <1>5, ConcatProperties
<1>8. (Review("stable", Reserve) \o Setup("ceiling")) \o Setup("isolation") \in Seq(HookStep)
  BY <1>5, <1>7, ConcatProperties
<1>9. ((Review("stable", Reserve) \o Setup("ceiling")) \o Setup("isolation"))
         \o SetupEModes \in Seq(HookStep)
  BY <1>6, <1>8, ConcatProperties
<1>10. QED BY <1>5, <1>9, ConcatProperties DEF Hook

\* upgrade-htokens begins with the first token, and no other task upgrades.
LEMMA PlansUpgrade ==
  ASSUME NEW t \in Task, NEW p \in Plans(t), NEW k \in DOMAIN p, p[k].kind = "revision"
  PROVE  Head(p) = On("revision", FALSE, {Order[1]})
<1>1. SUFFICES ASSUME t # "upgrade-htokens" \/ p = <<>> PROVE p \in Seq(NotRevision)
  <2>1. CASE p \in Seq(NotRevision)
    <3>1. p[k] \in NotRevision
      BY <2>1
    <3>2. QED BY <3>1 DEF NotRevision
  <2>2. CASE t = "upgrade-htokens" /\ p # <<>>
    <3> DEFINE q == ForEach("revision", FALSE, Reserve)
    <3>1. "revision" \in Kind /\ FALSE \in BOOLEAN
      BY DEF Kind
    <3>2. /\ q \in Seq(Step) /\ DOMAIN q = DOMAIN Order
          /\ \A j \in DOMAIN Order : q[j] = On("revision", FALSE, {Order[j]} \cap Reserve)
      BY <3>1, ForEachElements
    <3>3. p = q
      BY <2>2 DEF Plans
    <3> HIDE DEF q
    <3>4. 1 \in DOMAIN q /\ Head(q) = q[1] /\ Order[1] \in Reserve
      <4>1. q # <<>>
        BY <2>2, <3>3
      <4>2. 1 \in DOMAIN q /\ Head(q) = q[1]
        BY <3>2, <4>1, TailElements
      <4>3. QED BY <3>2, <4>2, TasksAssumption
    <3>5. {Order[1]} \cap Reserve = {Order[1]}
      BY <3>4
    <3>6. QED BY <3>2, <3>3, <3>4, <3>5
  <2>3. QED BY <1>1, <2>1, <2>2
<1>2. ASSUME NEW kind \in Reviewed, NEW S PROVE Review(kind, S) \in Seq(NotRevision)
  <2>1. \A r \in SUBSET Reserve : On(kind, TRUE, r) \in NotRevision
    BY DEF On, Step, Kind, Reviewed, NotRevision
  <2>2. kind \in Kind
    BY DEF Kind
  <2>3. QED BY <2>1, <2>2, ForEachOf DEF Review
<1>3. Hook \in Seq(NotRevision)
  <2>1. HookStep \subseteq NotRevision
    BY DEF HookStep, NotRevision, Configured
  <2>2. QED BY <2>1, HookSteps
<1>4. CASE t = "hook"
  BY <1>3, <1>4 DEF Plans
<1>5. CASE t = "hook and transfer"
  <2>1. On("transfer", FALSE, {}) \in NotRevision
    BY DEF On, Step, Kind, NotRevision
  <2>2. <<On("transfer", FALSE, {})>> \in Seq(NotRevision)
    BY <2>1, Unit
  <2>3. p = Hook \o <<On("transfer", FALSE, {})>>
    BY <1>5 DEF Plans
  <2>4. QED BY <1>3, <2>2, <2>3, ConcatProperties
<1>6. CASE t \in {"review-stable-borrow", "review-rate-strategies", "review-supply-caps"}
  BY <1>2, <1>6 DEF Plans, Reviewed
<1>7. CASE t = "review-e-mode"
  <2>1. On("category", TRUE, Wanted["emode"]) \in NotRevision
    BY TasksAssumption DEF On, Step, Kind, NotRevision, Configured
  <2>2. QED BY <1>7, <2>1, Unit DEF Plans
<1>8. CASE t = "upgrade-htokens"
  BY <1>1, <1>8
<1>9. CASE t = "lending-gauge"
  <2>1. p = <<>> \/ \E r \in Reserve : p = LendingGauge(r)
    BY <1>9 DEF Plans
  <2>2. ASSUME NEW r \in Reserve PROVE LendingGauge(r) \in Seq(NotRevision)
    <3>1. \A g \in Gauge : On(g, FALSE, {r}) \in NotRevision
      BY DEF On, Step, Kind, Gauge, NotRevision
    <3>2. /\ On("gauge", FALSE, {r}) \in NotRevision /\ On("phases", FALSE, {r}) \in NotRevision
          /\ On("attach", FALSE, {r}) \in NotRevision
      BY <3>1 DEF Gauge
    <3>3. QED BY <3>2, Triple DEF LendingGauge
  <2>3. QED BY <2>1, <2>2
<1>10. QED BY <1>4, <1>5, <1>6, <1>7, <1>8, <1>9 DEF Task

\* What a task that waits gets
LEMMA Awaited ==
  ASSUME TasksInv, MineAwaited
  PROVE  /\ status = "waiting" /\ plan # <<>> /\ Len(pending) = 1 /\ Head(pending) = Current
         /\ Current = Head(plan) /\ Current \in Step /\ Ready(Current) /\ Execute(Current)
         /\ 1 \in DOMAIN pending /\ pending[1] = Current /\ pending' = <<>>
         /\ IF Accepted(Current) THEN status' = "running" /\ plan' = Tail(plan)
            ELSE status' = "failed" /\ UNCHANGED plan
<1>1. /\ status = "waiting" /\ Len(pending) = 1 /\ Execute(Head(pending)) /\ pending' = <<>>
      /\ IF Accepted(Head(pending)) THEN status' = "running" /\ plan' = Tail(plan)
         ELSE status' = "failed" /\ UNCHANGED plan
  BY DEF MineAwaited
<1>2. plan # <<>> /\ pending[1] = Current /\ plan \in Seq(Step) /\ pending \in Seq(Step)
  BY <1>1 DEF TasksInv, TypeOK, WaitsForLast
<1>3. Head(pending) = pending[1] /\ 1 \in DOMAIN pending
  BY <1>1, <1>2
<1>4. Ready(pending[1])
  BY <1>3 DEF TasksInv, SentReady, Ready
<1>5. QED BY <1>1, <1>2, <1>3, <1>4, TailElements DEF Current

\* What is mined otherwise is one of those under way, and leaves the rest.
LEMMA MinedOther ==
  ASSUME TasksInv, MineOther
  PROVE  /\ Head(pending) \in Step /\ Execute(Head(pending)) /\ pending # <<>>
         /\ 1 \in DOMAIN pending /\ Head(pending) = pending[1]
         /\ UNCHANGED <<menu, status, task, plan, crashes>>
         /\ status = "waiting" => Len(pending) > 1
         /\ pending' = Tail(pending)
         /\ \A k \in DOMAIN pending' : \E j \in DOMAIN pending : pending'[k] = pending[j]
<1>1. /\ pending # <<>> /\ Execute(Head(pending)) /\ pending' = Tail(pending)
      /\ UNCHANGED <<menu, status, task, plan, crashes>> /\ pending \in Seq(Step)
      /\ status = "waiting" => Len(pending) > 1
  BY DEF MineOther, process, TasksInv, TypeOK
<1>2. QED BY <1>1, TailElements

\* What is sent is the current step, in addition to those under way.
LEMMA Sent ==
  ASSUME TasksInv, Working, pending' = Append(pending, Current)
  PROVE  /\ \A k \in DOMAIN pending' :
              \/ k \in DOMAIN pending /\ pending'[k] = pending[k]
              \/ pending'[k] = Current
         /\ plan # <<>> /\ Current = Head(plan) /\ Current = plan[1] /\ 1 \in DOMAIN plan
         /\ Current \in Step
<1>1. plan \in Seq(Step) /\ pending \in Seq(Step) /\ plan # <<>>
  BY DEF TasksInv, TypeOK, Working
<1>2. QED BY <1>1, TailElements, AppendOK DEF Current

\* A step that works only once is never left out.
LEMMA OnceNotSkipped ==
  ASSUME TasksInv, TaskFailureInv, plan # <<>>, Skipped
  PROVE  Current.kind \notin {"gauge", "revision"}
<1>1. plan \in Seq(Step) /\ Single(plan)
  BY FailureInWords DEF TasksInv, TypeOK
<1>2. Current = plan[1] /\ 1 \in DOMAIN plan
  BY <1>1, TailElements DEF Current
<1>3. SUFFICES ASSUME Current.kind \in {"gauge", "revision"} PROVE FALSE
  OBVIOUS
<1>4. PICK r \in Reserve : Current = On(Current.kind, FALSE, {r})
  BY <1>1, <1>2, <1>3 DEF Single
<1>5. Current.on = {r} /\ ~Current.review
  BY <1>4 DEF On
<1>6. QED BY <1>5 DEF Skipped

LEMMA StepUpgrade ==
  ASSUME TasksInv, TaskFailureInv, UpgradeInv, [Next]_vars
  PROVE  UpgradeInv'
<1> DEFINE C == follows["revision"]
<1>1. /\ TypeOK /\ plan \in Seq(Step) /\ pending \in Seq(Step) /\ "revision" \in Kind
      /\ C # {} => Order[1] \in C
      /\ \A k \in DOMAIN pending : pending[k].kind = "revision" => Order[1] \in pending[k].on \cup C
      /\ Active => FirstComesFirst(plan, C)
  BY UpgradeInWords DEF TasksInv, TypeOK, Kind
\* The first token is upgraded or the current step does it: then it is behind.
<1>2. ASSUME NEW D, C \subseteq D, Active, plan # <<>>,
             Current.kind = "revision" => Current.on \subseteq D
      PROVE  FirstComesFirst(Tail(plan), D)
  <2>1. \A k \in DOMAIN Tail(plan) : \E j \in DOMAIN plan : Tail(plan)[k] = plan[j]
    BY <1>1, <1>2, TailElements
  <2>2. QED BY <1>1, <1>2, <2>1 DEF FirstComesFirst, Current
<1>3. ASSUME UNCHANGED <<chain, pending>>, Active' => FirstComesFirst(plan', C)
      PROVE  UpgradeInv'
  <2>1. follows' = follows /\ pending' = pending
    BY <1>3 DEF chain
  <2>2. QED BY <1>1, <1>3, <2>1, UpgradeAfterStep
<1>4. ASSUME NEW t \in Task, Launch(t) PROVE UpgradeInv'
  <2>1. plan' \in Plans(t) /\ UNCHANGED <<chain, pending>>
    BY <1>4 DEF Launch
  <2>2. FirstComesFirst(plan', C)
    <3>1. \A k \in DOMAIN plan' :
            plan'[k].kind = "revision" => Head(plan') = On("revision", FALSE, {Order[1]})
      BY <2>1, PlansUpgrade
    <3>2. QED BY <3>1 DEF FirstComesFirst, On
  <2>3. QED BY <1>3, <2>1, <2>2
<1>5. CASE Throw \/ Finish \/ Crash
  <2>1. UNCHANGED <<chain, pending>> /\ ~Active'
    BY <1>5 DEF Throw, Finish, Crash, Active
  <2>2. QED BY <1>3, <2>1
<1>6. CASE Skip
  <2>1. UNCHANGED <<chain, pending>> /\ Active /\ plan # <<>> /\ plan' = Tail(plan) /\ Skipped
    BY <1>6 DEF Skip, Working, Active
  <2>2. Current.kind # "revision"
    BY <2>1, OnceNotSkipped
  <2>3. QED BY <1>2, <1>3, <2>1, <2>2
<1>7. CASE Send \/ Post
  <2>1. /\ Working /\ pending' = Append(pending, Current) /\ UNCHANGED chain
        /\ plan' = plan \/ (plan' = Tail(plan) /\ Current.kind = "attach")
    BY <1>7 DEF Send, Post
  <2>2. follows' = follows /\ Active
    BY <2>1 DEF chain, Working, Active
  <2>3. FirstComesFirst(plan', C)
    BY <1>1, <1>2, <2>1, <2>2 DEF Working
  <2>4. Current.kind = "revision" => Order[1] \in Current.on \cup C
    BY <1>1, <2>1, <2>2, Sent DEF FirstComesFirst
  <2>5. \A k \in DOMAIN pending' :
          pending'[k].kind = "revision" => Order[1] \in pending'[k].on \cup C
    BY <1>1, <2>1, <2>4, Sent
  <2>6. QED BY <1>1, <2>2, <2>3, <2>5, UpgradeAfterStep
<1>8. ASSUME NEW s \in Step, Execute(s),
             s.kind = "revision" => Order[1] \in s.on \cup C,
             \A k \in DOMAIN pending' : \E j \in DOMAIN pending : pending'[k] = pending[j],
             Active' => FirstComesFirst(plan', follows'["revision"])
      PROVE  UpgradeInv'
  <2> DEFINE D == follows'["revision"]
  <2>1. /\ C \subseteq D /\ (s.kind # "revision" \/ ~Accepted(s) => D = C)
        /\ (s.kind = "revision" /\ Accepted(s) => s.on \subseteq D)
    BY <1>1, <1>8, ExecuteAdds
  <2>2. D # {} => Order[1] \in D
    BY <1>1, <1>8, <2>1
  <2>3. \A k \in DOMAIN pending' :
          pending'[k].kind = "revision" => Order[1] \in pending'[k].on \cup D
    BY <1>1, <1>8, <2>1
  <2>4. QED BY <1>8, <2>2, <2>3, UpgradeAfterStep
<1>9. CASE MineAwaited
  <2>1. /\ status = "waiting" /\ plan # <<>> /\ Current \in Step /\ Execute(Current)
        /\ 1 \in DOMAIN pending /\ pending[1] = Current /\ pending' = <<>>
        /\ IF Accepted(Current) THEN status' = "running" /\ plan' = Tail(plan)
           ELSE status' = "failed" /\ UNCHANGED plan
    BY <1>9, Awaited
  <2>2. C \subseteq follows'["revision"]
    BY <1>1, <2>1, ExecuteAdds
  <2>3. Active' => FirstComesFirst(plan', follows'["revision"])
    <3>1. CASE Accepted(Current)
      <4>1. Current.kind = "revision" => Current.on \subseteq follows'["revision"]
        BY <1>1, <2>1, <3>1, ExecuteAdds
      <4>2. Active
        BY <2>1 DEF Active
      <4>3. QED BY <1>2, <2>1, <2>2, <3>1, <4>1, <4>2
    <3>2. CASE ~Accepted(Current)
      BY <2>1, <3>2 DEF Active
    <3>3. QED BY <3>1, <3>2
  <2>4. Current.kind = "revision" => Order[1] \in Current.on \cup C
    BY <1>1, <2>1
  <2>5. DOMAIN pending' = {}
    BY <2>1
  <2>6. QED BY <1>8, <2>1, <2>3, <2>4, <2>5
<1>10. CASE MineOther
  <2>1. /\ Head(pending) \in Step /\ Execute(Head(pending)) /\ Head(pending) = pending[1]
        /\ 1 \in DOMAIN pending /\ UNCHANGED <<status, plan>>
        /\ \A k \in DOMAIN pending' : \E j \in DOMAIN pending : pending'[k] = pending[j]
    BY <1>10, MinedOther
  <2>2. C \subseteq follows'["revision"]
    BY <1>1, <2>1, ExecuteAdds
  <2>3. Active' => FirstComesFirst(plan', follows'["revision"])
    BY <1>1, <2>1, <2>2 DEF FirstComesFirst, Active
  <2>4. QED BY <1>1, <1>8, <2>1, <2>3
<1>11. CASE UNCHANGED vars
  <2>1. UNCHANGED <<chain, pending, status, plan>>
    BY <1>11 DEF vars, process
  <2>2. QED BY <1>1, <1>3, <2>1 DEF Active
<1>12. QED
  BY <1>4, <1>5, <1>6, <1>7, <1>9, <1>10, <1>11 DEF Next, Progress, Mine

LEMMA InitUpgrade == Init => UpgradeInv
<1>1. SUFFICES ASSUME Init PROVE UpgradeInv
  OBVIOUS
<1>2. follows["revision"] # {} => Order[1] \in follows["revision"]
  <2>1. follows["revision"] \in {{}, Reserve}
    BY <1>1 DEF Init, Kind, Reviewed
  <2>2. Reserve # {} => Order[1] \in Reserve
    <3>1. Order \in Seq(Reserve) /\ Reserve = {Order[k] : k \in DOMAIN Order}
      BY TasksAssumption
    <3>2. Reserve # {} => 1 \in DOMAIN Order
      BY <3>1
    <3>3. QED BY <3>1, <3>2
  <2>3. QED BY <2>1, <2>2
<1>3. DOMAIN pending = {} /\ ~Active
  BY <1>1 DEF Init, Active
<1>4. QED BY <1>2, <1>3 DEF UpgradeInv

(* Whatever is killed or run in between, the first token of the pool's     *)
(* list is upgraded before all others.                                     *)
THEOREM UpgradeInvariant == Spec => []UpgradeInv
<1>1. TasksInv /\ TaskFailureInv /\ UpgradeInv /\ [Next]_vars => UpgradeInv'
  BY StepUpgrade
<1>2. QED BY <1>1, InitUpgrade, TasksInvariant, FailureInvariant, PTL DEF Spec

-----------------------------------------------------------------------------
(* What was cut short stays so.                                            *)
\* Whoever upgrades any more does so where it was done.
UpgradesAgain ==
  /\ HalfUpgraded
  /\ \A k \in DOMAIN pending :
       pending[k].kind = "revision" => pending[k].on \cap follows["revision"] # {}
  /\ Active /\ (\E k \in DOMAIN plan : plan[k].kind = "revision") =>
       Current.kind = "revision" /\ Current.on \cap follows["revision"] # {}

LEMMA StepUpgradesAgain ==
  ASSUME TasksInv, TaskFailureInv, UpgradeInv, UpgradesAgain, [Next]_vars
  PROVE  UpgradesAgain'
<1> DEFINE C == follows["revision"]
           D == follows'["revision"]
           Again(s) == s.kind = "revision" => s.on \cap C # {}
           Upgrades(p) == \E k \in DOMAIN p : p[k].kind = "revision"
<1>1. /\ TypeOK /\ plan \in Seq(Step) /\ pending \in Seq(Step) /\ "revision" \in Kind
      /\ C \notin {{}, Reserve} /\ \A k \in DOMAIN pending : Again(pending[k])
      /\ Active /\ Upgrades(plan) => Current.kind = "revision" /\ C \cap Current.on # {}
  BY DEF TasksInv, TypeOK, Kind, UpgradesAgain, HalfUpgraded
<1>2. ASSUME D = C, \A k \in DOMAIN pending' : Again(pending'[k]),
             Active' /\ Upgrades(plan') => Head(plan').kind = "revision" /\ C \cap Head(plan').on # {}
      PROVE  UpgradesAgain'
  BY <1>1, <1>2 DEF UpgradesAgain, HalfUpgraded, Active, Current
\* The plan goes on behind another step: it has no upgrade.
<1>3. ASSUME Active, plan # <<>>, ~(Current.kind = "revision" /\ C \cap Current.on # {})
      PROVE  ~Upgrades(Tail(plan))
  <2>1. \A k \in DOMAIN Tail(plan) : \E j \in DOMAIN plan : Tail(plan)[k] = plan[j]
    BY <1>1, <1>3, TailElements
  <2>2. QED BY <1>1, <1>3, <2>1
<1>4. ASSUME NEW t \in Task, Launch(t) PROVE UpgradesAgain'
  <2>1. plan' \in Plans(t) /\ UNCHANGED <<chain, pending>>
    BY <1>4 DEF Launch
  <2>2. Order[1] \in C
    BY <1>1, UpgradeInWords
  <2>3. Upgrades(plan') => Head(plan') = On("revision", FALSE, {Order[1]})
    BY <2>1, PlansUpgrade
  <2>4. Upgrades(plan') => Head(plan').kind = "revision" /\ C \cap Head(plan').on # {}
    BY <2>2, <2>3 DEF On
  <2>5. D = C /\ pending' = pending
    BY <2>1 DEF chain
  <2>6. QED BY <1>1, <1>2, <2>4, <2>5
<1>5. CASE Throw \/ Finish \/ Crash
  <2>1. D = C /\ pending' = pending /\ ~Active'
    BY <1>5 DEF Throw, Finish, Crash, Active, chain
  <2>2. QED BY <1>1, <1>2, <2>1
<1>6. CASE Skip
  <2>1. D = C /\ pending' = pending /\ Active /\ plan # <<>> /\ plan' = Tail(plan) /\ Skipped
    BY <1>6 DEF Skip, Working, Active, chain
  <2>2. Current.kind # "revision"
    BY <2>1, OnceNotSkipped
  <2>3. QED BY <1>1, <1>2, <1>3, <2>1, <2>2
<1>7. CASE Send \/ Post
  <2>1. /\ Working /\ pending' = Append(pending, Current) /\ D = C /\ plan # <<>> /\ Active
        /\ plan' = plan \/ (plan' = Tail(plan) /\ Current.kind = "attach")
    BY <1>7 DEF Send, Post, chain, Working, Active
  <2>2. Again(Current) /\ \A k \in DOMAIN pending' : Again(pending'[k])
    BY <1>1, <2>1, Sent
  <2>3. Active' /\ Upgrades(plan') => Head(plan').kind = "revision" /\ C \cap Head(plan').on # {}
    BY <1>1, <1>3, <2>1 DEF Current
  <2>4. QED BY <1>2, <2>1, <2>2, <2>3
\* A second upgrade is refused.
<1>8. ASSUME NEW s \in Step, Execute(s), Again(s) PROVE D = C
  BY <1>1, <1>8, ExecuteAdds DEF Accepted
<1>9. CASE MineAwaited
  <2>1. /\ status = "waiting" /\ plan # <<>> /\ Current \in Step /\ Execute(Current)
        /\ 1 \in DOMAIN pending /\ pending[1] = Current /\ pending' = <<>>
        /\ IF Accepted(Current) THEN status' = "running" /\ plan' = Tail(plan)
           ELSE status' = "failed" /\ UNCHANGED plan
    BY <1>9, Awaited
  <2>2. D = C
    BY <1>1, <1>8, <2>1
  <2>3. DOMAIN pending' = {}
    BY <2>1
  <2>4. ASSUME Active' PROVE ~Upgrades(plan')
    <3>1. Accepted(Current) /\ plan' = Tail(plan) /\ Active
      BY <2>1, <2>4 DEF Active
    <3>2. ~(Current.kind = "revision" /\ C \cap Current.on # {})
      BY <3>1 DEF Accepted
    <3>3. QED BY <1>3, <2>1, <3>1, <3>2
  <2>5. QED BY <1>2, <2>2, <2>3, <2>4
<1>10. CASE MineOther
  <2>1. /\ Head(pending) \in Step /\ Execute(Head(pending)) /\ Head(pending) = pending[1]
        /\ 1 \in DOMAIN pending /\ UNCHANGED <<status, plan>>
        /\ \A k \in DOMAIN pending' : \E j \in DOMAIN pending : pending'[k] = pending[j]
    BY <1>10, MinedOther
  <2>2. D = C
    BY <1>1, <1>8, <2>1
  <2>3. QED BY <1>1, <1>2, <2>1, <2>2 DEF Active, Current
<1>11. CASE UNCHANGED vars
  BY <1>1, <1>2, <1>11 DEF vars, process, chain, Active, Current
<1>12. QED
  BY <1>4, <1>5, <1>6, <1>7, <1>9, <1>10, <1>11 DEF Next, Progress, Mine

\* The gauge of r has no phases, and nobody is about to add them.
NoPhases(r) ==
  /\ r \in WithoutPhases
  /\ \A k \in DOMAIN pending : ~(pending[k].kind = "phases" /\ r \in pending[k].on)
  /\ Active /\ plan # <<>> => ~(Current.kind = "phases" /\ r \in Current.on)

LEMMA StepNoPhases ==
  ASSUME NEW r \in Reserve, TasksInv, TaskFailureInv, NoPhases(r), [Next]_vars
  PROVE  NoPhases(r)'
<1> DEFINE Adds(s) == s.kind = "phases" /\ r \in s.on
           Kept == r \in follows'["gauge"] /\ phases'[r] = 0
<1>1. /\ TypeOK /\ plan \in Seq(Step) /\ pending \in Seq(Step) /\ "gauge" \in Kind
      /\ r \in follows["gauge"] /\ phases[r] = 0
      /\ \A k \in DOMAIN pending : ~Adds(pending[k])
      /\ Active /\ plan # <<>> => ~Adds(Current)
  BY DEF TasksInv, TypeOK, Kind, Gauge, NoPhases, WithoutPhases
<1>2. ASSUME Kept, \A k \in DOMAIN pending' : ~Adds(pending'[k]),
             Active' /\ plan' # <<>> => ~Adds(Head(plan'))
      PROVE  NoPhases(r)'
  BY <1>2 DEF NoPhases, WithoutPhases, Active, Current
\* Phases come after a new gauge.
<1>3. ASSUME plan # <<>>, Tail(plan) # <<>>, Adds(Head(Tail(plan)))
      PROVE  Current.kind = "gauge" /\ r \in Current.on
  <2>1. Head(Tail(plan)).kind = "phases"
    BY <1>3
  <2>2. Head(plan) = On("gauge", FALSE, Head(Tail(plan)).on)
    BY <1>1, <1>3, <2>1, TailOK DEF TasksInv
  <2>3. QED BY <1>3, <2>2 DEF On, Current
<1>4. ASSUME NEW t \in Task, Launch(t) PROVE NoPhases(r)'
  <2>1. plan' \in Plans(t) /\ UNCHANGED <<follows, phases, pending>>
    BY <1>4 DEF Launch, chain
  <2>2. plan' # <<>> => Head(plan').kind # "phases"
    BY <2>1, PlansOK
  <2>3. QED BY <1>1, <1>2, <2>1, <2>2
<1>5. CASE Throw \/ Finish \/ Crash
  <2>1. UNCHANGED <<follows, phases, pending>> /\ ~Active'
    BY <1>5 DEF Throw, Finish, Crash, Active, chain
  <2>2. QED BY <1>1, <1>2, <2>1
<1>6. CASE Skip
  <2>1. UNCHANGED <<follows, phases, pending>> /\ plan # <<>> /\ plan' = Tail(plan) /\ Skipped
    BY <1>6 DEF Skip, Working, chain
  <2>2. Current.kind # "gauge"
    BY <2>1, OnceNotSkipped
  <2>3. QED BY <1>1, <1>2, <1>3, <2>1, <2>2
<1>7. CASE Send \/ Post
  <2>1. /\ Working /\ pending' = Append(pending, Current) /\ UNCHANGED <<follows, phases>>
        /\ plan # <<>> /\ Active
        /\ plan' = plan \/ (plan' = Tail(plan) /\ Current.kind = "attach")
    BY <1>7 DEF Send, Post, chain, Working, Active
  <2>2. ~Adds(Current) /\ \A k \in DOMAIN pending' : ~Adds(pending'[k])
    BY <1>1, <2>1, Sent
  <2>3. plan' # <<>> => ~Adds(Head(plan'))
    BY <1>3, <2>1, <2>2 DEF Current
  <2>4. QED BY <1>1, <1>2, <2>1, <2>2, <2>3
<1>8. ASSUME NEW s \in Step, Execute(s), ~Adds(s) PROVE Kept
  <2>1. CASE ~Accepted(s)
    BY <1>1, <1>8, <2>1 DEF Execute, chain
  <2>2. CASE Accepted(s)
    <3>1. phases' = [q \in Reserve |->
                       IF s.kind = "phases" /\ q \in s.on THEN phases[q] + 1 ELSE phases[q]]
      BY <1>8, <2>2 DEF Execute
    <3>2. follows["gauge"] \subseteq follows'["gauge"]
      BY <1>1, <1>8, ExecuteAdds
    <3>3. QED BY <1>1, <1>8, <3>1, <3>2
  <2>3. QED BY <2>1, <2>2
<1>9. CASE MineAwaited
  <2>1. /\ status = "waiting" /\ plan # <<>> /\ Current \in Step /\ Execute(Current)
        /\ 1 \in DOMAIN pending /\ pending[1] = Current /\ pending' = <<>>
        /\ IF Accepted(Current) THEN status' = "running" /\ plan' = Tail(plan)
           ELSE status' = "failed" /\ UNCHANGED plan
    BY <1>9, Awaited
  <2>2. Kept
    BY <1>1, <1>8, <2>1
  <2>3. DOMAIN pending' = {}
    BY <2>1
  <2>4. Active' /\ plan' # <<>> => ~Adds(Head(plan'))
    <3>1. SUFFICES ASSUME Active', plan' # <<>>, Adds(Head(plan')) PROVE FALSE
      OBVIOUS
    <3>2. Accepted(Current) /\ plan' = Tail(plan)
      BY <2>1, <3>1 DEF Active
    <3>3. Current.kind = "gauge" /\ r \in Current.on
      BY <1>3, <2>1, <3>1, <3>2
    <3>4. QED BY <1>1, <3>2, <3>3 DEF Accepted
  <2>5. QED BY <1>2, <2>2, <2>3, <2>4
<1>10. CASE MineOther
  <2>1. /\ Head(pending) \in Step /\ Execute(Head(pending)) /\ Head(pending) = pending[1]
        /\ 1 \in DOMAIN pending /\ UNCHANGED <<status, plan>>
        /\ \A k \in DOMAIN pending' : \E j \in DOMAIN pending : pending'[k] = pending[j]
    BY <1>10, MinedOther
  <2>2. Kept
    BY <1>1, <1>8, <2>1
  <2>3. QED BY <1>1, <1>2, <2>1, <2>2 DEF Active, Current
<1>11. CASE UNCHANGED vars
  BY <1>1, <1>2, <1>11 DEF vars, process, chain, Active, Current
<1>12. QED
  BY <1>4, <1>5, <1>6, <1>7, <1>9, <1>10, <1>11 DEF Next, Progress, Mine

(* An upgrade or a gauge that a run left half-way stays half-way: no task  *)
(* completes it, in any order and with any of them killed.                 *)
THEOREM CutShortIsForGood == Spec => CutShortForGood
<1>1. Spec => [](AtRest /\ HalfUpgraded => []HalfUpgraded)
  <2>1. AtRest /\ HalfUpgraded => UpgradesAgain
    <3>1. AtRest => DOMAIN pending = {}
      BY DEF AtRest
    <3>2. QED BY <3>1 DEF AtRest, UpgradesAgain
  <2>2. UpgradesAgain => HalfUpgraded
    BY DEF UpgradesAgain
  <2>3. TasksInv /\ TaskFailureInv /\ UpgradeInv /\ UpgradesAgain /\ [Next]_vars => UpgradesAgain'
    BY StepUpgradesAgain
  <2>4. QED
    BY <2>1, <2>2, <2>3, TasksInvariant, FailureInvariant, UpgradeInvariant, PTL DEF Spec
<1>2. ASSUME NEW r \in Reserve
      PROVE  Spec => [](AtRest /\ r \in WithoutPhases => [](r \in WithoutPhases))
  <2>1. AtRest /\ r \in WithoutPhases => NoPhases(r)
    <3>1. AtRest => DOMAIN pending = {}
      BY DEF AtRest
    <3>2. QED BY <3>1 DEF AtRest, NoPhases
  <2>2. NoPhases(r) => r \in WithoutPhases
    BY DEF NoPhases
  <2>3. TasksInv /\ TaskFailureInv /\ NoPhases(r) /\ [Next]_vars => NoPhases(r)'
    BY StepNoPhases
  <2>4. QED BY <2>1, <2>2, <2>3, TasksInvariant, FailureInvariant, PTL DEF Spec
<1>3. QED BY <1>1, <1>2 DEF CutShortForGood

-----------------------------------------------------------------------------
(* The hook.                                                               *)
\* The reserves a plan p has steps of a kind for
Left(p, kind) == UNION {p[k].on : k \in {j \in DOMAIN p : p[j].kind = kind}}

LEMMA InLeft ==
  ASSUME NEW p, NEW kind
  PROVE  /\ \A k \in DOMAIN p : p[k].kind = kind => p[k].on \subseteq Left(p, kind)
         /\ \A r \in Left(p, kind) : \E k \in DOMAIN p : p[k].kind = kind /\ r \in p[k].on
BY DEF Left

LEMMA LeftInTail ==
  ASSUME NEW p \in Seq(Step), p # <<>>, NEW kind
  PROVE  Left(p, kind) \subseteq
           Left(Tail(p), kind) \cup (IF Head(p).kind = kind THEN Head(p).on ELSE {})
<1> DEFINE q == Tail(p)
<1>1. SUFFICES ASSUME NEW r \in Left(p, kind)
               PROVE  r \in Left(q, kind) \/ (Head(p).kind = kind /\ r \in Head(p).on)
  OBVIOUS
<1>2. PICK k \in DOMAIN p : p[k].kind = kind /\ r \in p[k].on
  BY InLeft
<1>3. CASE k = 1
  BY <1>2, <1>3, TailElements
<1>4. CASE k # 1
  <2>1. PICK j \in DOMAIN q : p[k] = q[j]
    BY <1>4, TailElements
  <2>2. QED BY <1>2, <2>1, InLeft
<1>5. QED BY <1>3, <1>4

LEMMA LeftInJoined ==
  ASSUME NEW p \in Seq(Step), NEW q \in Seq(Step), NEW kind
  PROVE  Left(p, kind) \subseteq Left(p \o q, kind) /\ Left(q, kind) \subseteq Left(p \o q, kind)
<1> DEFINE u == p \o q
<1>1. /\ \A k \in DOMAIN p : \E j \in DOMAIN u : u[j] = p[k]
      /\ \A k \in DOMAIN q : \E j \in DOMAIN u : u[j] = q[k]
  <2>1. /\ \A k \in DOMAIN p : k \in DOMAIN u /\ u[k] = p[k]
        /\ \A k \in DOMAIN q : Len(p) + k \in DOMAIN u /\ u[Len(p) + k] = q[k]
    BY Joined
  <2> HIDE DEF u
  <2>2. QED BY <2>1
<1> HIDE DEF u
<1>2. ASSUME NEW r \in Left(p, kind) PROVE r \in Left(u, kind)
  <2>1. PICK k \in DOMAIN p : p[k].kind = kind /\ r \in p[k].on
    BY InLeft
  <2>2. PICK j \in DOMAIN u : u[j] = p[k]
    BY <1>1
  <2>3. QED BY <2>1, <2>2, InLeft
<1>3. ASSUME NEW r \in Left(q, kind) PROVE r \in Left(u, kind)
  <2>1. PICK k \in DOMAIN q : q[k].kind = kind /\ r \in q[k].on
    BY InLeft
  <2>2. PICK j \in DOMAIN u : u[j] = q[k]
    BY <1>1
  <2>3. QED BY <2>1, <2>2, InLeft
<1>4. QED BY <1>2, <1>3 DEF u

\* A loop has a step for each reserve it is for.
LEMMA LoopLeft ==
  ASSUME NEW kind \in Kind, NEW review \in BOOLEAN, NEW S \in SUBSET Reserve
  PROVE  S \subseteq Left(ForEach(kind, review, S), kind)
<1> DEFINE p == ForEach(kind, review, S)
<1>1. /\ DOMAIN p = DOMAIN Order
      /\ \A k \in DOMAIN Order : p[k] = On(kind, review, {Order[k]} \cap S)
  BY ForEachElements
<1> HIDE DEF p
<1>2. ASSUME NEW r \in S PROVE r \in Left(p, kind)
  <2>1. PICK k \in DOMAIN Order : Order[k] = r
    BY TasksAssumption
  <2>2. p[k].kind = kind /\ r \in p[k].on
    BY <1>1, <2>1 DEF On
  <2>3. QED BY <1>1, <2>2, InLeft
<1>3. QED BY <1>2 DEF p

LEMMA HookLeft ==
  /\ Hook \in Seq(Step)
  /\ Reserve \subseteq Left(Hook, "stable")
  /\ \A k \in Configured : Wanted[k] \subseteq Left(Hook, k)
<1> DEFINE a == Review("stable", Reserve)
           b == Setup("ceiling")
           c == Setup("isolation")
           m == EModeCategory
           d == Setup("emode")
           e == Setup("fee")
<1>1. a \in Seq(Step) /\ Reserve \subseteq Left(a, "stable")
  <2>1. "stable" \in Kind /\ TRUE \in BOOLEAN
    BY DEF Kind, Reviewed
  <2>2. QED BY <2>1, ForEachElements, LoopLeft DEF Review
<1>2. ASSUME NEW k \in Configured
      PROVE  Setup(k) \in Seq(Step) /\ Wanted[k] \subseteq Left(Setup(k), k)
  <2>1. k \in Kind /\ FALSE \in BOOLEAN /\ Wanted[k] \in SUBSET Reserve
    BY TasksAssumption DEF Kind
  <2>2. QED BY <2>1, ForEachElements, LoopLeft DEF Setup
<1>3. /\ b \in Seq(Step) /\ Wanted["ceiling"] \subseteq Left(b, "ceiling")
      /\ c \in Seq(Step) /\ Wanted["isolation"] \subseteq Left(c, "isolation")
      /\ d \in Seq(Step) /\ Wanted["emode"] \subseteq Left(d, "emode")
      /\ e \in Seq(Step) /\ Wanted["fee"] \subseteq Left(e, "fee")
  BY <1>2 DEF Configured
<1>4. m \in Seq(Step)
  <2>1. On("category", FALSE, Wanted["emode"]) \in Step
    BY TasksAssumption DEF On, Step, Kind, Configured
  <2>2. QED BY <2>1, Unit DEF EModeCategory
<1>5. Hook = (((a \o b) \o c) \o (m \o d)) \o e
  BY DEF Hook, SetupEModes
<1> HIDE DEF a, b, c, d, e, m
<1>6. /\ a \o b \in Seq(Step) /\ Reserve \subseteq Left(a \o b, "stable")
      /\ Wanted["ceiling"] \subseteq Left(a \o b, "ceiling")
  BY <1>1, <1>3, Joined, LeftInJoined
<1>7. /\ (a \o b) \o c \in Seq(Step) /\ Reserve \subseteq Left((a \o b) \o c, "stable")
      /\ Wanted["ceiling"] \subseteq Left((a \o b) \o c, "ceiling")
      /\ Wanted["isolation"] \subseteq Left((a \o b) \o c, "isolation")
  BY <1>3, <1>6, Joined, LeftInJoined
<1>8. m \o d \in Seq(Step) /\ Wanted["emode"] \subseteq Left(m \o d, "emode")
  BY <1>3, <1>4, Joined, LeftInJoined
<1> DEFINE u == ((a \o b) \o c) \o (m \o d)
<1>9. /\ u \in Seq(Step) /\ Reserve \subseteq Left(u, "stable")
      /\ Wanted["ceiling"] \subseteq Left(u, "ceiling")
      /\ Wanted["isolation"] \subseteq Left(u, "isolation")
      /\ Wanted["emode"] \subseteq Left(u, "emode")
  BY <1>7, <1>8, Joined, LeftInJoined
<1>10. Hook = u \o e
  BY <1>5
<1> HIDE DEF u
<1>11. /\ Hook \in Seq(Step) /\ Reserve \subseteq Left(Hook, "stable")
       /\ Wanted["ceiling"] \subseteq Left(Hook, "ceiling")
       /\ Wanted["isolation"] \subseteq Left(Hook, "isolation")
       /\ Wanted["emode"] \subseteq Left(Hook, "emode")
       /\ Wanted["fee"] \subseteq Left(Hook, "fee")
  BY <1>3, <1>9, <1>10, Joined, LeftInJoined
<1>12. QED BY <1>11 DEF Configured

\* Of a plan p of the hook, when f has what follows the configuration
HookRest(p, f) ==
  /\ Reserve \subseteq f["stable"] \cup Left(p, "stable")
  /\ \A k \in Configured : Wanted[k] \subseteq f[k] \cup Left(p, k)

OfHook(p) ==
  \A k \in DOMAIN p : /\ p[k].kind \notin Gauge \cup {"transfer"}
                      /\ p[k].kind \in Configured => ~p[k].review

SomethingLeft(p) == \E k \in Configured : Left(p, k) # {}

\* HookInv after a step, in these words
LEMMA HookAfterStep ==
  ASSUME Active' /\ task' = "hook" =>
           /\ HookRest(plan', follows') /\ OfHook(plan')
           /\ SomethingWanted => SomethingLeft(plan') \/ (powers' /\ NoOthers')
  PROVE  HookInv'
BY DEF HookInv, HookRest, OfHook, SomethingLeft, ToDo, Left, SomethingWanted

LEMMA HookInWords ==
  HookInv /\ Active /\ task = "hook" =>
    /\ HookRest(plan, follows) /\ OfHook(plan)
    /\ SomethingWanted => SomethingLeft(plan) \/ (powers /\ NoOthers)
BY DEF HookInv, HookRest, OfHook, SomethingLeft, ToDo, Left, SomethingWanted

\* What is done and what is left stay all there is, as the chain gains ...
LEMMA RestGrows ==
  ASSUME NEW p, NEW f, NEW g, HookRest(p, f), \A k \in Kind : f[k] \subseteq g[k]
  PROVE  HookRest(p, g)
<1>1. "stable" \in Kind /\ Configured \subseteq Kind
  BY DEF Kind, Reviewed
<1>2. QED BY <1>1 DEF HookRest

\* ... and when the first step has its effect, or has it already.
LEMMA RestOfTail ==
  ASSUME NEW p \in Seq(Step), p # <<>>, NEW f, HookRest(p, f), OfHook(p),
         Head(p).on \subseteq f[Head(p).kind]
  PROVE  HookRest(Tail(p), f) /\ OfHook(Tail(p))
<1>1. \A k \in DOMAIN Tail(p) : \E j \in DOMAIN p : Tail(p)[k] = p[j]
  BY TailElements
<1>2. OfHook(Tail(p))
  BY <1>1 DEF OfHook
<1>3. \A k : Left(p, k) \subseteq Left(Tail(p), k) \cup f[k]
  BY LeftInTail
<1>4. HookRest(Tail(p), f)
  BY <1>3 DEF HookRest
<1>5. QED BY <1>2, <1>4

LEMMA StepHook ==
  ASSUME TasksInv, HookInv, [Next]_vars
  PROVE  HookInv'
<1>1. /\ TypeOK /\ plan \in Seq(Step) /\ pending \in Seq(Step)
      /\ \A k \in Kind : follows[k] \subseteq Reserve
  BY DEF TasksInv, TypeOK
<1>2. ASSUME NEW t \in Task, Launch(t) PROVE HookInv'
  <2>1. SUFFICES ASSUME t = "hook"
                 PROVE  /\ HookRest(plan', follows') /\ OfHook(plan')
                        /\ SomethingWanted => SomethingLeft(plan')
    BY <1>2, HookAfterStep DEF Launch
  <2>2. plan' = Hook
    BY <1>2, <2>1 DEF Launch, Plans
  <2>3. HookRest(Hook, follows')
    BY HookLeft DEF HookRest
  <2>4. OfHook(Hook)
    <3>1. \A k \in DOMAIN Hook : Hook[k] \in HookStep
      BY HookSteps
    <3>2. QED BY <3>1 DEF OfHook, HookStep, Configured, Gauge
  <2>5. SomethingWanted => SomethingLeft(Hook)
    BY HookLeft DEF SomethingWanted, SomethingLeft
  <2>6. QED BY <2>2, <2>3, <2>4, <2>5
<1>3. CASE Throw \/ Finish \/ Crash
  <2>1. ~Active'
    BY <1>3 DEF Throw, Finish, Crash, Active
  <2>2. QED BY <2>1, HookAfterStep
\* Nothing to prove but of a hook that runs
<1>4. ASSUME ~(\E t \in Task : Launch(t)), ~(Throw \/ Finish \/ Crash), Active, task = "hook"
      PROVE  HookInv'
  <2>1. /\ HookRest(plan, follows) /\ OfHook(plan)
        /\ SomethingWanted => SomethingLeft(plan) \/ (powers /\ NoOthers)
    BY <1>4, HookInWords
  <2>2. ASSUME plan # <<>>
        PROVE  /\ Current = plan[1] /\ 1 \in DOMAIN plan /\ Current = Head(plan) /\ Current \in Step
               /\ Current.kind \notin Gauge \cup {"transfer"}
               /\ Current.kind \in Configured => ~Current.review
    <3>1. Current = plan[1] /\ 1 \in DOMAIN plan /\ Current = Head(plan) /\ Current \in Step
      BY <1>1, <2>2, TailElements DEF Current
    <3>2. QED BY <2>1, <3>1 DEF OfHook
  <2>3. CASE Skip
    <3>1. /\ UNCHANGED <<follows, powers, pending, status, task>> /\ plan # <<>>
          /\ plan' = Tail(plan) /\ Skipped
      BY <2>3 DEF Skip, Working, chain
    <3>2. Current.on \subseteq follows[Current.kind]
      BY <2>2, <3>1 DEF Skipped
    <3>3. HookRest(plan', follows') /\ OfHook(plan')
      BY <1>1, <2>1, <2>2, <3>1, <3>2, RestOfTail
    <3>4. SomethingLeft(plan) => SomethingLeft(plan')
      <4>1. Current.kind \in Configured => Current.on = {}
        BY <2>2, <3>1 DEF Skipped
      <4>2. \A k \in Configured : Left(plan, k) \subseteq Left(plan', k)
        BY <1>1, <2>2, <3>1, <4>1, LeftInTail
      <4>3. QED BY <4>2 DEF SomethingLeft
    <3>5. NoOthers' = NoOthers
      BY <3>1 DEF NoOthers
    <3>6. QED BY <2>1, <3>1, <3>3, <3>4, <3>5, HookAfterStep
  <2>4. CASE Send
    <3>1. /\ UNCHANGED <<follows, powers, plan, task>> /\ status = "running"
          /\ status' = "waiting" /\ pending' = Append(pending, Current) /\ plan # <<>>
      BY <2>4 DEF Send, Working, chain
    <3>2. NoOthers => NoOthers'
      <4>1. SUFFICES ASSUME pending = <<>> PROVE Len(pending') = 1
        BY <3>1 DEF NoOthers
      <4>2. pending' = <<Current>>
        BY <3>1, <4>1
      <4>3. QED BY <4>2
    <3>3. QED BY <2>1, <3>1, <3>2, HookAfterStep
  <2>5. CASE Post
    BY <2>2, <2>5 DEF Post, Working, Gauge
  <2>6. CASE MineAwaited
    <3>1. /\ status = "waiting" /\ plan # <<>> /\ Current \in Step /\ Execute(Current)
          /\ pending' = <<>>
          /\ IF Accepted(Current) THEN status' = "running" /\ plan' = Tail(plan)
             ELSE status' = "failed" /\ UNCHANGED plan
      BY <2>6, Awaited
    <3>2. CASE Accepted(Current)
      <4>1. /\ \A k \in Kind : follows[k] \subseteq follows'[k]
            /\ Current.on \subseteq follows'[Current.kind]
        BY <1>1, <3>1, <3>2, ExecuteAdds
      <4>2. HookRest(plan, follows')
        BY <2>1, <4>1, RestGrows
      <4>3. HookRest(plan', follows') /\ OfHook(plan')
        BY <1>1, <2>1, <2>2, <3>1, <3>2, <4>1, <4>2, RestOfTail
      <4>4. powers'
        BY <2>2, <3>1, <3>2 DEF Execute
      <4>5. NoOthers'
        BY <3>1, <3>2 DEF NoOthers
      <4>6. QED BY <4>3, <4>4, <4>5, HookAfterStep
    <3>3. CASE ~Accepted(Current)
      <4>1. ~Active'
        BY <3>1, <3>3 DEF Active
      <4>2. QED BY <4>1, HookAfterStep
    <3>4. QED BY <3>2, <3>3
  <2>7. CASE MineOther
    <3>1. /\ Head(pending) \in Step /\ Execute(Head(pending)) /\ pending # <<>>
          /\ UNCHANGED <<status, task, plan>> /\ (status = "waiting" => Len(pending) > 1)
      BY <2>7, MinedOther
    <3>2. \A k \in Kind : follows[k] \subseteq follows'[k]
      BY <1>1, <3>1, ExecuteAdds
    <3>3. HookRest(plan', follows') /\ OfHook(plan')
      BY <2>1, <3>1, <3>2, RestGrows
    <3>4. ~NoOthers
      <4>1. Len(pending) > 1 => Len(pending) # 1
        <5>1. Len(pending) \in Nat
          BY <1>1
        <5>2. \A n \in Nat : n > 1 => n # 1
          OBVIOUS
        <5>3. QED BY <5>1, <5>2
      <4>2. QED BY <3>1, <4>1 DEF NoOthers
    <3>5. QED BY <2>1, <3>1, <3>3, <3>4, HookAfterStep
  <2>8. CASE UNCHANGED vars
    <3>1. UNCHANGED <<follows, powers, pending, status, task, plan>>
      BY <2>8 DEF vars, chain, process
    <3>2. NoOthers' = NoOthers
      BY <3>1 DEF NoOthers
    <3>3. QED BY <2>1, <3>1, <3>2, HookAfterStep
  <2>9. QED BY <1>4, <2>3, <2>4, <2>5, <2>6, <2>7, <2>8 DEF Next, Progress, Mine
<1>5. ASSUME ~(\E t \in Task : Launch(t)), ~(Throw \/ Finish \/ Crash),
             ~(Active /\ task = "hook")
      PROVE  HookInv'
  <2>1. task' = task
    BY <1>5 DEF Next, Progress, Mine, Skip, Send, Post, MineAwaited, MineOther, vars, process
  <2>2. Active' => Active
    BY <1>5 DEF Next, Progress, Mine, Skip, Send, Post, MineAwaited, MineOther, vars, process,
       Working, Active
  <2>3. QED BY <1>5, <2>1, <2>2, HookAfterStep
<1>6. QED BY <1>2, <1>3, <1>4, <1>5

LEMMA InitHook == Init => HookInv
BY DEF Init, HookInv, Active

(* While the hook runs, each setting is there or still in its plan, and    *)
(* what it wrote last it had the power to write.                           *)
THEOREM HookInvariant == Spec => []HookInv
<1>1. TasksInv /\ HookInv /\ [Next]_vars => HookInv'
  BY StepHook
<1>2. QED BY <1>1, InitHook, TasksInvariant, PTL DEF Spec

(* Where the configuration wants anything, a hook that ends well leaves    *)
(* all settings as configured, and does so only before the hand-over.      *)
THEOREM HookDoesItsWork == SomethingWanted => (Spec => HookEndsWell)
<1> SUFFICES ASSUME SomethingWanted PROVE Spec => HookEndsWell
  OBVIOUS
<1>1. HookInv /\ [Next]_vars =>
        [status' = "done" /\ status # "done" /\ task = "hook" => HookDone /\ powers]_vars
  <2>1. SUFFICES ASSUME HookInv, Next, status' = "done", status # "done", task = "hook"
                 PROVE  HookDone /\ powers
    BY DEF vars, process
  <2>2. Finish
    BY <2>1 DEF Next, Progress, Mine, Launch, Throw, Skip, Send, Post, MineAwaited, MineOther,
       Crash, process
  <2>3. plan = <<>> /\ Active
    BY <2>2 DEF Finish, Active
  <2>4. HookRest(plan, follows) /\ (SomethingLeft(plan) \/ powers)
    BY <2>1, <2>3, HookInWords
  <2>5. \A k : Left(plan, k) = {}
    <3>1. DOMAIN plan = {}
      BY <2>3
    <3>2. QED BY <3>1, InLeft
  <2>6. HookDone
    BY <2>4, <2>5 DEF HookRest, HookDone
  <2>7. QED BY <2>4, <2>5, <2>6 DEF SomethingLeft
<1>2. QED BY <1>1, HookInvariant, PTL DEF Spec, HookEndsWell

=============================================================================
