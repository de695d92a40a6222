------------------------ MODULE ReserveSetup_proofs ------------------------
(***************************************************************************)
(* Proofs about ReserveSetup, for every set of configurations and any      *)
(* sizes of transactions: its inductive invariant, that what is recorded   *)
(* is there, that it implements ReserveListing, that the pool's list keeps *)
(* the order of the configuration, and what a run can fail at.             *)
(***************************************************************************)
EXTENDS ReserveSetup, SequenceTheorems, TLAPS

-----------------------------------------------------------------------------
(* Lists and their chunks.                                                 *)
\* A list falls into its first chunk and the rest.
LEMMA ChunkAndRest ==
  ASSUME NEW S, NEW s \in Seq(S), NEW n \in Nat \ {0}
  PROVE  /\ Chunk(s, n) \in Seq(S) /\ Rest(s, n) \in Seq(S)
         /\ AsSet(s) = AsSet(Chunk(s, n)) \cup AsSet(Rest(s, n))
<1> DEFINE l == Len(s)
           m == IF l < n THEN l ELSE n
           c == Chunk(s, n)
           t == Rest(s, n)
<1>1. l \in Nat /\ DOMAIN s = 1 .. l /\ \A i \in 1 .. l : s[i] \in S
  OBVIOUS
<1>2. c = SubSeq(s, 1, m) /\ t = SubSeq(s, n + 1, l)
  BY DEF Chunk, Rest
<1> HIDE DEF c, t, l
<1>3. m \in Nat /\ m <= l /\ m <= n /\ (m = l \/ m = n)
  BY <1>1
<1> HIDE DEF m
<1>4. c \in Seq(S) /\ DOMAIN c = 1 .. m /\ \A i \in 1 .. m : c[i] = s[i]
  <2>1. \A i \in 1 .. m : s[i] \in S
    BY <1>1, <1>3
  <2>2. /\ c \in Seq(S)
        /\ Len(c) = IF 1 <= m THEN m - 1 + 1 ELSE 0
        /\ \A i \in 1 .. m - 1 + 1 : c[i] = s[1 + i - 1]
    BY <1>2, <1>3, <2>1, SubSeqProperties
  <2>3. (IF 1 <= m THEN m - 1 + 1 ELSE 0) = m
    BY <1>3
  <2>4. ASSUME NEW i \in 1 .. m PROVE c[i] = s[i]
    BY <1>3, <2>2
  <2>5. QED BY <2>2, <2>3, <2>4
<1>5. /\ t \in Seq(S) /\ DOMAIN t = 1 .. l - n
      /\ \A i \in 1 .. l - n : t[i] = s[n + i]
  <2>1. \A i \in n + 1 .. l : s[i] \in S
    BY <1>1
  <2>2. /\ t \in Seq(S)
        /\ Len(t) = IF n + 1 <= l THEN l - (n + 1) + 1 ELSE 0
        /\ \A i \in 1 .. l - (n + 1) + 1 : t[i] = s[n + 1 + i - 1]
    BY <1>1, <1>2, <2>1, n + 1 \in Int, SubSeqProperties
  <2>3. 1 .. (IF n + 1 <= l THEN l - (n + 1) + 1 ELSE 0) = 1 .. l - n
    BY <1>1
  <2>4. ASSUME NEW i \in 1 .. l - n PROVE t[i] = s[n + i]
    <3>1. i \in 1 .. l - (n + 1) + 1 /\ n + 1 + i - 1 = n + i
      BY <1>1
    <3>2. QED BY <2>2, <3>1
  <2>5. QED BY <2>2, <2>3, <2>4
<1>6. AsSet(s) \subseteq AsSet(c) \cup AsSet(t)
  <2>1. SUFFICES ASSUME NEW k \in 1 .. l PROVE s[k] \in AsSet(c) \cup AsSet(t)
    BY <1>1 DEF AsSet
  <2>2. k \in 1 .. m \/ (k - n \in 1 .. l - n /\ n + (k - n) = k)
    BY <1>1, <1>3
  <2>3. CASE k \in 1 .. m
    BY <1>4, <2>3 DEF AsSet
  <2>4. CASE k - n \in 1 .. l - n /\ n + (k - n) = k
    <3>1. t[k - n] = s[k] /\ k - n \in DOMAIN t
      BY <1>5, <2>4
    <3>2. QED BY <3>1 DEF AsSet
  <2>5. QED BY <2>2, <2>3, <2>4
<1>7. AsSet(c) \subseteq AsSet(s)
  <2>1. SUFFICES ASSUME NEW k \in 1 .. m PROVE c[k] \in AsSet(s)
    BY <1>4 DEF AsSet
  <2>2. k \in 1 .. l
    BY <1>1, <1>3
  <2>3. QED BY <1>1, <1>4, <2>2 DEF AsSet
<1>8. AsSet(t) \subseteq AsSet(s)
  <2>1. SUFFICES ASSUME NEW k \in 1 .. l - n PROVE t[k] \in AsSet(s)
    BY <1>5 DEF AsSet
  <2>2. n + k \in 1 .. l
    BY <1>1
  <2>3. QED BY <1>1, <1>5, <2>2 DEF AsSet
<1>9. QED BY <1>4, <1>5, <1>6, <1>7, <1>8 DEF c, t

\* What is appended is in the list.
LEMMA AppendAsSet ==
  ASSUME NEW S, NEW s \in Seq(S), NEW x \in S
  PROVE  Append(s, x) \in Seq(S) /\ AsSet(Append(s, x)) = AsSet(s) \cup {x}
<1> DEFINE t == Append(s, x)
<1>1. /\ t \in Seq(S) /\ Len(t) = Len(s) + 1
      /\ \A i \in 1 .. Len(s) : t[i] = s[i]
      /\ t[Len(s) + 1] = x
  BY AppendProperties
<1>2. Len(s) \in Nat /\ DOMAIN s = 1 .. Len(s) /\ DOMAIN t = 1 .. Len(s) + 1
  BY <1>1
<1> HIDE DEF t
<1>3. AsSet(s) \cup {x} \subseteq AsSet(t)
  BY <1>1, <1>2 DEF AsSet
<1>4. AsSet(t) \subseteq AsSet(s) \cup {x}
  <2>1. SUFFICES ASSUME NEW k \in 1 .. Len(s) + 1 PROVE t[k] \in AsSet(s) \cup {x}
    BY <1>2 DEF AsSet
  <2>2. k \in 1 .. Len(s) \/ k = Len(s) + 1
    BY <1>2
  <2>3. QED BY <1>1, <1>2, <2>2 DEF AsSet
<1>5. QED BY <1>1, <1>3, <1>4 DEF t

-----------------------------------------------------------------------------
(* The configuration, which no step changes.                               *)
\* What a configuration says of reserves and strategies.
LEMMA ConfigurationOK ==
  ASSUME TypeOK
  PROVE  /\ config.order \in Seq(Reserve) /\ config.order \in Seq(ReservesOf)
         /\ ReservesOf \subseteq Reserve
         /\ config.token \subseteq Reserve /\ config.rates \subseteq Rate
         /\ \A k \in DOMAIN config.order : config.order[k] \in ReservesOf
<1>1. config \in Configuration
  BY SetupAssumption DEF TypeOK
<1>2. /\ config.order \in Seq(Reserve) /\ config.token \subseteq Reserve
      /\ config.rates \subseteq Rate
  BY <1>1 DEF Configuration
<1>3. ReservesOf \subseteq Reserve
  BY <1>2 DEF ReservesOf, AsSet
<1>4. \A k \in DOMAIN config.order : config.order[k] \in ReservesOf
  BY DEF ReservesOf, AsSet
<1>5. config.order \in Seq(ReservesOf)
  BY <1>2, <1>4, IsASeq
<1>6. QED BY <1>2, <1>3, <1>4, <1>5

\* The operators over the configuration keep their values.
LEMMA ConfigurationFixed ==
  ASSUME UNCHANGED config
  PROVE  /\ config' = config /\ ReservesOf' = ReservesOf /\ Listable' = Listable
         /\ \A k \in Int : Before(k)' = Before(k)
<1>1. config' = config
  OBVIOUS
<1>2. ReservesOf' = ReservesOf
  BY <1>1 DEF ReservesOf, AsSet
<1>3. Listable' = Listable
  BY <1>1, <1>2 DEF Listable
<1>4. \A k \in Int : Before(k)' = Before(k)
  BY <1>1 DEF Before
<1>5. QED BY <1>1, <1>2, <1>3, <1>4

\* What a run sends is a transaction about reserves, out of its list.
LEMMA CurrentTxOK ==
  ASSUME TypeOK, stage \in Kind
  PROVE  /\ CurrentTx \in Tx /\ Subject \subseteq Reserve
         /\ stage = "list" => Subject \subseteq AsSet(queue)
<1>1. AsSet(queue) \subseteq Reserve /\ queue \in Seq(ReservesOf)
  BY ConfigurationOK DEF TypeOK, AsSet
<1>2. AsSet(Chunk(queue, InitChunks)) \subseteq AsSet(queue)
  BY <1>1, ChunkAndRest, SetupAssumption
<1>3. AsSet(Chunk(queue, EnableChunks)) \subseteq AsSet(queue)
  BY <1>1, ChunkAndRest, SetupAssumption
<1>4. Subject \subseteq Reserve /\ (stage = "list" => Subject \subseteq AsSet(queue))
  BY <1>1, <1>2, <1>3, ConfigurationOK DEF Subject
<1>5. QED BY <1>4 DEF CurrentTx, Tx

\* A run's way through the scripts keeps to what they build on.
LEMMA FirstStageOK ==
  ASSUME NEW done \in SUBSET Script
  PROVE  /\ FirstStage(done) \in {"provider", "sources", "rates", "end"}
         /\ FirstStage(done) = "sources" => "provider" \in done
         /\ FirstStage(done) = "rates" => "oracles" \in done
BY DEF FirstStage

-----------------------------------------------------------------------------
(* What a transaction does.                                                *)
\* The chain only ever gains, in the order of the stages.
LEMMA ExecuteGains ==
  ASSUME SetupInv, NEW t \in Tx, Execute(t), UNCHANGED config,
         t.kind = "list" => Listable /\ t.on \subseteq priced
  PROVE  /\ priced' \subseteq Reserve /\ listed' \subseteq Reserve
         /\ configured' \subseteq Reserve /\ riskAdmin' \in BOOLEAN
         /\ priced \subseteq priced' /\ listed \subseteq listed'
         /\ configured \subseteq configured'
         /\ Listing!InStages'
         /\ Accepted(t) => /\ t.kind = "sources" => t.on \subseteq priced'
                           /\ t.kind = "list" => t.on \subseteq listed'
                           /\ t.kind = "configure" => t.on \subseteq configured'
<1>1. TypeOK /\ Listing!InStages /\ Listable' = Listable
  BY ConfigurationFixed DEF SetupInv
<1>2. t.on \subseteq Reserve
  BY DEF Tx
<1>3. CASE ~Accepted(t)
  BY <1>1, <1>3 DEF Execute, chain, TypeOK, Listing!InStages
<1>4. CASE Accepted(t)
  <2>1. /\ priced' = IF t.kind = "sources" THEN priced \cup t.on ELSE priced
        /\ listed' = IF t.kind = "list" THEN listed \cup t.on ELSE listed
        /\ configured' = IF t.kind = "configure" THEN configured \cup t.on ELSE configured
        /\ riskAdmin' \in BOOLEAN
    BY <1>1, <1>4 DEF Execute, TypeOK
  <2>2. t.kind = "configure" => t.on \subseteq listed
    BY <1>4 DEF Accepted
  <2>3. Listing!InStages'
    BY <1>1, <2>1, <2>2 DEF Listing!InStages
  <2>4. QED BY <1>1, <1>2, <2>1, <2>3 DEF TypeOK
<1>5. QED BY <1>3, <1>4

-----------------------------------------------------------------------------
(* What the parts of the invariant depend on.                              *)
ChainGains ==
  /\ priced \subseteq priced' /\ listed \subseteq listed'
  /\ configured \subseteq configured'

\* The record stays true while the chain gains.
LEMMA RecordKept ==
  ASSUME SetupInv, UNCHANGED <<config, recorded>>, ChainGains
  PROVE  RecordHolds'
BY ConfigurationFixed DEF SetupInv, RecordHolds, ChainGains

\* So does what a run has seen to, while it stays at its stage.
LEMMA StageKept ==
  ASSUME SetupInv, UNCHANGED <<config, recorded, stage, at, queue>>, ChainGains
  PROVE  StageHolds'
<1>1. StageHolds /\ TypeOK
  BY DEF SetupInv
<1>2. config' = config /\ ReservesOf' = ReservesOf /\ Before(at)' = Before(at)
      /\ AsSet(queue)' = AsSet(queue)
  BY ConfigurationFixed DEF Before, AsSet
<1>3. QED BY <1>1, <1>2 DEF StageHolds, ChainGains

\* And what is known of the transactions sent.
LEMMA SentKept ==
  ASSUME SetupInv, UNCHANGED <<config, pending>>, ChainGains,
         status' = "waiting" => UNCHANGED <<status, stage, queue>>
  PROVE  SentHolds'
<1>1. SentHolds /\ config' = config /\ Listable' = Listable
  BY ConfigurationFixed DEF SetupInv
<1>2. UNCHANGED <<stage, queue>> => CurrentTx' = CurrentTx
  BY <1>1 DEF CurrentTx, Subject, AsSet, Chunk
<1>3. QED BY <1>1, <1>2 DEF SentHolds, ChainGains

-----------------------------------------------------------------------------
(* The initial states.                                                     *)
LEMMA InitInv == Init => SetupInv
<1>1. SUFFICES ASSUME Init PROVE SetupInv
  OBVIOUS
<1>2. config \in Configuration
  BY <1>1, SetupAssumption DEF Init
<1>3. Len(config.order) \in Nat
  BY <1>2 DEF Configuration
<1>4. TypeOK
  <2>1. at \in 1 .. Len(config.order) + 1
    BY <1>1, <1>3 DEF Init
  <2>2. stage \in Stage /\ crashes \in 0 .. MaxCrashes
    BY <1>1, SetupAssumption DEF Init, Stage
  <2>3. pending \in Seq(Tx) /\ queue \in Seq(ReservesOf)
    BY <1>1 DEF Init
  <2>4. QED BY <1>1, <2>1, <2>2, <2>3 DEF Init, TypeOK
<1>5. QED BY <1>1, <1>4 DEF Init, SetupInv, Listing!InStages, RecordHolds, StageHolds, SentHolds

-----------------------------------------------------------------------------
(* The steps.                                                              *)
\* A run starts from what is recorded.
LEMMA LaunchInv == SetupInv /\ Launch => SetupInv'
<1>1. SUFFICES ASSUME SetupInv, Launch PROVE SetupInv'
  OBVIOUS
<1>2. TypeOK /\ RecordHolds /\ config' = config /\ ReservesOf' = ReservesOf
  BY <1>1, ConfigurationFixed DEF SetupInv, Launch
<1>3. /\ stage' \in {"provider", "sources", "rates", "end"}
      /\ stage' = "sources" => "provider" \in recorded
      /\ stage' = "rates" => "oracles" \in recorded
  BY <1>1, <1>2, FirstStageOK DEF Launch, TypeOK
<1>4. TypeOK'
  <2>1. Len(config.order) \in Nat
    BY <1>2, ConfigurationOK
  <2>2. at' \in 1 .. Len(config'.order) + 1 /\ queue' \in Seq(ReservesOf')
    BY <1>1, <1>2, <2>1 DEF Launch
  <2>3. stage' \in Stage
    BY <1>3 DEF Stage, Kind
  <2>4. QED BY <1>1, <1>2, <2>2, <2>3 DEF Launch, TypeOK, disk, chain
<1>5. StageHolds'
  BY <1>1, <1>3 DEF Launch, StageHolds, disk
<1>6. RecordHolds' /\ SentHolds'
  BY <1>1, RecordKept, SentKept DEF Launch, ChainGains, chain, disk
<1>7. QED BY <1>1, <1>2, <1>4, <1>5, <1>6 DEF SetupInv, Launch, chain, disk, Listing!InStages,
             Listable

\* A run stops, or is killed.
LEMMA StopInv == SetupInv /\ (Throw \/ Crash \/ Finish) => SetupInv'
<1>1. SUFFICES ASSUME SetupInv, Throw \/ Crash \/ Finish PROVE SetupInv'
  OBVIOUS
<1>2. /\ UNCHANGED <<config, recorded, strategies, priced, listed, configured, riskAdmin,
                     pending, stage, at, queue>>
      /\ status' \in {"failed", "killed", "done"}
      /\ crashes' \in 0 .. MaxCrashes
  BY <1>1, SetupAssumption DEF Throw, Crash, Finish, SetupInv, TypeOK, chain, disk
<1>3. config' = config /\ ReservesOf' = ReservesOf /\ Listable' = Listable
  BY <1>2, ConfigurationFixed
<1>4. TypeOK'
  BY <1>1, <1>2, <1>3 DEF SetupInv, TypeOK
<1>5. RecordHolds' /\ StageHolds' /\ SentHolds'
  BY <1>1, <1>2, RecordKept, StageKept, SentKept DEF ChainGains
<1>6. QED BY <1>1, <1>2, <1>3, <1>4, <1>5 DEF SetupInv, Listing!InStages

\* A script is recorded when what it is for is there.
LEMMA RecordInv == SetupInv /\ (CheckProvider \/ CheckFallback \/ Save) => SetupInv'
<1>1. SUFFICES ASSUME SetupInv, CheckProvider \/ CheckFallback \/ Save
               PROVE  SetupInv'
  OBVIOUS
<1>2. /\ TypeOK /\ RecordHolds /\ StageHolds
      /\ UNCHANGED <<config, strategies, priced, listed, configured, riskAdmin, pending,
                     status, at, queue, crashes>>
      /\ config' = config /\ ReservesOf' = ReservesOf /\ Listable' = Listable
      /\ status = "running"
  BY <1>1, ConfigurationFixed
     DEF SetupInv, CheckProvider, CheckFallback, Save, Record, Running, chain
<1>3. /\ recorded' \in SUBSET Script /\ recorded \subseteq recorded'
      /\ stage' = FirstStage(recorded')
  BY <1>1, <1>2 DEF CheckProvider, CheckFallback, Save, Record, TypeOK, Script
<1>4. RecordHolds'
  <2>1. CASE CheckProvider
    BY <1>2, <2>1 DEF CheckProvider, Record, Running, Throws, RecordHolds
  <2>2. CASE CheckFallback
    BY <1>2, <2>2 DEF CheckFallback, Record, Running, Throws, RecordHolds, StageHolds
  <2>3. CASE Save
    BY <1>2, <2>3 DEF Save, Record, Running, RecordHolds, StageHolds
  <2>4. QED BY <1>1, <2>1, <2>2, <2>3
<1>5. /\ stage' \in {"provider", "sources", "rates", "end"}
      /\ stage' = "sources" => "provider" \in recorded'
      /\ stage' = "rates" => "oracles" \in recorded'
  BY <1>3, FirstStageOK
<1>6. TypeOK'
  <2>1. stage' \in Stage
    BY <1>5 DEF Stage, Kind
  <2>2. QED BY <1>2, <1>3, <2>1 DEF TypeOK
<1>7. StageHolds'
  BY <1>5 DEF StageHolds
<1>8. SentHolds' /\ Listing!InStages'
  BY <1>1, <1>2 DEF SetupInv, SentHolds, Listing!InStages
<1>9. QED BY <1>1, <1>2, <1>4, <1>6, <1>7, <1>8 DEF SetupInv

\* The strategies of the market, and no others, get deployed.
LEMMA DeployRatesInv == SetupInv /\ DeployRates => SetupInv'
<1>1. SUFFICES ASSUME SetupInv, DeployRates PROVE SetupInv'
  OBVIOUS
<1>2. /\ TypeOK /\ StageHolds
      /\ UNCHANGED <<config, recorded, priced, listed, configured, riskAdmin, pending,
                     status, crashes>>
      /\ config' = config /\ ReservesOf' = ReservesOf /\ Listable' = Listable
      /\ status = "running" /\ stage = "rates"
      /\ stage' = "list" /\ at' = 1 /\ queue' = <<>>
      /\ strategies' = strategies \cup config.rates
  BY <1>1, ConfigurationFixed DEF SetupInv, DeployRates, Running, chain
<1>3. TypeOK'
  <2>1. at' \in 1 .. Len(config'.order) + 1
    BY <1>2, ConfigurationOK
  <2>2. strategies' \subseteq Rate
    BY <1>2, ConfigurationOK DEF TypeOK
  <2>3. stage' \in Stage /\ queue' \in Seq(ReservesOf')
    BY <1>2 DEF Stage, Kind
  <2>4. QED BY <1>2, <2>1, <2>2, <2>3 DEF TypeOK
<1>4. StageHolds'
  <2>1. Before(at') = {}
    BY <1>2 DEF Before
  <2>2. "oracles" \in recorded
    BY <1>2 DEF StageHolds
  <2>3. Before(at)' = {}
    BY <1>2 DEF Before
  <2>4. QED BY <1>2, <2>2, <2>3 DEF StageHolds
<1>5. RecordHolds'
  BY <1>1, <1>2, RecordKept DEF ChainGains
<1>6. SentHolds'
  BY <1>1, <1>2, SentKept DEF ChainGains
<1>7. QED BY <1>1, <1>2, <1>3, <1>4, <1>5, <1>6 DEF SetupInv, Listing!InStages

\* One round of a loop: what it is past is done or in the list.
LEMMA CollectKeeps ==
  ASSUME SetupInv, InLoop, status = "running", NEW skip \in BOOLEAN, Collect(skip)
  PROVE  /\ TypeOK' /\ RecordHolds' /\ SentHolds' /\ Listing!InStages'
         /\ UNCHANGED <<config, recorded, strategies, priced, listed, configured, stage>>
         /\ Before(at') = Before(at) \cup {config.order[at]}
         /\ AsSet(queue') = IF skip THEN AsSet(queue) ELSE AsSet(queue) \cup {config.order[at]}
<1>1. /\ TypeOK
      /\ UNCHANGED <<config, recorded, strategies, priced, listed, configured, riskAdmin,
                     pending, status, stage, crashes>>
      /\ at' = at + 1
      /\ queue' = IF skip THEN queue ELSE Append(queue, config.order[at])
      /\ config' = config /\ ReservesOf' = ReservesOf /\ Listable' = Listable
  BY ConfigurationFixed DEF SetupInv, Collect, chain, disk
<1>2. config.order[at] \in ReservesOf /\ queue \in Seq(ReservesOf)
  BY <1>1, ConfigurationOK DEF InLoop, TypeOK
<1>3. /\ queue' \in Seq(ReservesOf)
      /\ AsSet(queue') = IF skip THEN AsSet(queue) ELSE AsSet(queue) \cup {config.order[at]}
  <2>1. CASE skip
    BY <1>1, <1>2, <2>1
  <2>2. CASE ~skip
    <3>1. queue' = Append(queue, config.order[at])
      BY <1>1, <2>2
    <3>2. QED BY <1>2, <2>2, <3>1, AppendAsSet
  <2>3. QED BY <2>1, <2>2
<1>4. at \in 1 .. Len(config.order) /\ Len(config.order) \in Nat
  BY <1>1, ConfigurationOK DEF InLoop
<1>5. TypeOK'
  <2>1. at' \in 1 .. Len(config'.order) + 1
    BY <1>1, <1>4
  <2>2. queue' \in Seq(ReservesOf')
    BY <1>1, <1>3
  <2>3. QED BY <1>1, <2>1, <2>2 DEF TypeOK
<1>6. Before(at') = Before(at) \cup {config.order[at]}
  <2>1. 1 .. at' - 1 = (1 .. at - 1) \cup {at}
    BY <1>1, <1>4
  <2>2. QED BY <2>1 DEF Before
<1>7. RecordHolds'
  BY <1>1, RecordKept DEF ChainGains
<1>8. SentHolds'
  BY <1>1, SentKept DEF ChainGains
<1>9. Listing!InStages'
  BY <1>1 DEF SetupInv, Listing!InStages
<1>10. QED BY <1>1, <1>3, <1>5, <1>6, <1>7, <1>8, <1>9

\* A reserve is collected when its strategy is there, or the pool knows it.
LEMMA ReadReserveInv == SetupInv /\ ReadReserve => SetupInv'
<1>1. SUFFICES ASSUME SetupInv, ReadReserve PROVE SetupInv'
  OBVIOUS
<1> DEFINE r == config.order[at]
<1>2. /\ Running("list") /\ InLoop /\ ~Throws /\ Collect(Skipped(r))
      /\ Skipped(r) \in BOOLEAN
  BY <1>1 DEF ReadReserve, Skipped
<1>3. /\ TypeOK' /\ RecordHolds' /\ SentHolds' /\ Listing!InStages'
      /\ UNCHANGED <<config, recorded, strategies, priced, listed, configured, stage>>
      /\ Before(at') = Before(at) \cup {r}
      /\ AsSet(queue') = IF Skipped(r) THEN AsSet(queue) ELSE AsSet(queue) \cup {r}
  BY <1>1, <1>2, CollectKeeps DEF Running
<1>4. r \in ReservesOf /\ config.token = ReservesOf /\ stage = "list"
  BY <1>1, <1>2, ConfigurationOK DEF SetupInv, StageHolds, RecordHolds, InLoop, Running
<1>5. config.rate[r] \in config.rates
  <2>1. CASE Skipped(r)
    BY <1>1, <1>4, <2>1 DEF Skipped, SetupInv, Listing!InStages, Listable
  <2>2. CASE ~Skipped(r)
    BY <1>1, <1>2, <1>4, <2>2 DEF Throws, SetupInv
  <2>3. QED BY <2>1, <2>2
<1>6. Before(at') \subseteq listed \cup AsSet(queue')
  BY <1>1, <1>3, <1>4 DEF Skipped, SetupInv, StageHolds
<1>7. \A q \in Before(at') : config.rate[q] \in config.rates
  BY <1>1, <1>3, <1>4, <1>5 DEF SetupInv, StageHolds
<1> HIDE DEF r
<1>8. config' = config /\ Before(at)' = Before(at') /\ AsSet(queue)' = AsSet(queue')
  BY <1>3, ConfigurationFixed DEF Before, AsSet
<1>9. StageHolds'
  BY <1>1, <1>3, <1>4, <1>6, <1>7, <1>8 DEF StageHolds, SetupInv
<1>10. QED BY <1>1, <1>3, <1>8, <1>9 DEF SetupInv

\* A reserve is passed over only when its parameters are set or it has none.
LEMMA ReadConfigurationInv == SetupInv /\ ReadConfiguration => SetupInv'
<1>1. SUFFICES ASSUME SetupInv, ReadConfiguration PROVE SetupInv'
  OBVIOUS
<1> DEFINE r == config.order[at]
<1>2. /\ Running("enable") /\ InLoop /\ Collect(AlreadyEnabled(r))
      /\ AlreadyEnabled(r) \in BOOLEAN
  BY <1>1 DEF ReadConfiguration, AlreadyEnabled
<1>3. /\ TypeOK' /\ RecordHolds' /\ SentHolds' /\ Listing!InStages'
      /\ UNCHANGED <<config, recorded, strategies, priced, listed, configured, stage>>
      /\ Before(at') = Before(at) \cup {r}
      /\ AsSet(queue') = IF AlreadyEnabled(r) THEN AsSet(queue) ELSE AsSet(queue) \cup {r}
  BY <1>1, <1>2, CollectKeeps DEF Running
<1>4. r \in ReservesOf /\ config.token = ReservesOf /\ stage = "enable"
  BY <1>1, <1>2, ConfigurationOK DEF SetupInv, StageHolds, RecordHolds, InLoop, Running
<1>5. Before(at') \ config.noLtv \subseteq configured \cup AsSet(queue')
  BY <1>1, <1>3, <1>4 DEF AlreadyEnabled, SetupInv, StageHolds
<1> HIDE DEF r
<1>6. /\ config' = config /\ Before(at)' = Before(at') /\ AsSet(queue)' = AsSet(queue')
      /\ ReservesOf' = ReservesOf
  BY <1>3, ConfigurationFixed DEF Before, AsSet
<1>7. StageHolds'
  BY <1>1, <1>3, <1>4, <1>5, <1>6 DEF StageHolds, SetupInv
<1>8. QED BY <1>1, <1>3, <1>6, <1>7 DEF SetupInv

\* A loop that is through has been past all reserves.
LEMMA LoopOver ==
  ASSUME TypeOK, ~InLoop
  PROVE  Before(at) = ReservesOf
<1>1. /\ config.order \in Seq(Reserve) /\ Len(config.order) \in Nat
      /\ DOMAIN config.order = 1 .. Len(config.order)
      /\ at \in 1 .. Len(config.order) + 1
  BY ConfigurationOK DEF TypeOK
<1>2. 1 .. at - 1 = DOMAIN config.order
  BY <1>1 DEF InLoop
<1>3. QED BY <1>2 DEF Before, ReservesOf, AsSet

\* When the list is empty all reserves are listed.
LEMMA ListDoneInv == SetupInv /\ ListDone => SetupInv'
<1>1. SUFFICES ASSUME SetupInv, ListDone PROVE SetupInv'
  OBVIOUS
<1>2. /\ TypeOK /\ StageHolds
      /\ UNCHANGED <<config, recorded, strategies, priced, listed, configured, riskAdmin,
                     pending, status, queue, crashes>>
      /\ config' = config /\ ReservesOf' = ReservesOf /\ Listable' = Listable
      /\ status = "running" /\ stage = "list" /\ queue = <<>> /\ ~InLoop
      /\ stage' = "enable" /\ at' = 1
  BY <1>1, ConfigurationFixed DEF SetupInv, ListDone, Running, chain, disk
<1>3. ReservesOf \subseteq listed
  <2>1. AsSet(queue) = {}
    BY <1>2 DEF AsSet
  <2>2. QED BY <1>2, <2>1, LoopOver DEF StageHolds
<1>4. TypeOK'
  <2>1. at' \in 1 .. Len(config'.order) + 1
    BY <1>2, ConfigurationOK
  <2>2. stage' \in Stage
    BY <1>2 DEF Stage
  <2>3. QED BY <1>2, <2>1, <2>2 DEF TypeOK
<1>5. StageHolds'
  <2>1. Before(at)' = {}
    BY <1>2 DEF Before
  <2>2. QED BY <1>2, <1>3, <2>1 DEF StageHolds
<1>6. RecordHolds' /\ SentHolds'
  BY <1>1, <1>2, RecordKept, SentKept DEF ChainGains
<1>7. QED BY <1>1, <1>2, <1>4, <1>5, <1>6 DEF SetupInv, Listing!InStages

\* When no reserve was collected the parameters of all are set.
LEMMA EnableDoneInv == SetupInv /\ EnableDone => SetupInv'
<1>1. SUFFICES ASSUME SetupInv, EnableDone PROVE SetupInv'
  OBVIOUS
<1>2. /\ TypeOK /\ StageHolds
      /\ UNCHANGED <<config, recorded, strategies, priced, listed, configured, riskAdmin,
                     pending, status, at, queue, crashes>>
      /\ config' = config /\ ReservesOf' = ReservesOf /\ Listable' = Listable
      /\ AsSet(queue)' = AsSet(queue)
      /\ status = "running" /\ stage = "enable" /\ ~InLoop
      /\ stage' = IF queue = <<>> THEN "save" ELSE "grant"
  BY <1>1, ConfigurationFixed DEF SetupInv, EnableDone, Running, chain, disk, AsSet
<1>3. ReservesOf \ config.noLtv \subseteq configured \cup AsSet(queue)
  BY <1>2, LoopOver DEF StageHolds
<1>4. queue = <<>> => AsSet(queue) = {}
  BY DEF AsSet
<1>5. TypeOK'
  <2>1. stage' \in Stage
    BY <1>2 DEF Stage, Kind
  <2>2. QED BY <1>2, <2>1 DEF TypeOK
<1>6. StageHolds'
  BY <1>2, <1>3, <1>4 DEF StageHolds
<1>7. RecordHolds' /\ SentHolds'
  BY <1>1, <1>2, RecordKept, SentKept DEF ChainGains
<1>8. QED BY <1>1, <1>2, <1>5, <1>6, <1>7 DEF SetupInv, Listing!InStages

\* What is sent for a list of reserves is about reserves with a price, and
\* the configuration has turned out to suffice.
LEMMA SendInv == SetupInv /\ Send => SetupInv'
<1>1. SUFFICES ASSUME SetupInv, Send PROVE SetupInv'
  OBVIOUS
<1>2. /\ TypeOK /\ StageHolds /\ RecordHolds /\ SentHolds
      /\ UNCHANGED <<config, recorded, strategies, priced, listed, configured, riskAdmin,
                     stage, at, queue, crashes>>
      /\ config' = config /\ ReservesOf' = ReservesOf /\ Listable' = Listable
      /\ stage \in Kind /\ ~Throws /\ status' = "waiting"
      /\ stage = "list" => ~InLoop
      /\ pending' = Append(pending, CurrentTx)
  BY <1>1, ConfigurationFixed DEF SetupInv, Send, chain, disk
<1>3. CurrentTx \in Tx /\ CurrentTx' = CurrentTx
  BY <1>2, CurrentTxOK DEF CurrentTx, Subject, AsSet, Chunk
<1>4. /\ pending' \in Seq(Tx) /\ pending' # <<>> /\ Len(pending') = Len(pending) + 1
      /\ \A k \in 1 .. Len(pending) : pending'[k] = pending[k]
      /\ pending'[Len(pending')] = CurrentTx
      /\ Len(pending) \in Nat /\ DOMAIN pending = 1 .. Len(pending)
      /\ DOMAIN pending' = 1 .. Len(pending) + 1
  BY <1>2, <1>3, AppendProperties DEF TypeOK
<1>5. stage = "list" => Listable /\ Subject \subseteq priced
  <2>1. SUFFICES ASSUME stage = "list" PROVE Listable /\ Subject \subseteq priced
    OBVIOUS
  <2>2. /\ config.token = ReservesOf /\ config.token \subseteq config.feed \cap priced
        /\ config.fallback
    BY <1>2, <2>1 DEF StageHolds, RecordHolds
  <2>3. \A r \in ReservesOf : config.rate[r] \in config.rates
    BY <1>2, <2>1, LoopOver DEF StageHolds
  <2>4. Subject \subseteq ReservesOf
    <3>1. AsSet(queue) \subseteq ReservesOf
      BY <1>2 DEF TypeOK, AsSet
    <3>2. QED BY <1>2, <2>1, <3>1, CurrentTxOK
  <2>5. QED BY <2>2, <2>3, <2>4 DEF Listable
<1>6. SentHolds'
  <2>1. ASSUME NEW k \in 1 .. Len(pending) + 1, pending'[k].kind = "list"
        PROVE  Listable /\ pending'[k].on \subseteq priced
    <3>1. CASE k \in 1 .. Len(pending)
      BY <1>2, <1>4, <2>1, <3>1 DEF SentHolds
    <3>2. CASE k = Len(pending) + 1
      BY <1>4, <1>5, <2>1, <3>2 DEF CurrentTx
    <3>3. QED BY <1>4, <3>1, <3>2
  <2>2. stage = "sources" => config.token \subseteq config.feed
    BY <1>2 DEF Throws
  <2>3. QED BY <1>2, <1>3, <1>4, <2>1, <2>2 DEF SentHolds
<1>7. TypeOK'
  BY <1>2, <1>4 DEF TypeOK
<1>8. RecordHolds' /\ StageHolds'
  BY <1>1, <1>2, RecordKept, StageKept DEF ChainGains
<1>9. QED BY <1>1, <1>2, <1>6, <1>7, <1>8 DEF SetupInv, Listing!InStages

\* The oldest transaction, and those behind it.
LEMMA HeadAndTail ==
  ASSUME TypeOK, pending # <<>>
  PROVE  /\ Head(pending) \in Tx /\ Head(pending) = pending[1] /\ 1 \in DOMAIN pending
         /\ Tail(pending) \in Seq(Tx) /\ Len(Tail(pending)) = Len(pending) - 1
         /\ \A k \in DOMAIN Tail(pending) :
              k + 1 \in DOMAIN pending /\ Tail(pending)[k] = pending[k + 1]
         /\ Len(pending) \in Nat
<1>1. pending \in Seq(Tx) /\ Len(pending) \in Nat /\ Len(pending) > 0
      /\ DOMAIN pending = 1 .. Len(pending)
  BY DEF TypeOK
<1>2. /\ Head(pending) \in Tx /\ Tail(pending) \in Seq(Tx)
      /\ Len(Tail(pending)) = Len(pending) - 1
      /\ \A i \in 1 .. Len(Tail(pending)) : Tail(pending)[i] = pending[i + 1]
  BY <1>1, HeadTailProperties
<1>3. Head(pending) = pending[1]
  BY <1>1
<1>4. DOMAIN Tail(pending) = 1 .. Len(pending) - 1
  BY <1>2
<1>5. \A k \in 1 .. Len(pending) - 1 : k + 1 \in 1 .. Len(pending)
  BY <1>1
<1>6. QED BY <1>1, <1>2, <1>3, <1>4, <1>5

\* The transaction of a killed run changes nothing a run relies on.
LEMMA MineOrphanInv == SetupInv /\ MineOrphan => SetupInv'
<1>1. SUFFICES ASSUME SetupInv, MineOrphan PROVE SetupInv'
  OBVIOUS
<1>2. /\ TypeOK /\ SentHolds
      /\ UNCHANGED <<config, recorded, strategies, status, stage, at, queue, crashes>>
      /\ config' = config /\ ReservesOf' = ReservesOf /\ Listable' = Listable
      /\ pending # <<>> /\ (status = "waiting" => Len(pending) > 1)
      /\ pending' = Tail(pending) /\ Execute(Head(pending))
  BY <1>1, ConfigurationFixed DEF SetupInv, MineOrphan, disk, process
<1>3. Head(pending).kind = "list" => Listable /\ Head(pending).on \subseteq priced
  BY <1>2, HeadAndTail DEF SentHolds
<1>4. /\ priced' \subseteq Reserve /\ listed' \subseteq Reserve
      /\ configured' \subseteq Reserve /\ riskAdmin' \in BOOLEAN
      /\ ChainGains /\ Listing!InStages'
  BY <1>1, <1>2, <1>3, HeadAndTail, ExecuteGains DEF ChainGains
<1>5. TypeOK'
  BY <1>2, <1>4, HeadAndTail DEF TypeOK
<1>6. RecordHolds' /\ StageHolds'
  BY <1>1, <1>2, <1>4, RecordKept, StageKept
<1>7. SentHolds'
  <2>1. CurrentTx' = CurrentTx
    BY <1>2 DEF CurrentTx, Subject, AsSet, Chunk
  <2>2. ASSUME NEW k \in DOMAIN Tail(pending), Tail(pending)[k].kind = "list"
        PROVE  Listable /\ Tail(pending)[k].on \subseteq priced'
    BY <1>2, <1>4, <2>2, HeadAndTail DEF SentHolds, ChainGains
  <2>3. ASSUME status = "waiting"
        PROVE  /\ Tail(pending) # <<>>
               /\ Tail(pending)[Len(Tail(pending))] = CurrentTx
    <3>1. Len(pending) > 1 /\ pending[Len(pending)] = CurrentTx
      BY <1>2, <2>3 DEF SentHolds
    <3>2. /\ Len(Tail(pending)) = Len(pending) - 1 /\ Len(pending) \in Nat
          /\ Tail(pending) \in Seq(Tx)
      BY <1>2, HeadAndTail
    <3>3. Len(Tail(pending)) \in DOMAIN Tail(pending)
      BY <3>1, <3>2
    <3>4. Tail(pending)[Len(Tail(pending))] = pending[Len(Tail(pending)) + 1]
      BY <1>2, <3>3, HeadAndTail
    <3>5. Len(Tail(pending)) + 1 = Len(pending) /\ Len(Tail(pending)) > 0
      BY <3>1, <3>2
    <3>6. Tail(pending) # <<>>
      BY <3>5
    <3>7. QED BY <3>1, <3>4, <3>5, <3>6
  <2>4. QED BY <1>2, <2>1, <2>2, <2>3 DEF SentHolds
<1>8. QED BY <1>1, <1>2, <1>4, <1>5, <1>6, <1>7 DEF SetupInv

\* The list a run goes on with, and what it took from it.
LEMMA RestOK ==
  ASSUME TypeOK
  PROVE  /\ RestOf \in Seq(ReservesOf)
         /\ stage \in {"list", "configure"} => AsSet(queue) = Subject \cup AsSet(RestOf)
         /\ stage \notin {"list", "configure"} => RestOf = queue
         /\ RestOf = <<>> => AsSet(RestOf) = {}
<1>1. queue \in Seq(ReservesOf)
  BY DEF TypeOK
<1>2. RestOf = <<>> => AsSet(RestOf) = {}
  BY DEF AsSet
<1>3. CASE stage = "list"
  <2>1. RestOf = Rest(queue, InitChunks) /\ Subject = AsSet(Chunk(queue, InitChunks))
    BY <1>3 DEF RestOf, Subject
  <2>2. /\ Rest(queue, InitChunks) \in Seq(ReservesOf)
        /\ AsSet(queue) = AsSet(Chunk(queue, InitChunks)) \cup AsSet(Rest(queue, InitChunks))
    BY <1>1, ChunkAndRest, SetupAssumption
  <2>3. QED BY <1>2, <1>3, <2>1, <2>2
<1>4. CASE stage = "configure"
  <2>1. RestOf = Rest(queue, EnableChunks) /\ Subject = AsSet(Chunk(queue, EnableChunks))
    BY <1>4 DEF RestOf, Subject
  <2>2. /\ Rest(queue, EnableChunks) \in Seq(ReservesOf)
        /\ AsSet(queue) = AsSet(Chunk(queue, EnableChunks)) \cup AsSet(Rest(queue, EnableChunks))
    BY <1>1, ChunkAndRest, SetupAssumption
  <2>3. QED BY <1>2, <1>4, <2>1, <2>2
<1>5. CASE stage \notin {"list", "configure"}
  <2>1. RestOf = queue
    BY <1>5 DEF RestOf
  <2>2. QED BY <1>1, <1>2, <1>5, <2>1
<1>6. QED BY <1>3, <1>4, <1>5

\* A run goes on when its transaction did what it was for.
LEMMA MineAwaitedInv == SetupInv /\ MineAwaited => SetupInv'
<1>1. SUFFICES ASSUME SetupInv, MineAwaited PROVE SetupInv'
  OBVIOUS
<1>2. /\ TypeOK /\ SentHolds /\ StageHolds /\ RecordHolds
      /\ UNCHANGED <<config, recorded, strategies, at, crashes>>
      /\ config' = config /\ ReservesOf' = ReservesOf /\ Listable' = Listable
      /\ status = "waiting" /\ Len(pending) = 1
      /\ pending' = <<>> /\ Execute(Head(pending))
  BY <1>1, ConfigurationFixed DEF SetupInv, MineAwaited, disk
<1>3. /\ pending # <<>> /\ Head(pending) = CurrentTx /\ stage \in Kind
      /\ stage = "sources" => config.token \subseteq config.feed
      /\ Head(pending).kind = stage /\ Head(pending).on = Subject
  BY <1>2, HeadAndTail DEF SentHolds, CurrentTx
<1>4. Head(pending).kind = "list" => Listable /\ Head(pending).on \subseteq priced
  BY <1>2, <1>3, HeadAndTail DEF SentHolds
<1>5. /\ priced' \subseteq Reserve /\ listed' \subseteq Reserve
      /\ configured' \subseteq Reserve /\ riskAdmin' \in BOOLEAN
      /\ ChainGains /\ Listing!InStages'
      /\ Accepted(Head(pending)) => /\ stage = "sources" => Subject \subseteq priced'
                                    /\ stage = "list" => Subject \subseteq listed'
                                    /\ stage = "configure" => Subject \subseteq configured'
  BY <1>1, <1>2, <1>3, <1>4, HeadAndTail, ExecuteGains DEF ChainGains
<1>6. RecordHolds'
  BY <1>1, <1>2, <1>5, RecordKept
<1>7. CASE ~Accepted(Head(pending))
  <2>1. status' = "failed" /\ UNCHANGED <<stage, queue>>
    BY <1>1, <1>7 DEF MineAwaited
  <2>2. TypeOK'
    BY <1>2, <1>5, <2>1 DEF TypeOK
  <2>3. StageHolds'
    BY <1>1, <1>2, <1>5, <2>1, StageKept
  <2>4. SentHolds'
    BY <1>2, <2>1 DEF SentHolds
  <2>5. QED BY <1>1, <1>2, <1>5, <1>6, <2>2, <2>3, <2>4 DEF SetupInv
<1>8. CASE Accepted(Head(pending))
  <2>1. status' = "running" /\ stage' = StageAfter /\ queue' = RestOf
    BY <1>1, <1>8 DEF MineAwaited
  <2>2. TypeOK'
    <3>1. stage' \in Stage
      BY <2>1 DEF StageAfter, Stage, Kind
    <3>2. queue' \in Seq(ReservesOf')
      BY <1>2, <2>1, RestOK
    <3>3. QED BY <1>2, <1>5, <2>1, <3>1, <3>2 DEF TypeOK
  <2>3. SentHolds'
    BY <1>2, <2>1 DEF SentHolds
  <2>4. StageHolds'
    <3>1. AsSet(queue') = AsSet(RestOf) /\ AsSet(queue)' = AsSet(queue')
          /\ Before(at)' = Before(at)
      BY <1>2, <2>1 DEF AsSet, Before
    <3>2. CASE stage = "sources"
      <4>1. stage' = "fallback" /\ "provider" \in recorded /\ config.token \subseteq priced'
        BY <1>2, <1>5, <1>8, <2>1, <3>2 DEF StageAfter, Subject, StageHolds
      <4>2. QED BY <1>2, <1>3, <3>2, <4>1 DEF StageHolds
    <3>3. CASE stage = "list"
      <4>1. /\ stage' = "list" /\ "oracles" \in recorded
            /\ Before(at) \subseteq listed \cup AsSet(queue)
            /\ \A r \in Before(at) : config.rate[r] \in config.rates
        BY <1>2, <2>1, <3>3 DEF StageAfter, StageHolds
      <4>2. Before(at) \subseteq listed' \cup AsSet(RestOf)
        BY <1>2, <1>5, <1>8, <3>3, <4>1, RestOK DEF ChainGains
      <4>3. QED BY <1>2, <3>1, <4>1, <4>2 DEF StageHolds
    <3>4. CASE stage = "grant"
      <4>1. /\ stage' = "configure" /\ "oracles" \in recorded
            /\ ReservesOf \subseteq listed
            /\ ReservesOf \ config.noLtv \subseteq configured \cup AsSet(queue)
            /\ RestOf = queue
        BY <1>2, <2>1, <3>4, RestOK DEF StageAfter, StageHolds
      <4>2. QED BY <1>2, <1>5, <3>1, <4>1 DEF StageHolds, ChainGains
    <3>5. CASE stage = "configure"
      <4>1. /\ "oracles" \in recorded /\ ReservesOf \subseteq listed
            /\ ReservesOf \ config.noLtv \subseteq configured \cup AsSet(queue)
            /\ stage' = IF RestOf = <<>> THEN "revoke" ELSE "configure"
        BY <1>2, <2>1, <3>5 DEF StageAfter, StageHolds
      <4>2. ReservesOf \ config.noLtv \subseteq configured' \cup AsSet(RestOf)
        BY <1>2, <1>5, <1>8, <3>5, <4>1, RestOK DEF ChainGains
      <4>3. RestOf = <<>> => AsSet(RestOf) = {}
        BY <1>2, RestOK
      <4>4. QED BY <1>2, <1>5, <3>1, <4>1, <4>2, <4>3 DEF StageHolds, ChainGains
    <3>6. CASE stage = "revoke"
      <4>1. /\ stage' = "save" /\ "oracles" \in recorded /\ ReservesOf \subseteq listed
            /\ ReservesOf \ config.noLtv \subseteq configured
        BY <1>2, <2>1, <3>6 DEF StageAfter, StageHolds
      <4>2. QED BY <1>2, <1>5, <4>1 DEF StageHolds, ChainGains
    <3>7. QED BY <1>3, <3>2, <3>3, <3>4, <3>5, <3>6 DEF Kind
  <2>5. QED BY <1>1, <1>2, <1>5, <1>6, <2>2, <2>3, <2>4 DEF SetupInv
<1>9. QED BY <1>7, <1>8

-----------------------------------------------------------------------------
(* The theorems.                                                           *)
\* Every step keeps the invariant.
LEMMA NextInv == SetupInv /\ [Next]_vars => SetupInv'
<1>1. SUFFICES ASSUME SetupInv, [Next]_vars PROVE SetupInv'
  OBVIOUS
<1>2. CASE UNCHANGED vars
  <2>1. /\ UNCHANGED <<config, recorded, strategies, priced, listed, configured, riskAdmin,
                       pending, status, stage, at, queue, crashes>>
        /\ config' = config /\ ReservesOf' = ReservesOf /\ Listable' = Listable
    BY <1>2, ConfigurationFixed DEF vars, disk, chain, process
  <2>2. RecordHolds' /\ StageHolds' /\ SentHolds'
    BY <1>1, <2>1, RecordKept, StageKept, SentKept DEF ChainGains
  <2>3. QED BY <1>1, <2>1, <2>2 DEF SetupInv, TypeOK, Listing!InStages
<1>3. CASE Next
  BY <1>1, <1>3, LaunchInv, StopInv, RecordInv, DeployRatesInv, ReadReserveInv,
     ReadConfigurationInv, ListDoneInv, EnableDoneInv, SendInv, MineOrphanInv, MineAwaitedInv
     DEF Next, Progress, Mine
<1>4. QED BY <1>1, <1>2, <1>3

(* The variables hold what their comments say; and for every set of        *)
(* configurations, however often runs are killed and wherever, no run of   *)
(* the scripts is at a stage before what it builds on is there.            *)
THEOREM SetupInvariant == Spec => []SetupInv
<1>1. QED BY InitInv, NextInv, PTL DEF Spec

(* What .migrations.json says of the oracle's sources and the reserves is  *)
(* true, so that a later run may pass over 05_init_oracles and             *)
(* 08_init_reserves.                                                       *)
THEOREM RecordIsTrue == Spec => []RecordedMeansSetUp
<1>1. SetupInv => RecordedMeansSetUp
  BY DEF SetupInv, RecordHolds, RecordedMeansSetUp
<1>2. QED BY <1>1, SetupInvariant, PTL

\* A step of the scripts is one of the abstract steps, or none.
LEMMA StepListing ==
  SetupInv /\ SetupInv' /\ [Next]_vars => [Listing!Next]_(Listing!vars)
<1>1. SUFFICES ASSUME SetupInv, SetupInv', [Next]_vars
               PROVE  [Listing!Next]_(Listing!vars)
  OBVIOUS
<1>2. UNCHANGED config => Listable' = Listable
  BY ConfigurationFixed
<1>3. CASE UNCHANGED <<config, chain>>
  BY <1>2, <1>3 DEF chain, Listing!vars
<1>4. ASSUME UNCHANGED config, pending # <<>>, Execute(Head(pending))
      PROVE  [Listing!Next]_(Listing!vars)
  <2> DEFINE t == Head(pending)
  <2>1. /\ TypeOK /\ SentHolds /\ TypeOK' /\ Listing!InStages' /\ t \in Tx
        /\ t.kind = "list" => Listable
    BY <1>1, <1>4, HeadAndTail DEF SetupInv, SentHolds
  <2>2. t.on \subseteq Reserve
    BY <2>1 DEF Tx
  <2> HIDE DEF t
  <2>3. Execute(t) /\ Listable' = Listable
    BY <1>2, <1>4 DEF t
  <2>4. CASE ~Accepted(t)
    BY <2>3, <2>4 DEF Execute, chain, Listing!vars
  <2>5. CASE Accepted(t)
    <3>1. /\ priced' = IF t.kind = "sources" THEN priced \cup t.on ELSE priced
          /\ listed' = IF t.kind = "list" THEN listed \cup t.on ELSE listed
          /\ configured' = IF t.kind = "configure" THEN configured \cup t.on ELSE configured
      BY <2>3, <2>5 DEF Execute
    <3>2. CASE t.kind = "sources"
      BY <2>1, <2>2, <2>3, <3>1, <3>2 DEF TypeOK, Listing!Next, Listing!Price
    <3>3. CASE t.kind = "list"
      BY <2>1, <2>2, <2>3, <3>1, <3>3 DEF Listing!InStages, Listing!Next, Listing!List
    <3>4. CASE t.kind = "configure"
      BY <2>1, <2>2, <2>3, <3>1, <3>4 DEF Listing!InStages, Listing!Next, Listing!Configure
    <3>5. CASE t.kind \notin {"sources", "list", "configure"}
      BY <2>3, <3>1, <3>5 DEF Listing!vars
    <3>6. QED BY <3>2, <3>3, <3>4, <3>5
  <2>6. QED BY <2>4, <2>5
<1>5. CASE MineOrphan
  BY <1>4, <1>5 DEF MineOrphan
<1>6. CASE MineAwaited
  <2>1. pending # <<>> /\ Execute(Head(pending)) /\ UNCHANGED config
    BY <1>1, <1>6 DEF MineAwaited, SetupInv, SentHolds
  <2>2. QED BY <1>4, <2>1
<1>7. ASSUME Launch \/ Progress \/ Crash PROVE UNCHANGED <<config, chain>>
  BY <1>7 DEF Launch, Progress, Crash, Throw, CheckProvider, CheckFallback, Save, Record,
     DeployRates, ReadReserve, ReadConfiguration, Collect, ListDone, EnableDone, Send, Finish,
     chain
<1>8. CASE UNCHANGED vars
  BY <1>3, <1>8 DEF vars, chain
<1>9. QED BY <1>1, <1>3, <1>5, <1>6, <1>7, <1>8 DEF Next, Mine

(* The scripts, transaction by transaction, with kills and re-runs, keep   *)
(* the promise: a price before a listing, a listing before parameters,     *)
(* nothing for a configuration that does not suffice, nothing undone.      *)
THEOREM ImplementsListing == Spec => ListingSpec
<1>1. Init => Listing!Init
  BY DEF Init, Listing!Init, Listable
<1>2. QED BY <1>1, SetupInvariant, StepListing, PTL DEF Spec, ListingSpec, Listing!Spec

-----------------------------------------------------------------------------
(* The order of the pool's list.                                           *)
FirstOf(s, n) == {s[i] : i \in 1 .. n}

\* FollowsOn for a list l of the pool, and what ListOrderInv says of the state
Follows(l, S) == S \cap l = {} => \E n \in 0 .. Len(config.order) : l \cup S = Before(n + 1)

OrderOf(l, sent, s, q) ==
  /\ \E n \in 0 .. Len(config.order) : l = Before(n + 1)
  /\ \A k \in DOMAIN sent : sent[k].kind = "list" => Follows(l, sent[k].on)
  /\ s = "list" => \A n \in 0 .. Len(q) : Follows(l, FirstOf(q, n))

\* The elements of the first part of a list.
LEMMA PartOf ==
  ASSUME NEW S, NEW s \in Seq(S), NEW n \in 0 .. Len(s)
  PROVE  AsSet(SubSeq(s, 1, n)) = FirstOf(s, n)
<1> DEFINE t == SubSeq(s, 1, n)
<1>1. Len(s) \in Nat /\ n \in Nat /\ \A i \in 1 .. n : s[i] \in S
  OBVIOUS
<1>2. /\ t \in Seq(S)
      /\ Len(t) = IF 1 <= n THEN n - 1 + 1 ELSE 0
      /\ \A i \in 1 .. n - 1 + 1 : t[i] = s[1 + i - 1]
  BY <1>1, SubSeqProperties
<1>3. (IF 1 <= n THEN n - 1 + 1 ELSE 0) = n /\ n - 1 + 1 = n
  BY <1>1
<1>4. ASSUME NEW i \in 1 .. n PROVE t[i] = s[i]
  BY <1>1, <1>2
<1>5. DOMAIN t = 1 .. n
  BY <1>2, <1>3
<1> HIDE DEF t
<1>6. AsSet(t) = FirstOf(s, n)
  BY <1>4, <1>5 DEF AsSet, FirstOf
<1>7. QED BY <1>6 DEF t

\* A part of the reserves is a part of every longer one.
LEMMA BeforeGrows ==
  ASSUME NEW m \in Nat, NEW n \in Nat, m <= n
  PROVE  Before(m + 1) \subseteq Before(n + 1)
<1>1. 1 .. m + 1 - 1 \subseteq 1 .. n + 1 - 1
  OBVIOUS
<1>2. QED BY <1>1 DEF Before

LEMMA PartsOfOrder ==
  ASSUME TypeOK, NEW n \in 0 .. Len(config.order)
  PROVE  AsSet(SubSeq(config.order, 1, n)) = Before(n + 1)
<1>1. config.order \in Seq(Reserve) /\ 1 .. n + 1 - 1 = 1 .. n
  BY ConfigurationOK
<1>2. AsSet(SubSeq(config.order, 1, n)) = FirstOf(config.order, n)
  BY <1>1, PartOf
<1>3. QED BY <1>1, <1>2 DEF Before, FirstOf

\* ListOrderInv in these words, before a step and after it.
LEMMA OrderInWords == TypeOK /\ ListOrderInv => OrderOf(listed, pending, stage, queue)
<1>1. SUFFICES ASSUME TypeOK, ListOrderInv PROVE OrderOf(listed, pending, stage, queue)
  OBVIOUS
<1>2. config.order \in Seq(Reserve) /\ queue \in Seq(ReservesOf)
  BY <1>1, ConfigurationOK DEF TypeOK
<1>3. \A n \in 0 .. Len(config.order) : AsSet(SubSeq(config.order, 1, n)) = Before(n + 1)
  BY <1>1, PartsOfOrder
<1>4. \A n \in 0 .. Len(queue) : AsSet(SubSeq(queue, 1, n)) = FirstOf(queue, n)
  BY <1>2, PartOf
<1>5. QED BY <1>1, <1>3, <1>4 DEF ListOrderInv, ListedInOrder, OrderOf, Follows, FollowsOn

LEMMA OrderAfterStep ==
  ASSUME TypeOK, TypeOK', UNCHANGED config, OrderOf(listed', pending', stage', queue')
  PROVE  ListOrderInv'
<1>1. /\ config' = config /\ config.order \in Seq(Reserve)
      /\ queue' \in Seq(ReservesOf) /\ \A k \in Int : Before(k)' = Before(k)
      /\ Len(config.order) \in Nat
  BY ConfigurationOK, ConfigurationFixed DEF TypeOK
<1>2. \A n \in 0 .. Len(config.order) : AsSet(SubSeq(config.order, 1, n)) = Before(n + 1)
  BY PartsOfOrder
<1>3. \A n \in 0 .. Len(queue') : AsSet(SubSeq(queue', 1, n)) = FirstOf(queue', n)
  BY <1>1, PartOf
<1>4. \A n \in 0 .. Len(config.order) : n + 1 \in Int
  BY <1>1
<1>5. ListedInOrder'
  <2>1. PICK n \in 0 .. Len(config.order) : listed' = AsSet(SubSeq(config.order, 1, n))
    BY <1>2 DEF OrderOf
  <2>2. AsSet(SubSeq(config.order, 1, n)) = AsSet(SubSeq(config'.order, 1, n))
    BY <1>1
  <2>3. QED BY <1>1, <2>1, <2>2 DEF ListedInOrder, AsSet
<1>6. \A k \in DOMAIN pending' : pending'[k].kind = "list" => FollowsOn(pending[k].on)'
  BY <1>1, <1>4 DEF Follows, FollowsOn, OrderOf
<1>7. stage' = "list" => \A n \in 0 .. Len(queue') : FollowsOn(AsSet(SubSeq(queue, 1, n)))'
  BY <1>1, <1>3, <1>4 DEF Follows, FollowsOn, OrderOf, AsSet
<1>8. QED BY <1>5, <1>6, <1>7 DEF ListOrderInv

\* What follows on still does so when something else has been listed, or is
\* refused from then on.
LEMMA FollowsKept ==
  ASSUME TypeOK, NEW l, NEW u, NEW b \in 0 .. Len(config.order), l \cup u = Before(b + 1),
         NEW S, Follows(l, S)
  PROVE  Follows(l \cup u, S)
<1>1. SUFFICES ASSUME S \cap (l \cup u) = {}
               PROVE  \E n \in 0 .. Len(config.order) : (l \cup u) \cup S = Before(n + 1)
  BY DEF Follows
<1>2. PICK m \in 0 .. Len(config.order) : l \cup S = Before(m + 1)
  BY <1>1 DEF Follows
<1>3. Len(config.order) \in Nat
  BY ConfigurationOK
<1>4. m \in Nat /\ b \in Nat /\ (m <= b \/ b <= m)
  BY <1>3
<1>5. CASE m <= b
  <2>1. Before(m + 1) \subseteq Before(b + 1)
    BY <1>4, <1>5, BeforeGrows
  <2>2. (l \cup u) \cup S = Before(b + 1)
    BY <1>2, <2>1
  <2>3. QED BY <2>2
<1>6. CASE b <= m
  <2>1. Before(b + 1) \subseteq Before(m + 1)
    BY <1>4, <1>6, BeforeGrows
  <2>2. (l \cup u) \cup S = Before(m + 1)
    BY <1>2, <2>1
  <2>3. QED BY <2>2
<1>7. QED BY <1>4, <1>5, <1>6

\* A transaction that follows on keeps the pool's list in order, and what
\* followed on still does.
LEMMA ExecuteOrder ==
  ASSUME TypeOK, NEW t \in Tx, Execute(t),
         \E n \in 0 .. Len(config.order) : listed = Before(n + 1),
         t.kind = "list" => Follows(listed, t.on)
  PROVE  /\ \E n \in 0 .. Len(config.order) : listed' = Before(n + 1)
         /\ \A S : Follows(listed, S) => Follows(listed', S)
         /\ t.kind = "list" /\ Accepted(t) =>
              t.on \cap listed = {} /\ listed' = listed \cup t.on
<1>1. CASE t.kind = "list" /\ Accepted(t)
  <2>1. t.on \cap listed = {} /\ listed' = listed \cup t.on
    BY <1>1 DEF Accepted, Execute
  <2>2. PICK b \in 0 .. Len(config.order) : listed \cup t.on = Before(b + 1)
    BY <1>1, <2>1 DEF Follows
  <2>3. \A S : Follows(listed, S) => Follows(listed \cup t.on, S)
    BY <2>2, FollowsKept
  <2>4. QED BY <2>1, <2>2, <2>3
<1>2. CASE ~(t.kind = "list" /\ Accepted(t))
  <2>1. listed' = listed
    BY <1>2 DEF Execute, chain
  <2>2. QED BY <1>2, <2>1
<1>3. QED BY <1>1, <1>2

\* The parts of a list with one more element
LEMMA PartsOfAppend ==
  ASSUME NEW S, NEW s \in Seq(S), NEW x \in S, NEW n \in 0 .. Len(Append(s, x))
  PROVE  \/ n \in 0 .. Len(s) /\ FirstOf(Append(s, x), n) = FirstOf(s, n)
         \/ FirstOf(Append(s, x), n) = FirstOf(s, Len(s)) \cup {x}
<1> DEFINE t == Append(s, x)
<1>1. /\ Len(t) = Len(s) + 1 /\ Len(s) \in Nat
      /\ \A i \in 1 .. Len(s) : t[i] = s[i]
      /\ t[Len(s) + 1] = x
  BY AppendProperties
<1>2. n \in 0 .. Len(s) \/ n = Len(s) + 1
  BY <1>1
<1> HIDE DEF t
<1>3. CASE n \in 0 .. Len(s)
  <2>1. \A i \in 1 .. n : i \in 1 .. Len(s)
    BY <1>1, <1>3
  <2>2. FirstOf(t, n) = FirstOf(s, n)
    BY <1>1, <2>1 DEF FirstOf
  <2>3. QED BY <1>3, <2>2 DEF t
<1>4. CASE n = Len(s) + 1
  <2>1. 1 .. n = (1 .. Len(s)) \cup {Len(s) + 1}
    BY <1>1, <1>4
  <2>2. FirstOf(t, n) = FirstOf(s, Len(s)) \cup {x}
    BY <1>1, <2>1 DEF FirstOf
  <2>3. QED BY <2>2 DEF t
<1>5. QED BY <1>2, <1>3, <1>4

\* All of a list is its longest part.
LEMMA AllOf == ASSUME NEW S, NEW s \in Seq(S) PROVE AsSet(s) = FirstOf(s, Len(s))
<1>1. DOMAIN s = 1 .. Len(s)
  OBVIOUS
<1>2. QED BY <1>1 DEF AsSet, FirstOf

\* A part of the rest, with the chunk before it, is a part of the list.
LEMMA PartsOfRest ==
  ASSUME NEW S, NEW s \in Seq(S), NEW n \in Nat \ {0}, NEW j \in 0 .. Len(Rest(s, n))
  PROVE  \E k \in 0 .. Len(s) :
           FirstOf(s, k) = AsSet(Chunk(s, n)) \cup FirstOf(Rest(s, n), j)
<1> DEFINE l == Len(s)
           m == IF l < n THEN l ELSE n
           t == Rest(s, n)
<1>1. l \in Nat /\ \A i \in 1 .. l : s[i] \in S
  OBVIOUS
<1>2. m \in 0 .. l /\ m \in Nat /\ m <= n
  BY <1>1
<1>3. AsSet(Chunk(s, n)) = FirstOf(s, m)
  BY <1>2, PartOf DEF Chunk
<1>4. /\ t \in Seq(S) /\ Len(t) = IF n + 1 <= l THEN l - (n + 1) + 1 ELSE 0
      /\ \A i \in 1 .. l - (n + 1) + 1 : t[i] = s[n + 1 + i - 1]
  <2>1. \A i \in n + 1 .. l : s[i] \in S
    BY <1>1
  <2>2. n + 1 \in Int
    OBVIOUS
  <2>3. QED BY <1>1, <2>1, <2>2, SubSeqProperties DEF Rest
<1> HIDE DEF t
<1>5. CASE l <= n
  <2>1. j = 0 /\ m = l /\ l \in 0 .. l
    BY <1>1, <1>4, <1>5 DEF t
  <2>2. FirstOf(t, j) = {}
    BY <2>1 DEF FirstOf
  <2>3. FirstOf(s, l) = AsSet(Chunk(s, n)) \cup FirstOf(t, j)
    BY <1>3, <2>1, <2>2
  <2>4. QED BY <2>1, <2>3 DEF t
<1>6. CASE n < l
  <2>1. m = n /\ n + j \in 0 .. l /\ j \in 0 .. l - n
    BY <1>1, <1>4, <1>6 DEF t
  <2>2. ASSUME NEW i \in 1 .. j PROVE t[i] = s[n + i] /\ n + i \in 1 .. n + j
    <3>1. i \in 1 .. l - (n + 1) + 1 /\ n + 1 + i - 1 = n + i
      BY <1>1, <2>1
    <3>2. n + i \in 1 .. n + j
      BY <2>1
    <3>3. QED BY <1>4, <3>1, <3>2
  <2>3. FirstOf(t, j) \subseteq FirstOf(s, n + j)
    BY <2>2 DEF FirstOf
  <2>4. FirstOf(s, n) \subseteq FirstOf(s, n + j)
    <3>1. 1 .. n \subseteq 1 .. n + j
      BY <2>1
    <3>2. QED BY <3>1 DEF FirstOf
  <2>5. FirstOf(s, n + j) \subseteq FirstOf(s, n) \cup FirstOf(t, j)
    <3>1. SUFFICES ASSUME NEW i \in 1 .. n + j
                   PROVE  s[i] \in FirstOf(s, n) \cup FirstOf(t, j)
      BY DEF FirstOf
    <3>2. CASE i \in 1 .. n
      BY <3>2 DEF FirstOf
    <3>3. CASE i \notin 1 .. n
      <4>1. i - n \in 1 .. j /\ n + (i - n) = i
        BY <2>1, <3>3
      <4>2. t[i - n] = s[i]
        BY <2>2, <4>1
      <4>3. QED BY <4>1, <4>2 DEF FirstOf
    <3>4. QED BY <3>2, <3>3
  <2>6. FirstOf(s, n + j) = AsSet(Chunk(s, n)) \cup FirstOf(t, j)
    BY <1>3, <2>1, <2>3, <2>4, <2>5
  <2>7. QED BY <2>1, <2>6 DEF t
<1>7. QED BY <1>1, <1>5, <1>6

\* A run's list after a reserve was read
LEMMA CollectOrder ==
  ASSUME SetupInv, SetupInv', ListOrderInv, ReadReserve
  PROVE  ListOrderInv'
<1> DEFINE r == config.order[at]
<1>1. /\ TypeOK /\ TypeOK' /\ stage = "list" /\ InLoop /\ Collect(Skipped(r))
      /\ OrderOf(listed, pending, stage, queue) /\ StageHolds
  BY OrderInWords DEF SetupInv, ReadReserve, Running
<1>2. /\ UNCHANGED <<config, listed, pending, stage>>
      /\ queue' = IF Skipped(r) THEN queue ELSE Append(queue, r)
  BY <1>1 DEF Collect, chain
<1>3. /\ queue \in Seq(ReservesOf) /\ r \in ReservesOf /\ Len(config.order) \in Nat
      /\ at \in 1 .. Len(config.order)
  BY <1>1, ConfigurationOK DEF InLoop, TypeOK
<1>4. Before(at + 1) = Before(at) \cup {r} /\ at = (at - 1) + 1
  <2>1. 1 .. at + 1 - 1 = (1 .. at - 1) \cup {at} /\ at = (at - 1) + 1
    BY <1>3
  <2>2. QED BY <2>1 DEF Before
<1>5. Before(at) \subseteq listed \cup AsSet(queue) /\ AsSet(queue) = FirstOf(queue, Len(queue))
  BY <1>1, <1>3, AllOf DEF StageHolds
<1>6. \A n \in 0 .. Len(queue) : Follows(listed, FirstOf(queue, n))
  BY <1>1 DEF OrderOf
<1> HIDE DEF r
<1>7. Follows(listed, AsSet(queue) \cup {r})
  <2>1. SUFFICES ASSUME (AsSet(queue) \cup {r}) \cap listed = {}
                 PROVE  \E n \in 0 .. Len(config.order) :
                          listed \cup (AsSet(queue) \cup {r}) = Before(n + 1)
    BY DEF Follows
  <2>2. Len(queue) \in 0 .. Len(queue)
    BY <1>3
  <2>3. PICK m \in 0 .. Len(config.order) : listed \cup AsSet(queue) = Before(m + 1)
    BY <1>5, <1>6, <2>1, <2>2 DEF Follows
  <2>4. m \in Nat /\ at \in Nat /\ at - 1 \in Nat /\ (at <= m \/ m <= at - 1)
    BY <1>3
  <2>5. CASE at <= m
    <3>1. Before(at + 1) \subseteq Before(m + 1)
      BY <2>4, <2>5, BeforeGrows
    <3>2. listed \cup (AsSet(queue) \cup {r}) = Before(m + 1)
      BY <1>4, <2>3, <3>1
    <3>3. QED BY <3>2
  <2>6. CASE m <= at - 1
    <3>1. Before(m + 1) \subseteq Before(at)
      BY <1>4, <2>4, <2>6, BeforeGrows
    <3>2. listed \cup (AsSet(queue) \cup {r}) = Before(at + 1)
      BY <1>4, <1>5, <2>3, <3>1
    <3>3. at \in 0 .. Len(config.order)
      BY <1>3
    <3>4. QED BY <3>2, <3>3
  <2>7. QED BY <2>4, <2>5, <2>6
<1>8. \A n \in 0 .. Len(queue') : Follows(listed, FirstOf(queue', n))
  <2>1. CASE Skipped(r)
    BY <1>2, <1>6, <2>1
  <2>2. CASE ~Skipped(r)
    <3>1. queue' = Append(queue, r)
      BY <1>2, <2>2
    <3>2. SUFFICES ASSUME NEW n \in 0 .. Len(Append(queue, r))
                   PROVE  Follows(listed, FirstOf(Append(queue, r), n))
      BY <3>1
    <3>3. \/ n \in 0 .. Len(queue) /\ FirstOf(Append(queue, r), n) = FirstOf(queue, n)
          \/ FirstOf(Append(queue, r), n) = AsSet(queue) \cup {r}
      BY <1>3, <1>5, PartsOfAppend
    <3>4. QED BY <1>6, <1>7, <3>3
  <2>3. QED BY <2>1, <2>2
<1>9. OrderOf(listed', pending', stage', queue')
  BY <1>1, <1>2, <1>8 DEF OrderOf
<1>10. QED BY <1>1, <1>2, <1>9, OrderAfterStep

\* A transaction about the first chunk of a run's list
LEMMA SendOrder ==
  ASSUME SetupInv, SetupInv', ListOrderInv, Send
  PROVE  ListOrderInv'
<1>1. /\ TypeOK /\ TypeOK' /\ UNCHANGED <<config, listed, stage, queue>>
      /\ pending' = Append(pending, CurrentTx) /\ stage \in Kind
      /\ OrderOf(listed, pending, stage, queue)
  BY OrderInWords DEF SetupInv, Send, chain
<1>2. CurrentTx \in Tx /\ CurrentTx.kind = stage /\ CurrentTx.on = Subject
  BY <1>1, CurrentTxOK DEF CurrentTx
<1>3. stage = "list" => Follows(listed, Subject)
  <2>1. SUFFICES ASSUME stage = "list" PROVE Follows(listed, Subject)
    OBVIOUS
  <2>2. queue \in Seq(ReservesOf) /\ InitChunks \in Nat \ {0} /\ Len(queue) \in Nat
    BY <1>1, SetupAssumption DEF TypeOK
  <2> DEFINE m == IF Len(queue) < InitChunks THEN Len(queue) ELSE InitChunks
  <2>3. m \in 0 .. Len(queue)
    BY <2>2
  <2>4. Subject = FirstOf(queue, m)
    BY <2>1, <2>2, <2>3, PartOf DEF Subject, Chunk
  <2>5. QED BY <1>1, <2>1, <2>3, <2>4 DEF OrderOf
<1>4. /\ DOMAIN pending' = 1 .. Len(pending) + 1 /\ DOMAIN pending = 1 .. Len(pending)
      /\ Len(pending) \in Nat
      /\ \A k \in 1 .. Len(pending) : pending'[k] = pending[k]
      /\ pending'[Len(pending) + 1] = CurrentTx
  BY <1>1, <1>2, AppendProperties DEF TypeOK
<1>5. ASSUME NEW k \in DOMAIN pending', pending'[k].kind = "list"
      PROVE  Follows(listed, pending'[k].on)
  <2>1. k \in 1 .. Len(pending) \/ k = Len(pending) + 1
    BY <1>4
  <2>2. CASE k \in 1 .. Len(pending)
    BY <1>1, <1>4, <1>5, <2>2 DEF OrderOf
  <2>3. CASE k = Len(pending) + 1
    BY <1>2, <1>3, <1>4, <1>5, <2>3
  <2>4. QED BY <2>1, <2>2, <2>3
<1>6. OrderOf(listed', pending', stage', queue')
  BY <1>1, <1>5 DEF OrderOf
<1>7. QED BY <1>1, <1>6, OrderAfterStep

\* A transaction is mined, of whichever run.
LEMMA MineOrphanOrder ==
  ASSUME SetupInv, SetupInv', ListOrderInv, MineOrphan
  PROVE  ListOrderInv'
<1>1. /\ TypeOK /\ TypeOK' /\ UNCHANGED <<config, stage, queue>>
      /\ pending # <<>> /\ pending' = Tail(pending) /\ Execute(Head(pending))
      /\ OrderOf(listed, pending, stage, queue)
  BY OrderInWords DEF SetupInv, MineOrphan, process
<1>2. /\ Head(pending) \in Tx
      /\ Head(pending).kind = "list" => Follows(listed, Head(pending).on)
  BY <1>1, HeadAndTail DEF OrderOf
<1>3. /\ \E n \in 0 .. Len(config.order) : listed' = Before(n + 1)
      /\ \A S : Follows(listed, S) => Follows(listed', S)
  BY <1>1, <1>2, ExecuteOrder DEF OrderOf
<1>4. \A k \in DOMAIN pending' : pending'[k].kind = "list" => Follows(listed, pending'[k].on)
  BY <1>1, HeadAndTail DEF OrderOf
<1>5. OrderOf(listed', pending', stage', queue')
  BY <1>1, <1>3, <1>4 DEF OrderOf
<1>6. QED BY <1>1, <1>5, OrderAfterStep

LEMMA MineAwaitedOrder ==
  ASSUME SetupInv, SetupInv', ListOrderInv, MineAwaited
  PROVE  ListOrderInv'
<1>1. /\ TypeOK /\ TypeOK' /\ SentHolds /\ UNCHANGED config
      /\ status = "waiting" /\ Len(pending) = 1
      /\ pending' = <<>> /\ Execute(Head(pending))
      /\ OrderOf(listed, pending, stage, queue)
  BY OrderInWords DEF SetupInv, MineAwaited
<1>2. /\ pending # <<>> /\ Head(pending) \in Tx
      /\ Head(pending).kind = "list" => Follows(listed, Head(pending).on)
      /\ Head(pending).kind = stage /\ Head(pending).on = Subject
  BY <1>1, HeadAndTail DEF OrderOf, SentHolds, CurrentTx
<1>3. /\ \E n \in 0 .. Len(config.order) : listed' = Before(n + 1)
      /\ \A S : Follows(listed, S) => Follows(listed', S)
      /\ stage = "list" /\ Accepted(Head(pending)) =>
           Subject \cap listed = {} /\ listed' = listed \cup Subject
  BY <1>1, <1>2, ExecuteOrder DEF OrderOf
<1>4. ASSUME stage' = "list"
      PROVE  \A n \in 0 .. Len(queue') : Follows(listed', FirstOf(queue', n))
  <2>1. CASE ~Accepted(Head(pending))
    <3>1. UNCHANGED <<stage, queue>>
      BY <2>1 DEF MineAwaited
    <3>2. QED BY <1>1, <1>3, <1>4, <3>1 DEF OrderOf
  <2>2. CASE Accepted(Head(pending))
    <3>1. stage' = StageAfter /\ queue' = RestOf
      BY <2>2 DEF MineAwaited
    <3>2. stage = "list"
      BY <1>4, <3>1 DEF StageAfter
    <3>3. queue' = Rest(queue, InitChunks) /\ Subject = AsSet(Chunk(queue, InitChunks))
      BY <3>1, <3>2 DEF RestOf, Subject
    <3>4. queue \in Seq(ReservesOf) /\ InitChunks \in Nat \ {0}
      BY <1>1, SetupAssumption DEF TypeOK
    <3>5. SUFFICES ASSUME NEW j \in 0 .. Len(Rest(queue, InitChunks))
                   PROVE  Follows(listed', FirstOf(Rest(queue, InitChunks), j))
      BY <3>3
    <3>6. PICK k \in 0 .. Len(queue) :
            FirstOf(queue, k) = Subject \cup FirstOf(Rest(queue, InitChunks), j)
      BY <3>3, <3>4, PartsOfRest
    <3>7. Follows(listed, Subject \cup FirstOf(Rest(queue, InitChunks), j))
      BY <1>1, <3>2, <3>6 DEF OrderOf
    <3>8. Subject \cap listed = {} /\ listed' = listed \cup Subject
      BY <1>3, <2>2, <3>2
    <3> DEFINE D == FirstOf(Rest(queue, InitChunks), j)
    <3> HIDE DEF D
    <3>9. Follows(listed, Subject \cup D) => Follows(listed', D)
      <4>1. SUFFICES ASSUME Follows(listed, Subject \cup D), D \cap listed' = {}
                     PROVE  \E n \in 0 .. Len(config.order) : listed' \cup D = Before(n + 1)
        BY DEF Follows
      <4>2. (Subject \cup D) \cap listed = {}
        BY <3>8, <4>1
      <4>3. listed' \cup D = listed \cup (Subject \cup D)
        BY <3>8
      <4>4. QED BY <4>1, <4>2, <4>3 DEF Follows
    <3>10. QED BY <3>7, <3>9 DEF D
  <2>3. QED BY <2>1, <2>2
<1>5. OrderOf(listed', pending', stage', queue')
  BY <1>1, <1>3, <1>4 DEF OrderOf
<1>6. QED BY <1>1, <1>5, OrderAfterStep

\* The other steps keep the chain, what was sent and, at the loop over the
\* reserves to list, the run's list.
LEMMA OtherOrder ==
  ASSUME SetupInv, SetupInv', ListOrderInv, UNCHANGED <<config, listed, pending>>,
         stage' = "list" => queue' = <<>> \/ UNCHANGED <<stage, queue>>
  PROVE  ListOrderInv'
<1>1. TypeOK /\ TypeOK' /\ OrderOf(listed, pending, stage, queue)
  BY OrderInWords DEF SetupInv
<1>2. ASSUME stage' = "list", queue' = <<>>, NEW n \in 0 .. Len(queue')
      PROVE  Follows(listed, FirstOf(queue', n))
  <2>1. n = 0
    BY <1>2
  <2>2. FirstOf(queue', n) = {}
    BY <2>1 DEF FirstOf
  <2>3. QED BY <1>1, <2>2 DEF Follows, OrderOf
<1>3. OrderOf(listed', pending', stage', queue')
  BY <1>1, <1>2 DEF OrderOf
<1>4. QED BY <1>1, <1>3, OrderAfterStep

LEMMA StepOrder ==
  ASSUME SetupInv, SetupInv', ListOrderInv, [Next]_vars
  PROVE  ListOrderInv'
<1>1. CASE UNCHANGED vars
  BY <1>1, OtherOrder DEF vars, chain, process
<1>2. CASE Launch
  <2>1. stage' # "list"
    BY <1>2, FirstStageOK DEF Launch, SetupInv, TypeOK
  <2>2. QED BY <1>2, <2>1, OtherOrder DEF Launch, chain
<1>3. CASE Throw \/ Finish \/ Crash
  BY <1>3, OtherOrder DEF Throw, Finish, Crash, chain
<1>4. CASE CheckProvider \/ CheckFallback \/ Save
  <2>1. /\ UNCHANGED <<config, listed, pending>> /\ stage' = FirstStage(recorded')
        /\ recorded' \in SUBSET Script
    BY <1>4 DEF CheckProvider, CheckFallback, Save, Record, chain, SetupInv, TypeOK
  <2>2. stage' # "list"
    BY <2>1, FirstStageOK
  <2>3. QED BY <2>1, <2>2, OtherOrder
<1>5. CASE DeployRates
  BY <1>5, OtherOrder DEF DeployRates, chain
<1>6. CASE ReadReserve
  BY <1>6, CollectOrder
<1>7. CASE ReadConfiguration
  BY <1>7, OtherOrder DEF ReadConfiguration, Running, Collect, chain
<1>8. CASE ListDone \/ EnableDone
  BY <1>8, OtherOrder DEF ListDone, EnableDone, chain
<1>9. CASE Send
  BY <1>9, SendOrder
<1>10. CASE MineOrphan
  BY <1>10, MineOrphanOrder
<1>11. CASE MineAwaited
  BY <1>11, MineAwaitedOrder
<1>12. QED
  BY <1>1, <1>2, <1>3, <1>4, <1>5, <1>6, <1>7, <1>8, <1>9, <1>10, <1>11
  DEF Next, Progress, Mine

LEMMA InitOrder == Init => ListOrderInv
<1>1. SUFFICES ASSUME Init PROVE ListOrderInv
  OBVIOUS
<1>2. TypeOK
  BY <1>1, InitInv DEF SetupInv
<1>3. config.order \in Seq(Reserve) /\ 0 \in 0 .. Len(config.order)
  BY <1>2, ConfigurationOK
<1>4. AsSet(SubSeq(config.order, 1, 0)) = {}
  BY <1>2, <1>3, PartsOfOrder DEF Before
<1>5. QED BY <1>1, <1>3, <1>4 DEF Init, ListOrderInv, ListedInOrder

(* However runs are killed and overlap, each transaction under way goes on *)
(* where the pool's list ends when it is mined, or will be refused; so     *)
(* does the list of a run.                                                 *)
THEOREM OrderInvariant == Spec => []ListOrderInv
<1>1. SetupInv /\ SetupInv' /\ ListOrderInv /\ [Next]_vars => ListOrderInv'
  BY StepOrder
<1>2. QED BY <1>1, InitOrder, SetupInvariant, PTL DEF Spec

(* The pool numbers its reserves in the order of ReservesConfig without a  *)
(* gap, for every configuration and size of chunks.                        *)
THEOREM NumberedInOrder == Spec => []ListedInOrder
<1>1. ListOrderInv => ListedInOrder
  BY DEF ListOrderInv
<1>2. QED BY <1>1, OrderInvariant, PTL

-----------------------------------------------------------------------------
(* What a run can fail at.                                                 *)
\* A list stays without repetition when it gains what it has not.
LEMMA AppendNoneTwice ==
  ASSUME NEW S, NEW s \in Seq(S), NEW x \in S, NoneTwice(s), x \notin AsSet(s)
  PROVE  NoneTwice(Append(s, x))
<1> DEFINE t == Append(s, x)
<1>1. /\ Len(s) \in Nat /\ DOMAIN s = 1 .. Len(s) /\ DOMAIN t = 1 .. Len(s) + 1
      /\ \A i \in 1 .. Len(s) : t[i] = s[i]
      /\ t[Len(s) + 1] = x
  BY AppendProperties
<1>2. \A i \in 1 .. Len(s) : s[i] # x
  BY <1>1 DEF AsSet
<1> HIDE DEF t
<1>3. ASSUME NEW i \in 1 .. Len(s) + 1, NEW j \in 1 .. Len(s) + 1, t[i] = t[j]
      PROVE  i = j
  <2>1. (i \in 1 .. Len(s) \/ i = Len(s) + 1) /\ (j \in 1 .. Len(s) \/ j = Len(s) + 1)
    BY <1>1
  <2>2. QED BY <1>1, <1>2, <1>3, <2>1 DEF NoneTwice
<1>4. NoneTwice(t)
  BY <1>1, <1>3 DEF NoneTwice
<1>5. QED BY <1>4 DEF t

\* The rest of such a list has nothing in common with the chunk before it.
LEMMA RestNoneTwice ==
  ASSUME NEW S, NEW s \in Seq(S), NEW n \in Nat \ {0}, NoneTwice(s)
  PROVE  NoneTwice(Rest(s, n)) /\ AsSet(Rest(s, n)) \cap AsSet(Chunk(s, n)) = {}
<1> DEFINE l == Len(s)
           m == IF l < n THEN l ELSE n
           t == Rest(s, n)
<1>1. l \in Nat /\ DOMAIN s = 1 .. l /\ \A i \in 1 .. l : s[i] \in S
  OBVIOUS
<1>0. t = SubSeq(s, n + 1, l)
  BY DEF Rest
<1> HIDE DEF l, t
<1>2. m \in 0 .. l /\ m <= n
  BY <1>1
<1>3. AsSet(Chunk(s, n)) = FirstOf(s, m)
  BY <1>2, PartOf DEF Chunk, l
<1>4. /\ DOMAIN t = 1 .. l - n
      /\ \A i \in 1 .. l - n : t[i] = s[n + i]
  <2>1. \A i \in n + 1 .. l : s[i] \in S
    BY <1>1
  <2>2. /\ t \in Seq(S)
        /\ Len(t) = IF n + 1 <= l THEN l - (n + 1) + 1 ELSE 0
        /\ \A i \in 1 .. l - (n + 1) + 1 : t[i] = s[n + 1 + i - 1]
    BY <1>1, <1>0, <2>1, n + 1 \in Int, SubSeqProperties
  <2>3. 1 .. (IF n + 1 <= l THEN l - (n + 1) + 1 ELSE 0) = 1 .. l - n
    BY <1>1
  <2>4. ASSUME NEW i \in 1 .. l - n PROVE t[i] = s[n + i]
    <3>1. i \in 1 .. l - (n + 1) + 1 /\ n + 1 + i - 1 = n + i
      BY <1>1
    <3>2. QED BY <2>2, <3>1
  <2>5. QED BY <2>2, <2>3, <2>4
<1>5. \A i \in 1 .. l - n : n + i \in 1 .. l /\ n + i \notin 1 .. m
  BY <1>1, <1>2
<1>6. NoneTwice(t)
  <2>1. ASSUME NEW i \in 1 .. l - n, NEW j \in 1 .. l - n, t[i] = t[j] PROVE i = j
    <3>1. n + i = n + j
      BY <1>1, <1>4, <1>5, <2>1 DEF NoneTwice
    <3>2. QED BY <3>1
  <2>2. QED BY <1>4, <2>1 DEF NoneTwice
<1>7. AsSet(t) \cap FirstOf(s, m) = {}
  <2>1. SUFFICES ASSUME NEW i \in 1 .. l - n, NEW j \in 1 .. m, t[i] = s[j] PROVE FALSE
    BY <1>4 DEF AsSet, FirstOf
  <2>2. n + i \in 1 .. l /\ j \in 1 .. l /\ s[n + i] = s[j]
    BY <1>1, <1>2, <1>4, <1>5, <2>1
  <2>3. n + i = j
    BY <1>1, <2>2 DEF NoneTwice
  <2>4. QED BY <1>5, <2>3
<1>8. QED BY <1>3, <1>6, <1>7 DEF t

\* No reserve of the configuration comes up again in a loop.
LEMMA NextIsNew ==
  ASSUME TypeOK, InLoop PROVE config.order[at] \notin Before(at)
<1>1. NoneTwice(config.order) /\ config.order \in Seq(Reserve)
  BY SetupAssumption, ConfigurationOK DEF TypeOK
<1>2. /\ DOMAIN config.order = 1 .. Len(config.order) /\ Len(config.order) \in Nat
      /\ at \in 1 .. Len(config.order)
  BY <1>1 DEF InLoop
<1>3. \A i \in 1 .. at - 1 : i \in DOMAIN config.order /\ i # at
  BY <1>2
<1>4. QED BY <1>1, <1>2, <1>3 DEF NoneTwice, Before

\* What a run's failure is explained by stays so while the chain gains.
LEMMA ExplainedKept ==
  ASSUME SetupInv, SetupFailureInv, UNCHANGED <<config, stage, queue, crashes>>,
         listed \subseteq listed', status' = "failed" => status = "failed"
  PROVE  SetupFailureIsExplained'
<1>1. /\ config' = config /\ ReservesOf' = ReservesOf /\ Listable' = Listable
      /\ Subject' = Subject
  BY ConfigurationFixed DEF Subject, AsSet, Chunk
<1>2. Deployable' = Deployable
  BY <1>1 DEF Deployable
<1>3. QED BY <1>1, <1>2 DEF SetupFailureInv, SetupFailureIsExplained

\* Nor does a step that keeps the run's list and what is on the chain and
\* under way disturb the rest.
LEMMA LaunchFailure ==
  ASSUME SetupInv, SetupFailureInv, Launch
  PROVE  SetupFailureInv'
<1>1. stage' \in {"provider", "sources", "rates", "end"}
  BY FirstStageOK DEF Launch, SetupInv, TypeOK
<1>2. status # "waiting" /\ status' = "running" /\ UNCHANGED <<pending, crashes>>
  BY DEF Launch
<1>3. QED BY <1>1, <1>2 DEF SetupFailureInv, SetupFailureIsExplained, NoOrphans

LEMMA RecordFailure ==
  ASSUME SetupInv, SetupFailureInv, CheckProvider \/ CheckFallback \/ Save
  PROVE  SetupFailureInv'
<1>1. /\ status = "running" /\ UNCHANGED <<pending, status, crashes>>
      /\ stage' = FirstStage(recorded') /\ recorded' \in SUBSET Script
  BY DEF CheckProvider, CheckFallback, Save, Record, Running, SetupInv, TypeOK, Script
<1>2. stage' \in {"provider", "sources", "rates", "end"}
  BY <1>1, FirstStageOK
<1>3. QED BY <1>1, <1>2 DEF SetupFailureInv, SetupFailureIsExplained, NoOrphans

LEMMA StopFailure ==
  ASSUME SetupInv, SetupFailureInv, Throw \/ Crash \/ Finish
  PROVE  SetupFailureInv'
<1>1. /\ UNCHANGED <<config, strategies, listed, riskAdmin, pending, stage, at, queue>>
      /\ config' = config /\ Before(at)' = Before(at) /\ AsSet(queue)' = AsSet(queue)
      /\ NoneTwice(queue)' = NoneTwice(queue) /\ Deployable' = Deployable
  BY ConfigurationFixed
  DEF Throw, Crash, Finish, chain, disk, Before, AsSet, NoneTwice, Deployable
<1>2. CASE Throw
  <2>1. /\ status = "running" /\ Throws /\ status' = "failed" /\ UNCHANGED crashes
    BY <1>2 DEF Throw
  <2>2. ~Deployable
    BY <2>1, ConfigurationOK
    DEF Throws, Deployable, Listable, SetupFailureInv, InLoop, SetupInv
  <2>3. QED BY <1>1, <2>1, <2>2 DEF SetupFailureInv, SetupFailureIsExplained, NoOrphans
<1>3. CASE Crash
  <2>1. crashes' # 0 /\ status' = "killed"
    BY <1>3 DEF Crash, SetupInv, TypeOK
  <2>2. QED BY <1>1, <2>1 DEF SetupFailureInv, SetupFailureIsExplained, NoOrphans
<1>4. CASE Finish
  <2>1. status = "running" /\ status' = "done" /\ UNCHANGED crashes
    BY <1>4 DEF Finish, Running
  <2>2. QED BY <1>1, <2>1 DEF SetupFailureInv, SetupFailureIsExplained, NoOrphans
<1>5. QED BY <1>2, <1>3, <1>4

LEMMA DeployRatesFailure ==
  ASSUME SetupInv, SetupFailureInv, DeployRates
  PROVE  SetupFailureInv'
<1>1. /\ UNCHANGED <<config, pending, status, crashes>> /\ status = "running"
      /\ stage' = "list" /\ queue' = <<>> /\ strategies' = strategies \cup config.rates
  BY DEF DeployRates, Running
<1>2. config' = config /\ AsSet(queue)' = {} /\ NoneTwice(queue)'
  BY <1>1 DEF AsSet, NoneTwice
<1>3. QED BY <1>1, <1>2 DEF SetupFailureInv, SetupFailureIsExplained, NoOrphans

LEMMA LoopDoneFailure ==
  ASSUME SetupInv, SetupFailureInv, ListDone \/ EnableDone
  PROVE  SetupFailureInv'
<1>1. /\ UNCHANGED <<config, pending, status, crashes, queue>> /\ status = "running"
      /\ config' = config /\ AsSet(queue)' = AsSet(queue)
      /\ stage' \in {"enable", "save", "grant"}
  BY DEF ListDone, EnableDone, Running, AsSet
<1>2. CASE ListDone
  <2>1. AsSet(queue) = {}
    BY <1>2 DEF ListDone, AsSet
  <2>2. QED BY <1>1, <2>1 DEF SetupFailureInv, SetupFailureIsExplained, NoOrphans
<1>3. CASE EnableDone
  <2>1. stage = "enable"
    BY <1>3 DEF EnableDone, Running
  <2>2. QED BY <1>1, <2>1 DEF SetupFailureInv, SetupFailureIsExplained, NoOrphans
<1>4. QED BY <1>2, <1>3

LEMMA ReadReserveFailure ==
  ASSUME SetupInv, SetupInv', SetupFailureInv, ReadReserve
  PROVE  SetupFailureInv'
<1> DEFINE r == config.order[at]
<1>1. /\ Running("list") /\ InLoop /\ Collect(Skipped(r)) /\ TypeOK
      /\ Skipped(r) \in BOOLEAN
  BY DEF ReadReserve, Skipped, SetupInv
<1>2. /\ UNCHANGED <<config, strategies, listed, stage>>
      /\ Before(at') = Before(at) \cup {r}
      /\ AsSet(queue') = IF Skipped(r) THEN AsSet(queue) ELSE AsSet(queue) \cup {r}
  BY <1>1, CollectKeeps DEF Running
<1>3. /\ UNCHANGED <<pending, status, crashes>> /\ status = "running" /\ stage = "list"
      /\ queue' = IF Skipped(r) THEN queue ELSE Append(queue, r)
  BY <1>1 DEF Collect, Running
<1>4. NoneTwice(queue')
  <2>1. CASE Skipped(r)
    BY <1>3, <2>1 DEF SetupFailureInv
  <2>2. CASE ~Skipped(r)
    <3>1. r \notin AsSet(queue) /\ NoneTwice(queue)
      BY <1>1, <1>3, NextIsNew DEF SetupFailureInv
    <3>2. r \in ReservesOf /\ queue \in Seq(ReservesOf)
      BY <1>1, ConfigurationOK DEF InLoop, TypeOK
    <3>3. QED BY <1>3, <2>2, <3>1, <3>2, AppendNoneTwice
  <2>3. QED BY <2>1, <2>2
<1>5. ~Skipped(r) => r \notin listed
  BY DEF Skipped
<1> HIDE DEF r
<1>6. /\ config' = config /\ AsSet(queue)' = AsSet(queue') /\ Before(at)' = Before(at')
      /\ NoneTwice(queue)' = NoneTwice(queue')
  BY <1>2 DEF AsSet, Before, NoneTwice
<1>7. QED BY <1>2, <1>3, <1>4, <1>5, <1>6 DEF SetupFailureInv, SetupFailureIsExplained, NoOrphans

LEMMA ReadConfigurationFailure ==
  ASSUME SetupInv, SetupFailureInv, ReadConfiguration
  PROVE  SetupFailureInv'
<1> DEFINE r == config.order[at]
<1>1. /\ Running("enable") /\ InLoop /\ Collect(AlreadyEnabled(r))
      /\ AlreadyEnabled(r) \in BOOLEAN
  BY DEF ReadConfiguration, AlreadyEnabled
<1>2. /\ UNCHANGED <<config, stage>>
      /\ AsSet(queue') = IF AlreadyEnabled(r) THEN AsSet(queue) ELSE AsSet(queue) \cup {r}
  BY <1>1, CollectKeeps DEF Running
<1>3. UNCHANGED <<pending, status, crashes>> /\ status = "running" /\ stage = "enable"
  BY <1>1 DEF Collect, Running
<1>4. ~AlreadyEnabled(r) => r \notin config.noLtv
  BY DEF AlreadyEnabled
<1> HIDE DEF r
<1>5. config' = config /\ AsSet(queue)' = AsSet(queue')
  BY <1>2 DEF AsSet
<1>6. QED BY <1>2, <1>3, <1>4, <1>5 DEF SetupFailureInv, SetupFailureIsExplained, NoOrphans

LEMMA SendFailure ==
  ASSUME SetupInv, SetupFailureInv, Send
  PROVE  SetupFailureInv'
<1>1. /\ UNCHANGED <<config, strategies, listed, riskAdmin, stage, at, queue, crashes>>
      /\ pending' = Append(pending, CurrentTx) /\ status = "running" /\ status' = "waiting"
      /\ pending \in Seq(Tx)
      /\ config' = config /\ Before(at)' = Before(at) /\ AsSet(queue)' = AsSet(queue)
      /\ NoneTwice(queue)' = NoneTwice(queue) /\ stage \in Kind
  BY DEF Send, chain, disk, Before, AsSet, NoneTwice, SetupInv, TypeOK
<1>2. CurrentTx \in Tx
  BY <1>1, CurrentTxOK DEF SetupInv
<1>3. pending = <<>> => Len(pending') = 1
  BY <1>1, <1>2, AppendProperties
<1>4. QED BY <1>1, <1>3 DEF SetupFailureInv, SetupFailureIsExplained, NoOrphans

LEMMA MineOrphanFailure ==
  ASSUME SetupInv, SetupFailureInv, MineOrphan
  PROVE  SetupFailureInv'
<1>1. /\ TypeOK /\ SentHolds /\ UNCHANGED <<config, strategies, status, stage, at, queue, crashes>>
      /\ config' = config /\ Before(at)' = Before(at) /\ AsSet(queue)' = AsSet(queue)
      /\ NoneTwice(queue)' = NoneTwice(queue)
      /\ pending # <<>> /\ (status = "waiting" => Len(pending) > 1)
      /\ Execute(Head(pending))
  BY DEF SetupInv, MineOrphan, disk, process, Before, AsSet, NoneTwice
<1>2. ~NoOrphans
  BY <1>1, HeadAndTail DEF NoOrphans
<1>3. listed \subseteq listed'
  <2>1. Head(pending).kind = "list" => Listable /\ Head(pending).on \subseteq priced
    BY <1>1, HeadAndTail DEF SentHolds
  <2>2. QED BY <1>1, <2>1, HeadAndTail, ExecuteGains
<1>4. SetupFailureIsExplained'
  BY <1>1, <1>3, ExplainedKept
<1>5. QED BY <1>1, <1>2, <1>4 DEF SetupFailureInv

\* A transaction is refused for the configuration, or because another run
\* listed what it is to list.
LEMMA RefusedIsExplained ==
  ASSUME SetupInv, SetupFailureInv, status = "waiting", Len(pending) = 1, ~Accepted(Head(pending))
  PROVE  ~Deployable \/ (crashes > 0 /\ stage = "list" /\ Subject \cap listed # {})
<1>1. /\ TypeOK /\ StageHolds /\ pending # <<>> /\ stage \in Kind
      /\ Head(pending).kind = stage /\ Head(pending).on = Subject
      /\ crashes \in Nat /\ AsSet(queue) \subseteq ReservesOf
  <2>1. TypeOK /\ StageHolds /\ SentHolds
    BY DEF SetupInv
  <2>2. pending # <<>> /\ Head(pending) = CurrentTx /\ stage \in Kind
    BY <2>1, HeadAndTail DEF SentHolds
  <2>3. crashes \in Nat /\ AsSet(queue) \subseteq ReservesOf
    BY <2>1, SetupAssumption DEF TypeOK, AsSet
  <2>4. QED BY <2>1, <2>2, <2>3 DEF CurrentTx
<1>2. CASE stage = "list"
  <2>1. Subject \cap listed # {} /\ Subject \subseteq AsSet(queue)
    BY <1>1, <1>2, CurrentTxOK DEF Accepted
  <2>2. crashes # 0
    BY <1>2, <2>1 DEF SetupFailureInv
  <2>3. QED BY <1>1, <1>2, <2>1, <2>2
<1>3. CASE stage = "configure"
  <2>1. riskAdmin /\ AsSet(queue) \cap config.noLtv = {}
    BY <1>3 DEF SetupFailureInv
  <2>2. ReservesOf \subseteq listed /\ Subject \subseteq AsSet(queue)
    BY <1>1, <1>3, RestOK DEF StageHolds
  <2>3. Deployable => Subject \subseteq config.valid
    BY <1>1, <2>1, <2>2 DEF Deployable
  <2>4. QED BY <1>1, <1>3, <2>1, <2>2, <2>3 DEF Accepted
<1>4. CASE stage \notin {"list", "configure"}
  BY <1>1, <1>4 DEF Accepted
<1>5. QED BY <1>2, <1>3, <1>4

LEMMA MineAwaitedFailure ==
  ASSUME SetupInv, SetupFailureInv, MineAwaited
  PROVE  SetupFailureInv'
<1>1. /\ TypeOK /\ SentHolds /\ UNCHANGED <<config, strategies, at, crashes>>
      /\ config' = config /\ Before(at)' = Before(at) /\ AsSet(queue)' = AsSet(queue')
      /\ NoneTwice(queue)' = NoneTwice(queue')
      /\ status = "waiting" /\ Len(pending) = 1 /\ pending' = <<>>
      /\ Execute(Head(pending))
  BY DEF SetupInv, MineAwaited, disk, Before, AsSet, NoneTwice
<1>2. /\ Head(pending).kind = stage /\ Head(pending).on = Subject /\ stage \in Kind
  BY <1>1, HeadAndTail DEF SentHolds, CurrentTx
<1>3. CASE ~Accepted(Head(pending))
  <2>1. /\ status' = "failed" /\ UNCHANGED <<stage, queue, listed, riskAdmin>>
    BY <1>1, <1>3 DEF MineAwaited, Execute, chain
  <2>2. Subject' = Subject /\ Deployable' = Deployable
    BY <1>1, <2>1, ConfigurationFixed DEF Subject, AsSet, Chunk, Deployable
  <2>3. SetupFailureIsExplained'
    BY <1>1, <1>3, <2>1, <2>2, RefusedIsExplained DEF SetupFailureIsExplained
  <2>4. QED BY <1>1, <2>1, <2>3 DEF SetupFailureInv, NoOrphans
<1>4. CASE Accepted(Head(pending))
  <2>1. status' = "running" /\ stage' = StageAfter /\ queue' = RestOf
    BY <1>4 DEF MineAwaited
  <2>2. SetupFailureIsExplained' /\ NoOrphans'
    BY <1>1, <2>1 DEF SetupFailureIsExplained, NoOrphans
  <2>3. CASE stage = "list"
    <3>1. stage' = "list" /\ queue' = Rest(queue, InitChunks)
      BY <2>1, <2>3 DEF StageAfter, RestOf
    <3>2. listed' = listed \cup Subject
      BY <1>1, <1>2, <1>4, <2>3 DEF Execute
    <3>3. queue \in Seq(ReservesOf) /\ NoneTwice(queue) /\ Subject = AsSet(Chunk(queue, InitChunks))
      BY <1>1, <2>3 DEF TypeOK, SetupFailureInv, Subject
    <3>4. NoneTwice(queue') /\ AsSet(queue') \cap Subject = {}
      BY <3>1, <3>3, RestNoneTwice, SetupAssumption
    <3>5. AsSet(queue') \subseteq AsSet(queue)
      BY <1>1, <2>1, <2>3, RestOK
    <3>6. QED
      BY <1>1, <2>2, <2>3, <3>1, <3>2, <3>4, <3>5 DEF SetupFailureInv
  <2>4. CASE stage = "grant"
    <3>1. stage' = "configure" /\ queue' = queue /\ riskAdmin'
      BY <1>1, <1>2, <1>4, <2>1, <2>4 DEF StageAfter, RestOf, Execute
    <3>2. QED BY <1>1, <2>2, <2>4, <3>1 DEF SetupFailureInv
  <2>5. CASE stage = "configure"
    <3>1. stage' \in {"configure", "revoke"} /\ AsSet(queue') \subseteq AsSet(queue)
      BY <1>1, <2>1, <2>5, RestOK DEF StageAfter
    <3>2. riskAdmin'
      BY <1>1, <1>2, <1>4, <2>5 DEF Execute, Accepted
    <3>3. QED BY <1>1, <2>2, <2>5, <3>1, <3>2 DEF SetupFailureInv
  <2>6. CASE stage \in {"sources", "revoke"}
    <3>1. stage' \in {"fallback", "save"}
      BY <2>1, <2>6 DEF StageAfter
    <3>2. QED BY <2>2, <3>1 DEF SetupFailureInv
  <2>7. QED BY <1>2, <2>3, <2>4, <2>5, <2>6 DEF Kind
<1>5. QED BY <1>3, <1>4

LEMMA StepFailure ==
  ASSUME SetupInv, SetupInv', SetupFailureInv, [Next]_vars
  PROVE  SetupFailureInv'
<1>1. CASE UNCHANGED vars
  <2>1. /\ UNCHANGED <<config, strategies, listed, riskAdmin, pending, status, stage, at,
                       queue, crashes>>
        /\ config' = config /\ Before(at)' = Before(at) /\ AsSet(queue)' = AsSet(queue)
        /\ NoneTwice(queue)' = NoneTwice(queue)
    BY <1>1 DEF vars, chain, disk, process, Before, AsSet, NoneTwice
  <2>2. SetupFailureIsExplained'
    BY <2>1, ExplainedKept
  <2>3. QED BY <2>1, <2>2 DEF SetupFailureInv, NoOrphans
<1>2. CASE Next
  BY <1>2, LaunchFailure, RecordFailure, StopFailure, DeployRatesFailure, LoopDoneFailure,
     ReadReserveFailure, ReadConfigurationFailure, SendFailure, MineOrphanFailure,
     MineAwaitedFailure DEF Next, Progress, Mine
<1>3. QED BY <1>1, <1>2

LEMMA InitFailure == Init => SetupFailureInv
BY DEF Init, SetupFailureInv, SetupFailureIsExplained, NoOrphans

(* Without a kill a run meets nobody's transactions, and at setting the    *)
(* parameters no run does, for every configuration whose keys differ.      *)
THEOREM FailureInvariant == Spec => []SetupFailureInv
<1>1. SetupInv /\ SetupInv' /\ SetupFailureInv /\ [Next]_vars => SetupFailureInv'
  BY StepFailure
<1>2. QED BY <1>1, InitFailure, SetupInvariant, PTL DEF Spec

(* A run stops only for the configuration or at a reserve a killed run's   *)
(* transaction has listed since it was read as missing; in particular      *)
(* never, with a deployable configuration, when nothing was killed.        *)
THEOREM FailureExplained == Spec => []SetupFailureIsExplained
<1>1. SetupFailureInv => SetupFailureIsExplained
  BY DEF SetupFailureInv
<1>2. QED BY <1>1, FailureInvariant, PTL

=============================================================================
