---------------------------- MODULE DeployTables ----------------------------
(***************************************************************************)
(* DeployEngine runs any table of scripts, and most of what it promises it *)
(* promises of any.  That a run finds what it needs, and that a market     *)
(* once complete can be deployed again, depends on the tables: on what the *)
(* scripts need and leave, in which order they run, and which of them are  *)
(* recorded.  This module says on what exactly, and gives the inductive    *)
(* invariant behind CompleteMarketReruns; the one behind FailureIsARepeat  *)
(* is RepeatInv.                                                           *)
(***************************************************************************)
EXTENDS DeployEngine

\* Step j of the i-th script of a run for m
StepAt(m, i, j) == Steps[m][Order[m][i]][j]

\* What the steps before it in its script establish, and what the scripts
\* before its own leave.
OwnBefore(m, i, j) ==
  {StepAt(m, i, k).eff : k \in {l \in 1 .. j - 1 : StepAt(m, i, l).kind \in Establishing}}
LeftBefore(m, i) == UNION {Provides(m, Order[m][h]) : h \in 1 .. i - 1}

\* A step needs what is established before it; something temporary is set by
\* the step right before it, which nothing passes over.
InOrder(m) ==
  \A i \in DOMAIN Order[m] : \A j \in DOMAIN Steps[m][Order[m][i]] :
    /\ StepAt(m, i, j).needs \ Temporary \subseteq OwnBefore(m, i, j) \cup LeftBefore(m, i)
    /\ StepAt(m, i, j).needs \cap Temporary # {} =>
         /\ j > 1 /\ StepAt(m, i, j - 1).kind = "set"
         /\ StepAt(m, i, j).needs \cap Temporary \subseteq {StepAt(m, i, j - 1).eff}
         /\ \A k \in 1 .. j - 1 :
              StepAt(m, i, k).kind = "unless" => k + 1 + StepAt(m, i, k).skip # j

\* What can be done only once is, in runs for m and n, one step's work, in
\* scripts with one id.
OnceIsOwn(m, n) ==
  \A s, t \in Script :
    \A k \in DOMAIN Steps[m][s], l \in DOMAIN Steps[n][t] :
      /\ Steps[m][s][k].kind = "once"
      /\ Steps[n][t][l].kind \in TxKinds \ {"unset"}
      /\ Steps[n][t][l].eff = Steps[m][s][k].eff
      => /\ l = k /\ s \in Records[m] /\ t \in Records[n]
         /\ MigrationId[n][t] = MigrationId[m][s]

\* What transactions of any script establish
TxEffects == UNION {EffectsOf(m, s, TxKinds) : m \in Market, s \in Script}

\* The id of s is recorded for the work s does in a run for m, and no other.
Separate(m, s) ==
  \A n \in Market : \A t \in Records[n] :
    s \in Records[m] /\ MigrationId[n][t] = MigrationId[m][s] => Steps[n][t] = Steps[m][s]

\* What scripts with an id of their own, of those before the i-th, leave
SeparateBefore(m, i) ==
  UNION {Provides(m, Order[m][h]) : h \in {g \in 1 .. i - 1 : Separate(m, Order[m][g])}}

\* What a read or a deployment needs is its script's own work, or that of a
\* script with an id of its own, or nothing that a transaction establishes.
ThrowsForGood(m) ==
  \A i \in DOMAIN Order[m] : \A j \in DOMAIN Steps[m][Order[m][i]] :
    StepAt(m, i, j).kind \in {"require", "deploy"} =>
      StepAt(m, i, j).needs \ Temporary \subseteq
        OwnBefore(m, i, j) \cup SeparateBefore(m, i) \cup (LeftBefore(m, i) \ TxEffects)

\* f is left by no script but s of a run for m.
OnlyLeftBy(m, s, f) ==
  \A n \in Market, t \in Script : f \in EffectsOf(n, t, Establishing) => n = m /\ t = s

\* Only the z-th script of a run for m leaves f.
Closes(m, z, f) ==
  /\ f \in Provides(m, Order[m][z]) /\ OnlyLeftBy(m, Order[m][z], f)
  /\ \A h \in DOMAIN Order[m] : Order[m][h] = Order[m][z] => h = z

Closing == [m \in Market |->
  UNION {{<<z, f>> : f \in {g \in Provides(m, Order[m][z]) : Closes(m, z, g)}} :
         z \in DOMAIN Order[m]}]

\* What can be done only once, a run for m does in scripts that are recorded
\* before the z-th.
OnceBefore(m, z) ==
  \A i \in DOMAIN Order[m] :
    EffectsOf(m, Order[m][i], {"once"}) # {} => i < z /\ Order[m][i] \in Records[m]

Repeatable(m) ==
  /\ InOrder(m) /\ ThrowsForGood(m)
  /\ \E zf \in Closing[m] : OnceBefore(m, zf[1])

(* A transaction on f is an addition, one of those a script does at the    *)
(* steps A, all of them behind what can be done only once: step k, for e.  *)
AddsBehind(f, k, e, A) ==
  \A m \in Market, s \in Script :
    /\ \A j \in DOMAIN Steps[m][s] :
         Steps[m][s][j].kind \in TxKinds /\ Steps[m][s][j].eff = f => Steps[m][s][j].kind = "add"
    /\ AddsOf(m, s, f) # {} =>
         /\ AddsOf(m, s, f) = A /\ \A j \in A : k < j
         /\ Steps[m][s][k].kind = "once" /\ Steps[m][s][k].eff = e /\ ~Guarded(m, s, k)

AddsAccounted ==
  \A m \in Market, s \in Script : \A l \in DOMAIN Steps[m][s] :
    Steps[m][s][l].kind = "add" =>
      \E k \in 1 .. l - 1 :
        AddsBehind(Steps[m][s][l].eff, k, Steps[m][s][k].eff, AddsOf(m, s, Steps[m][s][l].eff))

MayRepeat == {m \in Market : Repeatable(m)}

-----------------------------------------------------------------------------
\* What only transactions establish comes from transactions of the tables.
FromTables ==
  /\ \A i \in DOMAIN pending : pending[i].eff \in TxEffects
  /\ \A f \in Effect : chain[f] > 0 => f \in TxEffects

\* The record of a script with an id of its own is true.
OwnRecordsTrue ==
  \A m \in Market, s \in Script :
    Separate(m, s) /\ Recorded(m, s) => Provides(m, s) \subseteq Held

\* f is there, or under way.
Begun(f) ==
  f \in artifacts \/ chain[f] > 0 \/ \E i \in DOMAIN pending : pending[i].eff = f

\* What only the z-th script leaves, it left when all before it were recorded.
ClosedInOrder(m, z, f) ==
  Begun(f) =>
    \A h \in 1 .. z - 1 : Order[m][h] \in Records[m] => Recorded(m, Order[m][h])

\* A run that failed has not all it should have, and nobody is about to send it.
FailedForGood ==
  status = "failed" =>
    \/ pending = <<>> /\ ~Complete(market)
    \/ \E i \in DOMAIN Order[market] :
         ~(Provides(market, Order[market][i]) \subseteq TxEffects \cup artifacts)

(* What a market's last scripts leave is there only when what can be done  *)
(* only once is on record, and so is not tried again.  The inductive       *)
(* invariant behind CompleteMarketReruns.                                  *)
RerunInv ==
  /\ FromTables /\ NotYetRecorded
  /\ \A m \in Market : \A zf \in Closing[m] : ClosedInOrder(m, zf[1], zf[2])
  /\ market \in MayRepeat => TemporaryInPlace /\ FailedForGood

-----------------------------------------------------------------------------
\* A live process is in a script that adds to f, beyond step k.
Adding(f, k) ==
  /\ status \in {"running", "waiting"} /\ pos \in DOMAIN Order[market]
  /\ AddsOf(market, CurrentScript, f) # {} /\ pc > k

PendingOn(f) == {i \in DOMAIN pending : pending[i].eff = f}

(* One process ever gets beyond step k.  While it is at work, additions to *)
(* f are as many as it made, and one when it waits for it; afterwards what *)
(* it left under way is the last.  The inductive invariant behind          *)
(* AddedOnce.                                                              *)
AddInv(f, k, e, A) ==
  /\ chain[e] = 0 => chain[f] = 0 /\ PendingOn(f) = {} /\ ~Adding(f, k)
  /\ IF Adding(f, k)
     THEN /\ chain[f] <= Cardinality({j \in A : j < pc})
          /\ PendingOn(f) \subseteq IF status = "waiting" THEN {Len(pending)} ELSE {}
     ELSE /\ chain[f] <= Cardinality(A)
          /\ \A i, j \in PendingOn(f) : i = j /\ chain[f] < Cardinality(A)

=============================================================================
