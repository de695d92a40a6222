----------------------------- MODULE Succession -----------------------------
(***************************************************************************)
(* What a hand-over promises, whoever is killed on the way: its items      *)
(* leave the one who gives them in one given order and never come back.  A *)
(* role or contract is shared before it moves (a successor has the role    *)
(* too, or a new owner may accept the contract), so that none is ever      *)
(* without anybody.  Contracts are accepted in any order, and the next     *)
(* item does not wait for that.  Handover implements this.                 *)
(***************************************************************************)
EXTENDS Naturals, Sequences

CONSTANTS
  Order,       \* the items, in the order in which they are handed over
  Contract,    \* those of them that wait for an acceptance
  Single       \* those that move in one transaction

VARIABLE phase \* of each item: "kept", "shared" or "moved"

Item == {Order[k] : k \in DOMAIN Order}

\* Some items never were the giver's.
Init == phase \in [Item -> {"kept", "moved"}]

Through(i) == phase[i] = "moved" \/ (i \in Contract /\ phase[i] = "shared")

Turn(k) == \A j \in 1 .. k - 1 : Through(Order[j])

\* The k-th item is shared, or moves at once, when those before it are through.
Begin(k) ==
  /\ Turn(k) /\ phase[Order[k]] = "kept"
  /\ phase' = [phase EXCEPT ![Order[k]] = IF Order[k] \in Single THEN "moved" ELSE "shared"]

\* The giver loses the role, or the new owner accepts the contract.
Complete(k) ==
  /\ phase[Order[k]] = "shared"
  /\ phase' = [phase EXCEPT ![Order[k]] = "moved"]

Next == \E k \in DOMAIN Order : Begin(k) \/ Complete(k)
Spec == Init /\ [][Next]_phase

=============================================================================
