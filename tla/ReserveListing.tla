--------------------------- MODULE ReserveListing ---------------------------
(***************************************************************************)
(* What the scripts that set up a market's reserves promise, whoever is    *)
(* killed on the way: a reserve is listed only when the oracle has a price *)
(* source for it and set up only when it is listed; nothing is listed for  *)
(* a market whose configuration does not suffice; and nothing is undone.   *)
(* ReserveSetup implements this.                                           *)
(***************************************************************************)
CONSTANT
  Reserve      \* the symbols of reserves

VARIABLES
  sufficient,  \* whether the market's configuration suffices
  priced,      \* the reserves the oracle has a source for
  listed,      \* the reserves the pool knows
  configured   \* the reserves whose parameters were set

vars == <<sufficient, priced, listed, configured>>

Init == sufficient \in BOOLEAN /\ priced = {} /\ listed = {} /\ configured = {}

\* The oracle is given sources, for all reserves in one transaction.
Price ==
  /\ priced' \in SUBSET Reserve /\ priced \subseteq priced'
  /\ UNCHANGED <<sufficient, listed, configured>>

\* One transaction lists some reserves or, when one is listed already, none.
List ==
  /\ sufficient
  /\ listed' \in SUBSET priced /\ listed \subseteq listed'
  /\ UNCHANGED <<sufficient, priced, configured>>

\* One transaction sets the parameters of some listed reserves.
Configure ==
  /\ configured' \in SUBSET listed /\ configured \subseteq configured'
  /\ UNCHANGED <<sufficient, priced, listed>>

Next == Price \/ List \/ Configure
Spec == Init /\ [][Next]_vars

(* A price before a listing, a listing before parameters.                  *)
InStages ==
  /\ configured \subseteq listed /\ listed \subseteq priced
  /\ listed # {} => sufficient

=============================================================================
