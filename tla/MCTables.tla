------------------------------ MODULE MCTables ------------------------------
(***************************************************************************)
(* MCDeploy, with what the theorems about DeployEngine assume of the       *)
(* tables.                                                                 *)
(***************************************************************************)
EXTENDS MCDeploy, DeployTables

(* The scripts of a market that has a configuration take what they need    *)
(* from scripts before them, and what they cannot do twice is on record    *)
(* when the market is complete; what is added has a step before it that    *)
(* cannot be done twice.  In one market each such step is its own.         *)
ASSUME MarketTablesAssumption ==
  \A m \in Market \ {Unnamed} : Repeatable(m)

ASSUME OnceTablesAssumption ==
  \A m \in Market : OnceIsOwn(m, m)

ASSUME AddTablesAssumption == AddsAccounted

=============================================================================
