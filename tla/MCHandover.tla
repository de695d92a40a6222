----------------------------- MODULE MCHandover -----------------------------
(***************************************************************************)
(* Accounts for TLC.  Named accounts of a network that has an account for  *)
(* each purpose, and the default ones of DEFAULT_NAMED_ACCOUNTS, which are *)
(* all the deployer's.                                                     *)
(***************************************************************************)
EXTENDS Handover

MCAccount == {"deployer", "emergency", "operator", "gateway", "treasury",
              "borrower", "zero", "multisig", "pool multisig", "acl multisig"}

=============================================================================
