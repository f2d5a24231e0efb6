------------------------------- MODULE MCVault -------------------------------
(***************************************************************************)
(* The instance of Vault that TLC checks.                                  *)
(***************************************************************************)
EXTENDS Vault
=============================================================================
