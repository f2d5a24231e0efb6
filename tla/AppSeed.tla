------------------------------- MODULE AppSeed -------------------------------
(***************************************************************************)
(* The wallet app as the services that are made from its seed see it: the  *)
(* vault holds a seed, or there is no wallet.                              *)
(***************************************************************************)
EXTENDS App

CONSTANTS
  Seeds,      \* the seeds the user may make a wallet of
  NoSeed

ASSUME SeedAssumption == NoSeed \notin Seeds

VARIABLE wallet   \* the seed in the vault
=============================================================================
