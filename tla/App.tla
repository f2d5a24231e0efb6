--------------------------------- MODULE App ---------------------------------
(***************************************************************************)
(* What the models of the wallet app share: a reset that is under way, the *)
(* faults that are counted, and what the properties make an exception for. *)
(***************************************************************************)
EXTENDS Naturals

CONSTANT MaxFaults   \* bound on the faults, of the kinds each model names

ASSUME AppAssumption == MaxFaults \in Nat

VARIABLES
  clearing,   \* delete_wallet_command waits for a lock between two of its parts
  faults,
  blame       \* what happened that the properties make an exception for

Fault == faults < MaxFaults /\ faults' = faults + 1
Blame(what, when) == blame' = IF when THEN blame \cup {what} ELSE blame
=============================================================================
