------------------------------- MODULE MCReport -------------------------------
(***************************************************************************)
(* Small plans for TLC: the instances of MCCoordinator, with the tiers of   *)
(* their steps and the payment tool among their tools.                      *)
(***************************************************************************)
EXTENDS MCCoordinator, Report

TwoTwo == <<2, 2>>
LastReadOnly == <<2, 3, 1>>
==============================================================================
