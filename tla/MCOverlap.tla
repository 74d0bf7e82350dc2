------------------------------- MODULE MCOverlap -------------------------------
(***************************************************************************)
(* Small plans for TLC: the instances of MCCoordinator, with a request that *)
(* recovers the run while it is at work.                                   *)
(***************************************************************************)
EXTENDS MCCoordinator, Overlap
==============================================================================
