------------------------------- MODULE MCRedrive -------------------------------
(* Dead-letter queues small enough for TLC; redrivers are interchangeable. *)
EXTENDS Redrive, TLC

OneOfEach == <<"undo", "forward", "manual", "blocked", "undo">>
OneOfEachServed == <<"undo", "forward", "blocked">>

RedriverSymmetry == Permutations(Redrivers)
==============================================================================
