--------------------------- MODULE MCCircuitBreaker ---------------------------
(* Callers are interchangeable: the breaker does not know who calls. *)
EXTENDS CircuitBreaker, TLC

CallerSymmetry == Permutations(Callers)
==============================================================================
