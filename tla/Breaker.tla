------------------------------- MODULE Breaker -------------------------------
(***************************************************************************)
(* The per-tool record of runtime/circuit_breaker.py and the pure functions *)
(* its methods compute on it.  A record is the _ToolState of one tool; the  *)
(* clock appears only as the question "has the cooldown elapsed?", which    *)
(* allow() asks of an OPEN record.                                          *)
(*                                                                         *)
(* Coordinator keeps one record per tool; CircuitBreaker runs one record   *)
(* as a state machine of its own, with a clock and several callers.        *)
(***************************************************************************)
EXTENDS Naturals

CONSTANTS
  FailureThreshold,   \* consecutive failures that trip a CLOSED record
  HalfOpenTrials      \* trial calls admitted per HALF_OPEN period

\* __init__ rejects a threshold below 1 and raises the trials to at least 1.
ASSUME BreakerAssumption ==
  /\ FailureThreshold \in Nat \ {0}
  /\ HalfOpenTrials \in Nat \ {0}

BreakerStates == {"closed", "open", "half_open"}

ToolState == [state: BreakerStates, failures: Nat, trials: Nat]

FreshToolState == [state |-> "closed", failures |-> 0, trials |-> 0]

(***************************************************************************)
(* allow(tool): may a call proceed, and the record a call that may proceed  *)
(* leaves behind.  A refused call leaves the record as it was.              *)
(***************************************************************************)
Allows(b, cooled) ==
  \/ b.state = "closed"
  \/ b.state = "open" /\ cooled
  \/ b.state = "half_open" /\ b.trials < HalfOpenTrials

\* A bug: the trials of a HALF_OPEN period are not counted.
AfterAllowUncounted(b) ==
  IF b.state = "open" THEN [b EXCEPT !.state = "half_open", !.trials = 1] ELSE b

AfterAllow(b) ==
  CASE b.state = "closed"    -> b
    [] b.state = "open"      -> [b EXCEPT !.state = "half_open", !.trials = 1]
    [] b.state = "half_open" -> [b EXCEPT !.trials = @ + 1]

\* A bug: a success takes back one failure instead of clearing the count.
AfterSuccessLeaks(b) == [FreshToolState EXCEPT !.failures = b.failures - 1]

AfterSuccess(b) == FreshToolState

\* Two bugs: one failure too many is tolerated; a failed trial does not re-open.
TripsLate(b) ==
  \/ b.state = "half_open"
  \/ b.state = "closed" /\ b.failures >= FailureThreshold
TripsOnlyClosed(b) == b.state = "closed" /\ b.failures + 1 >= FailureThreshold

\* record_failure returns TRUE exactly when it trips the record.
Trips(b) ==
  \/ b.state = "half_open"
  \/ b.state = "closed" /\ b.failures + 1 >= FailureThreshold

AfterFailure(b) ==
  [state    |-> IF Trips(b) THEN "open" ELSE b.state,
   failures |-> b.failures + 1,
   trials   |-> IF b.state = "half_open" THEN 0 ELSE b.trials]
==============================================================================
