---------------------------- MODULE CircuitBreaker ----------------------------
(***************************************************************************)
(* runtime/circuit_breaker.py as its callers drive it: the record of one    *)
(* tool, and coordinators that ask allow(), make the call they were allowed *)
(* and report how it ended.  The breaker is handed to a coordinator from    *)
(* outside when several of one process are to share it; calls that overlap  *)
(* then report in any order, and after the state they were admitted in.     *)
(*                                                                         *)
(* Not every allowed call is reported: when a call times out and its status *)
(* query says "not found", the coordinator's next attempt asks allow()      *)
(* again and nobody calls record_success or record_failure for the first.   *)
(***************************************************************************)
EXTENDS Breaker, FiniteSets

CONSTANTS
  Callers,       \* coordinators that share the breaker, one call each at a time
  Cooldown,      \* cooldown_s, in ticks of the clock
  MaxFailures    \* bound: consecutive failures counted

ASSUME CallersAssumption ==
  /\ IsFiniteSet(Callers)
  /\ Cooldown \in Nat
  /\ MaxFailures \in Nat

VARIABLES
  breaker,     \* the _ToolState of the tool
  age,         \* time since opened_at, as far as it matters: at most Cooldown
  calls,       \* callers whose call is under way
  trialCalls,  \* those of them admitted in the present HALF_OPEN period
  unheard      \* trials of that period that ended without a report

vars == <<breaker, age, calls, trialCalls, unheard>>

Init ==
  /\ breaker = FreshToolState
  /\ age = Cooldown
  /\ calls = {}
  /\ trialCalls = {}
  /\ unheard = 0

Cooled == age = Cooldown

Tick ==
  /\ age < Cooldown
  /\ age' = age + 1
  /\ UNCHANGED <<breaker, calls, trialCalls, unheard>>

\* allow(), and a call that follows when it returns True.
Allow(c) ==
  /\ c \notin calls
  /\ Allows(breaker, Cooled)
  /\ breaker' = AfterAllow(breaker)
  /\ calls' = calls \cup {c}
  /\ trialCalls' = CASE breaker.state = "closed"    -> {}
                     [] breaker.state = "open"      -> {c}
                     [] breaker.state = "half_open" -> trialCalls \cup {c}
  /\ unheard' = IF breaker.state = "half_open" THEN unheard ELSE 0
  /\ UNCHANGED age

RecordSuccess(c) ==
  /\ c \in calls
  /\ breaker' = AfterSuccess(breaker)
  /\ calls' = calls \ {c}
  /\ trialCalls' = {}
  /\ unheard' = 0
  /\ UNCHANGED age

RecordFailure(c) ==
  /\ c \in calls
  /\ breaker.failures < MaxFailures
  /\ breaker' = AfterFailure(breaker)
  /\ age' = IF Trips(breaker) THEN 0 ELSE age
  /\ calls' = calls \ {c}
  /\ trialCalls' = IF Trips(breaker) THEN {} ELSE trialCalls \ {c}
  /\ unheard' = IF Trips(breaker) THEN 0 ELSE unheard

\* The call is retried, or its process dies, before anything is reported.
DropReport(c) ==
  /\ c \in calls
  /\ calls' = calls \ {c}
  /\ trialCalls' = trialCalls \ {c}
  /\ unheard' = IF c \in trialCalls THEN unheard + 1 ELSE unheard
  /\ UNCHANGED <<breaker, age>>

Next ==
  \/ Tick
  \/ \E c \in Callers : Allow(c) \/ RecordSuccess(c) \/ RecordFailure(c) \/ DropReport(c)

Spec == Init /\ [][Next]_vars
------------------------------------------------------------------------------
(* Properties *)

\* The record has its type, and trial calls are calls under way.
TypeOK ==
  /\ breaker \in ToolState
  /\ age \in 0..Cooldown
  /\ calls \subseteq Callers
  /\ trialCalls \subseteq calls
  /\ unheard \in Nat

\* The breaker trips in time: a CLOSED one has seen fewer consecutive failures
\* than the threshold, in whatever order the calls reported.
ClosedBelowThreshold ==
  breaker.state = "closed" => breaker.failures < FailureThreshold

\* However the reports of older calls interleave, a HALF_OPEN period never has
\* more trial calls under way than half_open_trials (allow, HALF_OPEN branch).
TrialsBounded ==
  breaker.state = "half_open" => Cardinality(trialCalls) <= HalfOpenTrials

\* A HALF_OPEN breaker refuses calls for good, as no cooldown gets it out, only
\* when every one of its trials ended without a report: otherwise it admits a
\* call, or waits for a trial whose report closes or re-opens it.
StuckOnlyUnheard ==
  breaker.state = "half_open" =>
    breaker.trials < HalfOpenTrials \/ trialCalls # {} \/ unheard = HalfOpenTrials

\* Refuted (breaker_stuck.cfg): a HALF_OPEN breaker always has a way out.
NeverStuck ==
  breaker.state = "half_open" => breaker.trials < HalfOpenTrials \/ trialCalls # {}

\* Behind both: the trials counted are those under way and those never heard of.
TrialsCounted ==
  breaker.state = "half_open" =>
    /\ Cardinality(trialCalls) + unheard = breaker.trials
    /\ breaker.trials <= HalfOpenTrials
==============================================================================
