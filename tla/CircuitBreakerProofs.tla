------------------------- MODULE CircuitBreakerProofs -------------------------
(***************************************************************************)
(* What CircuitBreaker promises for every set of callers, threshold, number *)
(* of trials and cooldown.                                                  *)
(***************************************************************************)
EXTENDS CircuitBreaker, FiniteSetTheorems, TLAPS

\* Every step of the machine keeps the types; stated apart, as the counts need it.
LEMMA TypeStep == TypeOK /\ [Next]_vars => TypeOK'
<1> SUFFICES ASSUME TypeOK, [Next]_vars PROVE TypeOK'
  OBVIOUS
<1> USE BreakerAssumption, CallersAssumption DEF TypeOK, ToolState, BreakerStates
<1>1. CASE Tick
  BY <1>1 DEF Tick
<1>2. ASSUME NEW c \in Callers, Allow(c) PROVE TypeOK'
  <2>1. breaker' \in ToolState
    <3>1. CASE breaker.state = "closed"
      BY <1>2, <3>1 DEF Allow, AfterAllow
    <3>2. CASE breaker.state = "open"
      BY <1>2, <3>2 DEF Allow, AfterAllow
    <3>3. CASE breaker.state = "half_open"
      BY <1>2, <3>3 DEF Allow, AfterAllow
    <3> QED BY <3>1, <3>2, <3>3
  <2>2. trialCalls' \subseteq calls'
    BY <1>2 DEF Allow
  <2> QED BY <1>2, <2>1, <2>2 DEF Allow
<1>3. ASSUME NEW c \in Callers, RecordSuccess(c) PROVE TypeOK'
  BY <1>3 DEF RecordSuccess, AfterSuccess, FreshToolState
<1>4. ASSUME NEW c \in Callers, RecordFailure(c) PROVE TypeOK'
  <2>1. breaker' \in ToolState
    BY <1>4 DEF RecordFailure, AfterFailure
  <2>2. age' \in 0..Cooldown /\ calls' \subseteq Callers
    BY <1>4 DEF RecordFailure
  <2>3. trialCalls' \subseteq calls'
    BY <1>4 DEF RecordFailure
  <2>4. unheard' \in Nat
    BY <1>4 DEF RecordFailure
  <2> QED BY <2>1, <2>2, <2>3, <2>4
<1>5. ASSUME NEW c \in Callers, DropReport(c) PROVE TypeOK'
  BY <1>5 DEF DropReport
<1>6. CASE UNCHANGED vars
  BY <1>6 DEF vars
<1> QED BY <1>1, <1>2, <1>3, <1>4, <1>5, <1>6 DEF Next

\* The record, the clock and the sets of calls have their types (_ToolState).
THEOREM BreakerTypeCorrect == Spec => []TypeOK
<1>1. Init => TypeOK
  BY CallersAssumption DEF Init, TypeOK, ToolState, BreakerStates, FreshToolState
<1> QED BY <1>1, TypeStep, PTL DEF Spec

\* A CLOSED breaker has not reached its threshold, whoever reports, in whatever
\* order and however late (record_failure trips in time, record_success clears).
THEOREM ClosedBelowThresholdCorrect == Spec => []ClosedBelowThreshold
<1> USE BreakerAssumption
<1>1. Init => ClosedBelowThreshold
  BY DEF Init, ClosedBelowThreshold, FreshToolState
<1>2. TypeOK /\ ClosedBelowThreshold /\ [Next]_vars => ClosedBelowThreshold'
  <2> SUFFICES ASSUME TypeOK, ClosedBelowThreshold, [Next]_vars
               PROVE ClosedBelowThreshold'
    OBVIOUS
  <2> USE DEF ClosedBelowThreshold, TypeOK, ToolState
  <2>1. CASE Tick
    BY <2>1 DEF Tick
  <2>2. ASSUME NEW c \in Callers, Allow(c) PROVE ClosedBelowThreshold'
    BY <2>2 DEF Allow, Allows, AfterAllow
  <2>3. ASSUME NEW c \in Callers, RecordSuccess(c) PROVE ClosedBelowThreshold'
    BY <2>3 DEF RecordSuccess, AfterSuccess, FreshToolState
  <2>4. ASSUME NEW c \in Callers, RecordFailure(c) PROVE ClosedBelowThreshold'
    BY <2>4 DEF RecordFailure, AfterFailure, Trips
  <2>5. ASSUME NEW c \in Callers, DropReport(c) PROVE ClosedBelowThreshold'
    BY <2>5 DEF DropReport
  <2>6. CASE UNCHANGED vars
    BY <2>6 DEF vars
  <2> QED BY <2>1, <2>2, <2>3, <2>4, <2>5, <2>6 DEF Next
<1> QED BY <1>1, <1>2, BreakerTypeCorrect, PTL DEF Spec

\* Any set of trial calls is finite: they are calls of the finitely many callers.
LEMMA TrialCallsFinite == TypeOK => IsFiniteSet(trialCalls)
BY CallersAssumption, FS_Subset DEF TypeOK

\* The counter half_open_calls is the number of trials of the HALF_OPEN period
\* that are under way or ended unreported.
THEOREM TrialsCountedInvariant == Spec => []TrialsCounted
<1> USE BreakerAssumption
<1>1. Init => TrialsCounted
  BY DEF Init, TrialsCounted, FreshToolState
<1>2. TypeOK /\ TrialsCounted /\ [Next]_vars => TrialsCounted'
  <2> SUFFICES ASSUME TypeOK, TrialsCounted, [Next]_vars PROVE TrialsCounted'
    OBVIOUS
  <2>0. IsFiniteSet(trialCalls) /\ Cardinality(trialCalls) \in Nat
    BY TrialCallsFinite, FS_CardinalityType
  <2>1. CASE Tick
    BY <2>1 DEF Tick, TrialsCounted
  <2>2. ASSUME NEW c \in Callers, Allow(c) PROVE TrialsCounted'
    <3>1. CASE breaker.state = "closed"
      BY <2>2, <3>1 DEF Allow, AfterAllow, TrialsCounted
    <3>2. CASE breaker.state = "open"
      <4>1. breaker'.trials = 1 /\ trialCalls' = {c} /\ unheard' = 0
        BY <2>2, <3>2 DEF Allow, AfterAllow, TypeOK, ToolState
      <4>2. Cardinality({c}) = 1
        BY FS_Singleton
      <4> QED BY <4>1, <4>2 DEF TrialsCounted
    <3>3. CASE breaker.state = "half_open"
      <4>1. /\ breaker.trials < HalfOpenTrials
            /\ breaker'.trials = breaker.trials + 1
            /\ trialCalls' = trialCalls \cup {c}
            /\ unheard' = unheard
        BY <2>2, <3>3 DEF Allow, Allows, AfterAllow, TypeOK, ToolState
      <4>2. c \notin trialCalls
        BY <2>2 DEF Allow, TypeOK
      <4>3. Cardinality(trialCalls') = Cardinality(trialCalls) + 1
        BY <2>0, <4>1, <4>2, FS_AddElement
      <4>4. breaker.trials \in Nat /\ unheard \in Nat
        BY DEF TypeOK, ToolState
      <4> QED BY <2>0, <3>3, <4>1, <4>3, <4>4 DEF TrialsCounted
    <3> QED BY <3>1, <3>2, <3>3 DEF TypeOK, ToolState, BreakerStates
  <2>3. ASSUME NEW c \in Callers, RecordSuccess(c) PROVE TrialsCounted'
    BY <2>3 DEF RecordSuccess, AfterSuccess, FreshToolState, TrialsCounted
  <2>4. ASSUME NEW c \in Callers, RecordFailure(c) PROVE TrialsCounted'
    <3>1. breaker'.state # "half_open"
      BY <2>4 DEF RecordFailure, AfterFailure, Trips
    <3> QED BY <3>1 DEF TrialsCounted
  <2>5. ASSUME NEW c \in Callers, DropReport(c) PROVE TrialsCounted'
    <3>1. breaker' = breaker /\ trialCalls' = trialCalls \ {c}
      BY <2>5 DEF DropReport
    <3>2. unheard \in Nat
      BY DEF TypeOK
    <3>3. CASE c \in trialCalls
      <4>1. unheard' = unheard + 1
        BY <2>5, <3>3 DEF DropReport
      <4>2. Cardinality(trialCalls') = Cardinality(trialCalls) - 1
        BY <2>0, <3>1, <3>3, FS_RemoveElement
      <4> QED BY <2>0, <3>1, <3>2, <4>1, <4>2 DEF TrialsCounted
    <3>4. CASE c \notin trialCalls
      <4>1. unheard' = unheard /\ trialCalls' = trialCalls
        BY <2>5, <3>1, <3>4 DEF DropReport
      <4> QED BY <3>1, <4>1 DEF TrialsCounted
    <3> QED BY <3>3, <3>4
  <2>6. CASE UNCHANGED vars
    BY <2>6 DEF vars, TrialsCounted
  <2> QED BY <2>1, <2>2, <2>3, <2>4, <2>5, <2>6 DEF Next
<1> QED BY <1>1, <1>2, BreakerTypeCorrect, PTL DEF Spec

\* A HALF_OPEN period never has more trials under way than half_open_trials,
\* even if calls go unreported and older calls report into it (allow).
THEOREM TrialsBoundedCorrect == Spec => []TrialsBounded
<1>1. TypeOK /\ TrialsCounted => TrialsBounded
  <2> SUFFICES ASSUME TypeOK, TrialsCounted PROVE TrialsBounded
    OBVIOUS
  <2>1. Cardinality(trialCalls) \in Nat /\ breaker.trials \in Nat /\ unheard \in Nat
    BY TrialCallsFinite, FS_CardinalityType DEF TypeOK, ToolState
  <2> QED BY <2>1, BreakerAssumption DEF TrialsCounted, TrialsBounded
<1> QED BY <1>1, BreakerTypeCorrect, TrialsCountedInvariant, PTL

\* A HALF_OPEN breaker admits a call, or waits for one that will settle it, unless
\* all its trials went unreported, as the coordinator's retries may leave them.
THEOREM StuckOnlyUnheardCorrect == Spec => []StuckOnlyUnheard
<1>1. TypeOK /\ TrialsCounted => StuckOnlyUnheard
  <2> SUFFICES ASSUME TypeOK, TrialsCounted, breaker.state = "half_open", trialCalls = {}
               PROVE breaker.trials < HalfOpenTrials \/ unheard = HalfOpenTrials
    BY DEF StuckOnlyUnheard
  <2>1. breaker.trials = unheard /\ breaker.trials <= HalfOpenTrials
    BY FS_EmptySet DEF TrialsCounted, TypeOK
  <2>2. unheard \in Nat
    BY DEF TypeOK
  <2> QED BY <2>1, <2>2, BreakerAssumption
<1> QED BY <1>1, BreakerTypeCorrect, TrialsCountedInvariant, PTL
===============================================================================
