------------------------------ MODULE SagaProofs ------------------------------
(***************************************************************************)
(* The coordinator that keeps an audit trail is the coordinator, and, with  *)
(* adapters that keep their contract and an unwinding that is not cut       *)
(* short, the coordinator is the saga of Saga.tla.                          *)
(*                                                                         *)
(* The refinement needs to know, at every step of the run, what the saga    *)
(* would have done so far.  Driven bounds a retryable step's attempts by    *)
(* its breaker's patience; RowsFollowPlan and InPlanOrder say that log,     *)
(* loop and completion order all follow the plan; LettersLast and           *)
(* PivotActed relate the dead-letter queue and the pivot to the session     *)
(* that is running.  With the invariants of CoordinatorProofs they make     *)
(* SagaInv, and one lemma per kind of step maps that step to the saga's.    *)
(*                                                                         *)
(* The second half is about what is written of a run: the records, the      *)
(* events and the reports made of them.  One lemma says which step of the   *)
(* coordinator owes which events, one that only an append changes what a    *)
(* reader of the log sees; TrailInvariants says how far the records and the *)
(* log may lag behind the run, and each property of Report follows from     *)
(* what is left of that lag when nothing is owed.                          *)
(***************************************************************************)
EXTENDS TrailInvariants, CoordinatorProofs, SequenceTheorems

------------------------------------------------------------------------------
(* The audit trail *)

\* Appending an event, opening a record, starting or ending a recovery: no step of the run.
LEMMA Aside ==
  Append1 \/ StartRecovery \/ FinishReconciliation \/ RecoveryDies \/ Request => UNCHANGED vars
BY DEF Append1, StartRecovery, FinishReconciliation, RecoveryDies, Request

\* A step that owes events is the step of the coordinator it is named for.
LEMMA WorkingImplements == Working => StepForward \/ StepBackward \/ UNCHANGED vars
<1>1. Skip \/ TimeOut \/ Finish \/ PassGate \/ Reuse \/ Claim \/ StopAtBreaker \/ Announce
      \/ StopAtAdapter \/ Judge \/ Succeed \/ LoseTrack \/ Query \/ TryAgain \/ GiveUp \/ Escalate
      => StepForward
  BY DEF Skip, TimeOut, Finish, PassGate, Reuse, Claim, StopAtBreaker, Announce, StopAtAdapter,
         Judge, Succeed, LoseTrack, Query, TryAgain, GiveUp, Escalate, StepForward
<1>2. (\E d \in {"granted", "denied"} : Decide(d)) \/ (\E o \in Outcomes : Call(o)) => StepForward
  BY DEF Decide, Call, StepForward
<1>3. Unwind \/ Undo \/ UndoDone \/ UndoGivenUp \/ FinishUnwinding => StepBackward
  BY DEF Unwind, Undo, UndoDone, UndoGivenUp, FinishUnwinding, StepBackward
<1> QED
  BY <1>1, <1>2, <1>3, Aside DEF Working

\* So is every other step.
LEMMA TrailImplements == [TrailNext]_allVars => [Next]_vars
<1>1. Run \/ RunAgain => RunWorkflow
  BY DEF Run, RunAgain
<1>2. Resume => ResumeWorkflow
  BY DEF Resume
<1>3. (\E s \in Steps, k \in Sessions : RecoverRow(s, k) \/ RecoverUndoRow(s, k)) => Reconcile
  BY DEF RecoverRow, RecoverUndoRow, Reconcile
<1>4. (Die => Crash) /\ (ComeBack => Reopen) /\ (Landing => Land)
  BY DEF Die, ComeBack, Landing
<1>5. UNCHANGED allVars => UNCHANGED vars
  BY DEF allVars
<1> QED
  BY <1>1, <1>2, <1>3, <1>4, <1>5, Aside, WorkingImplements DEF TrailNext, Next, CoordinatorStep

\* THEOREM: a run with its audit trail is a run of Coordinator.
THEOREM TrailImplementsCoordinator == TrailSpec => Spec
<1>1. TrailInit => Init
  BY DEF TrailInit
<1> QED
  BY <1>1, TrailImplements, PTL DEF TrailSpec, Spec

\* THEOREM: so whatever the trail shows, no step with a committed row is touched again.
THEOREM TrailCommittedIsFinal == TrailSpec => CommittedIsFinal
BY TrailImplementsCoordinator, CommittedIsFinalCorrect

\* THEOREM: and the bookkeeping the reports read was ahead of the world at all times.
THEOREM TrailBookkeeping == TrailSpec => []Bookkeeping
BY TrailImplementsCoordinator, BookkeepingInvariant

------------------------------------------------------------------------------
(* A retryable step is driven forward *)

\* A closed breaker admits every attempt and stays as it is.
LEMMA ClosedAllows ==
  \A b \in ToolState : b.state = "closed" => Allows(b, TRUE) /\ Allows(b, FALSE) /\ AfterAllow(b) = b
BY DEF Allows, AfterAllow

\* A failure below the threshold leaves it closed.
LEMMA BelowThreshold ==
  \A b \in ToolState :
    b.state = "closed" /\ b.failures + 1 < FailureThreshold =>
      AfterFailure(b).state = "closed" /\ AfterFailure(b).failures = b.failures + 1
BY BreakerAssumption DEF ToolState, AfterFailure, Trips

\* The record of the current step's tool.
LEMMA CurrentBreaker ==
  ASSUME TypeOK, cur \in Steps
  PROVE  /\ Tool[cur] \in Tools /\ breaker[Tool[cur]] \in ToolState
         /\ MaxAttempts[cur] \in Nat /\ MaxAttempts[cur] > 0
BY PlanAssumption DEF TypeOK, BreakerTyped

\* While the loop goes forward, the tool of a step that has not been tried has a fresh breaker.
LEMMA FreshBreakersForward ==
  ASSUME TypeOK, FreshBreakers, StepForward
  PROVE  FreshBreakers'
<1> USE DEF progress, ForwardPlaces
<1>1. CASE Admit \/ Retry \/ GiveUpForward \/ GiveUpUnwinding
  <2>1. /\ cur \in Steps /\ UNCHANGED cur /\ pc \in {"admit", "failed", "unresolved"}
        /\ \E b : breaker' = [breaker EXCEPT ![Tool[cur]] = b]
        /\ pc' \in {"mark", "admit", "escalate", "recover"}
    BY <1>1, AtStep DEF Admit, Retry, GiveUpForward, GiveUpUnwinding, HandleFailure
  <2> QED
    BY <2>1, CurrentBreaker DEF FreshBreakers, TypeOK, BreakerTyped
<1>2. CASE RecordSuccess
  <2>1. /\ cur \in Steps /\ pc = "record" /\ pc' = "loop"
        /\ breaker' = [breaker EXCEPT ![Tool[cur]] = FreshToolState]
    BY <1>2, AtStep DEF RecordSuccess, MarkCompleted, AfterSuccess
  <2> QED
    BY <2>1, CurrentBreaker DEF FreshBreakers, TypeOK, BreakerTyped
<1>3. CASE ~(Admit \/ Retry \/ GiveUpForward \/ GiveUpUnwinding \/ RecordSuccess)
  <2>1. UNCHANGED breaker
    BY <1>3
    DEF StepForward, SkipCommitted, DeadlinePasses, Complete, ResolveApproval, NoApprovalNeeded,
        ReuseResult, ClaimKey, MarkCompleted, FailFast, MarkRunning, MissingAdapter, Execute,
        PostconditionPasses, PostconditionFails, MarkUnknown, QueryFinds, QueryFindsNothing,
        QueryUndetermined, EscalateForward
  <2>2. pc \in {"loop", "claim"} \/ (UNCHANGED cur /\ pc' \notin {"loop", "claim"})
    BY <1>3, OutcomeClassified
    DEF StepForward, SkipCommitted, DeadlinePasses, Complete, ResolveApproval, NoApprovalNeeded,
        ReuseResult, ClaimKey, FailFast, MarkRunning, MissingAdapter, Execute,
        PostconditionPasses, PostconditionFails, MarkUnknown, QueryFinds, QueryFindsNothing,
        QueryUndetermined, EscalateForward
  <2>3. pc \in ForwardPlaces
    BY <1>3
    DEF StepForward, SkipCommitted, DeadlinePasses, Complete, ResolveApproval, NoApprovalNeeded,
        ReuseResult, ClaimKey, FailFast, MarkRunning, MissingAdapter, Execute,
        PostconditionPasses, PostconditionFails, MarkUnknown, QueryFinds, QueryFindsNothing,
        QueryUndetermined, EscalateForward
  <2> QED
    BY <2>1, <2>2, <2>3 DEF FreshBreakers
<1> QED
  BY <1>1, <1>2, <1>3

\* A retryable step's breaker counts no more failures than the step had attempts.
LEMMA WithinBudgetForward ==
  ASSUME TypeOK, Bookkeeping, FreshBreakers, WithinBudget, DrivenForward, StepForward
  PROVE  WithinBudget'
<1> USE DEF progress, ForwardPlaces, Attempting
<1>1. attempt \in Nat
  BY DEF TypeOK, ProgressTyped
<1> SUFFICES ASSUME pc' \in Attempting \cup {"admit"}, cur' \in Retryable
             PROVE  /\ breaker'[Tool[cur']].state = "closed"
                    /\ attempt' <= MaxAttempts[cur']
                    /\ IF pc' = "admit"
                         THEN attempt' < MaxAttempts[cur'] /\ breaker'[Tool[cur']].failures <= attempt'
                         ELSE breaker'[Tool[cur']].failures < attempt'
  BY DEF WithinBudget
<1>2. UNCHANGED cur /\ cur \in Steps /\ pc \in Attempting \cup {"admit", "claim"}
  BY AtStep, OutcomeClassified
  DEF StepForward, SkipCommitted, DeadlinePasses, Complete, ResolveApproval, NoApprovalNeeded,
      ReuseResult, ClaimKey, MarkCompleted, Admit, FailFast, MarkRunning, MissingAdapter, Execute,
      PostconditionPasses, PostconditionFails, RecordSuccess, MarkUnknown, QueryFinds,
      QueryFindsNothing, QueryUndetermined, Retry, GiveUpForward, GiveUpUnwinding, HandleFailure,
      EscalateForward
<1>3. /\ Tool[cur] \in Tools /\ breaker[Tool[cur]] \in ToolState
      /\ MaxAttempts[cur] \in Nat /\ MaxAttempts[cur] > 0
  BY <1>2, CurrentBreaker
<1>4. breaker[Tool[cur]].failures \in Nat
  BY <1>3 DEF ToolState
<1>5. CASE ClaimKey
  BY <1>2, <1>3, <1>5
  DEF ClaimKey, Bookkeeping, AttemptTracked, FreshBreakers, FreshToolState
<1>6. CASE Admit
  <2>1. pc = "admit" /\ pc' = "mark" /\ attempt' = attempt + 1
        /\ breaker' = [breaker EXCEPT ![Tool[cur]] = AfterAllow(@)]
    BY <1>6 DEF Admit
  <2>2. breaker'[Tool[cur]] = breaker[Tool[cur]]
    BY <1>2, <1>3, <2>1, ClosedAllows DEF WithinBudget, TypeOK, BreakerTyped
  <2> QED
    BY <1>1, <1>2, <1>3, <1>4, <2>1, <2>2 DEF WithinBudget
<1>7. CASE Retry
  <2>1. /\ pc \in {"failed", "unresolved"} /\ pc' = "admit" /\ UNCHANGED attempt
        /\ attempt < MaxAttempts[cur]
        /\ breaker' = [breaker EXCEPT ![Tool[cur]] = AfterFailure(@)]
    BY <1>7 DEF Retry, HandleFailure, MayRetry
  <2>2. MaxAttempts[cur] <= FailureThreshold
    BY <1>2 DEF DrivenForward, Unstoppable
  <2>3. breaker[Tool[cur]].state = "closed" /\ breaker[Tool[cur]].failures + 1 <= attempt
    BY <1>1, <1>2, <1>4, <2>1 DEF WithinBudget
  <2>4. breaker[Tool[cur]].failures + 1 < FailureThreshold
    BY <1>1, <1>3, <1>4, <2>1, <2>2, <2>3, BreakerAssumption
  <2>5. breaker'[Tool[cur]] = AfterFailure(breaker[Tool[cur]])
    BY <1>3, <2>1 DEF TypeOK, BreakerTyped
  <2> QED
    BY <1>1, <1>2, <1>3, <2>1, <2>3, <2>4, <2>5, BelowThreshold
<1>8. CASE ~(ClaimKey \/ Admit \/ Retry)
  <2>1. /\ UNCHANGED <<breaker, attempt>> /\ pc \in Attempting
        /\ pc' = "admit" => attempt < MaxAttempts[cur]
    BY <1>8, OutcomeClassified
    DEF StepForward, SkipCommitted, DeadlinePasses, Complete, ResolveApproval, NoApprovalNeeded,
        ReuseResult, MarkCompleted, FailFast, MarkRunning, MissingAdapter, Execute,
        PostconditionPasses, PostconditionFails, RecordSuccess, MarkUnknown, QueryFinds,
        QueryFindsNothing, QueryUndetermined, GiveUpForward, GiveUpUnwinding, HandleFailure,
        EscalateForward
  <2> QED
    BY <1>1, <1>2, <1>4, <2>1 DEF WithinBudget
<1> QED
  BY <1>5, <1>6, <1>7, <1>8

\* THEOREM: in a plan whose retryable steps nothing but their own attempts can stop,
\* a retryable step behind the pivot is driven forward or escalated, never unwound.
THEOREM DrivenInvariant ==
  ASSUME DrivenForward
  PROVE  Spec => []Driven
<1>1. Init => Driven
  BY DEF Init, Driven, FreshBreakers, WithinBudget, RetryableNeverUnwindsPivot, ForwardPlaces,
         Attempting, RecoveryPlaces
<1>2. TypeOK /\ Bookkeeping /\ Driven /\ [Next]_vars => Driven'
  <2> SUFFICES ASSUME TypeOK, Bookkeeping, Driven, [Next]_vars PROVE Driven'
    OBVIOUS
  <2> USE DEF Driven
  <2>1. CASE StepForward
    <3>1. FreshBreakers' /\ WithinBudget'
      BY <2>1, FreshBreakersForward, WithinBudgetForward
    <3>2. pc' = "escalate" => cur' \in Retryable /\ pivotCrossed'
      BY <2>1, OutcomeClassified
      DEF progress, completed, StepForward, SkipCommitted, DeadlinePasses, Complete, ResolveApproval,
          NoApprovalNeeded, ReuseResult, ClaimKey, MarkCompleted, Admit, FailFast, MarkRunning,
          MissingAdapter, Execute, PostconditionPasses, PostconditionFails, RecordSuccess,
          MarkUnknown, QueryFinds, QueryFindsNothing, QueryUndetermined, Retry, GiveUpForward,
          GiveUpUnwinding, HandleFailure, EscalateForward, ForwardOnly
    <3>3. RetryableNeverUnwindsPivot'
      <4>1. pc' \in RecoveryPlaces =>
              /\ \/ DeadlinePasses \/ ResolveApproval("denied") \/ FailFast \/ MissingAdapter
                 \/ GiveUpUnwinding
              /\ UNCHANGED <<cur, pivotCrossed>>
        BY <2>1, OutcomeClassified
        DEF progress, completed, RecoveryPlaces, StepForward, SkipCommitted, DeadlinePasses, Complete,
            ResolveApproval, Granted, NoApprovalNeeded, ReuseResult, ClaimKey, MarkCompleted, Admit,
            FailFast, MarkRunning, MissingAdapter, Execute, PostconditionPasses, PostconditionFails,
            RecordSuccess, MarkUnknown, QueryFinds, QueryFindsNothing, QueryUndetermined, Retry,
            GiveUpForward, GiveUpUnwinding, HandleFailure, EscalateForward
      <4>2. ASSUME cur \in Retryable, DeadlinePasses \/ ResolveApproval("denied") \/ MissingAdapter
            PROVE  FALSE
        BY <4>2 DEF DrivenForward, Unstoppable, DeadlinePasses, ResolveApproval, MissingAdapter
      <4>3. ASSUME cur \in Retryable, FailFast PROVE FALSE
        <5>1. cur \in Steps /\ pc = "admit"
          BY <4>3, AtStep DEF FailFast, ForwardPlaces
        <5> QED
          BY <4>3, <5>1, CurrentBreaker DEF FailFast, WithinBudget, Allows
      <4> QED
        BY <4>1, <4>2, <4>3 DEF RetryableNeverUnwindsPivot, GiveUpUnwinding, ForwardOnly
    <3> QED
      BY <3>1, <3>2, <3>3
  <2>2. CASE StepBackward
    <3>1. /\ pc \in RecoveryPlaces /\ pc' \in RecoveryPlaces \cup {"done"}
          /\ UNCHANGED <<cur, pivotCrossed>>
      BY <2>2
      DEF RecoveryPlaces, progress, completed, StepBackward, Recover, UndoBlocked, UndoStart, UndoMark,
          UndoExecute, UndoSucceeds, UndoFails, DeadLetter, NextAction, FinishRecovery
    <3> QED
      BY <3>1
      DEF RetryableNeverUnwindsPivot, FreshBreakers, WithinBudget, RecoveryPlaces, ForwardPlaces,
          Attempting
  <2>3. CASE RunWorkflow \/ ResumeWorkflow \/ Crash \/ Reopen
    <3>1. /\ pc' \in {"loop", "down"}
          /\ \A tool \in Tools : breaker'[tool] = FreshToolState
      BY <2>3 DEF RunWorkflow, ResumeWorkflow, NewSession, Crash, Reopen, LoseProcess
    <3> QED
      BY <3>1
      DEF RetryableNeverUnwindsPivot, FreshBreakers, WithinBudget, RecoveryPlaces, Attempting
  <2>4. CASE Reconcile \/ Land \/ UNCHANGED vars
    <3>1. UNCHANGED <<pc, cur, attempt, breaker, pivotCrossed>>
      BY <2>4
      DEF Reconcile, Land, ReconcileRow, ReconcileUndoRow, LandEffect, LandUndo, vars, progress,
          completed
    <3> QED
      BY <3>1 DEF RetryableNeverUnwindsPivot, FreshBreakers, WithinBudget
  <2> QED
    BY <2>1, <2>2, <2>3, <2>4 DEF Next, CoordinatorStep
<1> QED
  BY TypeCorrect, BookkeepingInvariant, <1>1, <1>2, PTL DEF Spec

\* THEOREM: so in such a plan a failing retryable step never unwinds a crossed pivot.
THEOREM RetryableNeverUnwindsPivotCorrect ==
  ASSUME DrivenForward
  PROVE  Spec => []RetryableNeverUnwindsPivot
<1>1. Driven => RetryableNeverUnwindsPivot
  BY DEF Driven
<1> QED
  BY DrivenInvariant, <1>1, PTL

------------------------------------------------------------------------------
(* The plan's order *)

\* Counting steps: a part is not larger, a real part is smaller, one more is one more.
LEMMA Counting ==
  ASSUME NEW set \in SUBSET Steps
  PROVE  /\ Cardinality(set) \in Nat
         /\ \A part \in SUBSET set : /\ Cardinality(part) <= Cardinality(set)
                                     /\ part # set => Cardinality(part) < Cardinality(set)
         /\ \A s \in Steps \ set : Cardinality(set \cup {s}) = Cardinality(set) + 1
<1>1. IsFiniteSet(Steps)
  BY PlanAssumption, FS_Interval DEF Steps
<1>2. IsFiniteSet(set)
  BY <1>1, FS_Subset
<1>3. ASSUME NEW part \in SUBSET set
      PROVE  Cardinality(part) <= Cardinality(set) /\ (part # set => Cardinality(part) < Cardinality(set))
  <2>1. Cardinality(part) \in Nat /\ Cardinality(set) \in Nat
    BY CountTyped
  <2> QED
    BY <1>2, <2>1, FS_Subset
<1>4. ASSUME NEW s \in Steps \ set PROVE Cardinality(set \cup {s}) = Cardinality(set) + 1
  BY <1>2, <1>4, FS_AddElement
<1> QED
  BY <1>3, <1>4, CountTyped

\* THEOREM: no step has a row before every earlier step is committed, whatever
\* tools, crashes and callers do.
THEOREM RowsFollowPlanCorrect == Spec => []RowsFollowPlan
<1>1. Init => RowsFollowPlan
  BY DEF Init, RowsFollowPlan
<1>2. TypeOK /\ Bookkeeping /\ Reckoned /\ RowsFollowPlan /\ [Next]_vars => RowsFollowPlan'
  <2> SUFFICES ASSUME TypeOK, Bookkeeping, Reckoned, RowsFollowPlan, [Next]_vars,
                      NEW s \in Steps, NEW t \in Steps, NEW k \in Sessions,
                      s < t, wal'[t][k] # "absent"
               PROVE  \E j \in Sessions : wal[s][j] = "COMMITTED"
    BY CommittedStays DEF RowsFollowPlan
  <2>1. CASE UNCHANGED wal
    BY <2>1 DEF RowsFollowPlan
  <2>2. CASE pc \in Attempting \cup {"admit"} /\ OtherRowsStay(cur, session)
    <3>1. CASE t = cur
      <4>1. order[s] > 0
        BY <2>2, <3>1 DEF Reckoned, PlanFollowed, ForwardPlaces, Attempting
      <4>2. src[s] \in Sessions
        BY <4>1, PlanAssumption DEF TypeOK, PlacesTyped, CompletedTyped, Sessions
      <4> QED
        BY <4>1, <4>2 DEF Reckoned, CompletedHasRow
    <3>2. CASE t # cur
      BY <2>2, <3>2 DEF OtherRowsStay, RowsFollowPlan
    <3> QED
      BY <3>1, <3>2
  <2>3. CASE \E i \in Steps, j \in Sessions : wal[i][j] \in Pending /\ OtherRowsStay(i, j)
    <3>1. wal[t][k] # "absent"
      BY <2>3 DEF OtherRowsStay, Pending
    <3> QED
      BY <3>1 DEF RowsFollowPlan
  <2> QED
    BY <2>1, <2>2, <2>3, RowChange
<1> QED
  BY TypeCorrect, BookkeepingInvariant, ReckonedInvariant, <1>1, <1>2, PTL DEF Spec

\* The current step is completed last.
LEMMA CompletingInOrder ==
  ASSUME TypeOK, InPlanOrder, cur \in Steps \ skip, pc \in ForwardPlaces, NEW k, MarkCompleted(cur, k)
  PROVE  InPlanOrder'
<1> DEFINE Done == {t \in Steps : order[t] > 0}
<1>1. /\ \A s \in Steps : s \in Nat /\ order[s] \in Nat
      /\ cur \in Nat
  BY Numbers DEF TypeOK, CompletedTyped
<1>2. order[cur] = 0
  BY <1>1 DEF InPlanOrder, LoopFollowsPlan
<1>3. /\ Cardinality(Done) \in Nat
      /\ Cardinality(Done \cup {cur}) = Cardinality(Done) + 1
  BY <1>2, Counting
<1>4. /\ order'[cur] = Cardinality(Done) + 1
      /\ \A s \in Steps \ {cur} : order'[s] = order[s]
      /\ pc' = "loop" /\ cur' = cur + 1 /\ UNCHANGED skip
  BY DEF MarkCompleted, TypeOK, CompletedTyped
<1>5. {t \in Steps : order'[t] > 0} = Done \cup {cur}
  BY <1>3, <1>4
<1>6. LoopFollowsPlan'
  BY <1>1, <1>4 DEF InPlanOrder, LoopFollowsPlan
<1>7. \A s \in Steps : order[s] <= Cardinality(Done)
  BY DEF InPlanOrder, OrderFollowsPlan
<1>8. ASSUME NEW s \in Steps PROVE order'[s] <= Cardinality({t \in Steps : order'[t] > 0})
  <2> HIDE DEF Done
  <2> QED
    BY <1>1, <1>3, <1>4, <1>5, <1>7
<1>9. ASSUME NEW s \in Steps, NEW t \in Steps, s < t, order'[s] > 0, order'[t] > 0
      PROVE  order'[s] < order'[t]
  <2> HIDE DEF Done
  <2>1. CASE t = cur
    BY <1>1, <1>3, <1>4, <1>7, <1>9, <2>1
  <2>2. CASE s = cur
    <3>1. t \in skip
      BY <1>1, <1>4, <1>9, <2>2 DEF InPlanOrder, LoopFollowsPlan
    <3> QED
      BY <1>9, <2>2, <3>1 DEF InPlanOrder, LoopFollowsPlan
  <2>3. CASE s # cur /\ t # cur
    BY <1>4, <1>9, <2>3 DEF InPlanOrder, OrderFollowsPlan
  <2> QED
    BY <2>1, <2>2, <2>3
<1> QED
  BY <1>6, <1>8, <1>9 DEF InPlanOrder, OrderFollowsPlan

\* What a resume rebuilds is the beginning of the plan, in plan order.
LEMMA ResumingInOrder ==
  ASSUME TypeOK, Ownership, RowsFollowPlan, ResumeWorkflow
  PROVE  InPlanOrder'
<1> DEFINE Upto(s) == {t \in CommittedSteps : t <= s}
<1>1. skip' = CommittedSteps /\ order' = Rebuilt /\ CommittedSteps \in SUBSET Steps
  BY DEF ResumeWorkflow, CommittedSteps
<1>2. \A s \in Steps : s \in Nat
  BY Numbers
<1>3. {t \in Steps : order'[t] > 0} = CommittedSteps
  BY <1>1, RebuiltReal
<1>4. \A s \in Steps : Upto(s) \in SUBSET CommittedSteps
  BY <1>1
<1>5. \A s \in CommittedSteps : order'[s] = Cardinality(Upto(s))
  BY <1>1 DEF Rebuilt
<1>6. \A s \in Steps \ CommittedSteps : order'[s] = 0
  BY <1>1, RebuiltReal
<1>7. \A s \in Steps : order'[s] <= Cardinality(CommittedSteps)
  <2> HIDE DEF Upto
  <2> QED
    BY <1>1, <1>4, <1>5, <1>6, Counting
<1>8. ASSUME NEW s \in CommittedSteps, NEW t \in CommittedSteps, s < t
      PROVE  order'[s] < order'[t]
  <2>1. Upto(s) \in SUBSET Upto(t) /\ Upto(s) # Upto(t) /\ Upto(t) \in SUBSET Steps
    BY <1>1, <1>2, <1>8
  <2> HIDE DEF Upto
  <2> QED
    BY <1>5, <2>1, Counting
<1>9. ASSUME NEW s \in Steps, NEW t \in CommittedSteps, s < t PROVE s \in CommittedSteps
  <2>1. PICK k \in Sessions : wal[t][k] = "COMMITTED"
    BY DEF CommittedSteps
  <2>2. PICK j \in Sessions : wal[s][j] = "COMMITTED"
    BY <1>1, <1>9, <2>1 DEF RowsFollowPlan
  <2> QED
    BY <2>2 DEF CommittedSteps, LastRow, Ownership, CommittedIsLast
<1>10. OrderFollowsPlan'
  BY <1>1, <1>3, <1>6, <1>7, <1>8 DEF OrderFollowsPlan
<1>11. LoopFollowsPlan'
  BY <1>1, <1>6, <1>9 DEF LoopFollowsPlan
<1> QED
  BY <1>10, <1>11 DEF InPlanOrder

\* THEOREM: with adapters that keep their contract the completion order, by which
\* compensations are sorted, is the plan's order in every session.
THEOREM InPlanOrderInvariant ==
  ASSUME Truthful, ResumedOnly
  PROVE  Spec => []InPlanOrder
<1>1. Init => InPlanOrder
  <2>1. Cardinality({t \in Steps : 0 > 0}) \in Nat
    BY CountTyped
  <2>2. Init => \A s \in Steps : order[s] = 0
    BY DEF Init
  <2> QED
    BY <2>1, <2>2, CountTyped
    DEF Init, InPlanOrder, LoopFollowsPlan, OrderFollowsPlan, ForwardPlaces
<1>2. TypeOK /\ Ownership /\ RowsFollowPlan /\ InPlanOrder /\ [Next]_vars => InPlanOrder'
  <2> SUFFICES ASSUME TypeOK, Ownership, RowsFollowPlan, InPlanOrder, [Next]_vars
               PROVE  InPlanOrder'
    OBVIOUS
  <2>1. CASE ReuseResult \/ RecordSuccess
    <3>1. cur \in Steps /\ pc \in ForwardPlaces \ {"loop"}
      BY <2>1, AtStep DEF ReuseResult, RecordSuccess, ForwardPlaces
    <3>2. cur \notin skip
      BY <3>1 DEF Ownership, CommittedSkipped, ForwardPlaces
    <3> QED
      BY <2>1, <3>1, <3>2, CompletingInOrder DEF ReuseResult, RecordSuccess
  <2>2. CASE StepForward /\ ~(ReuseResult \/ RecordSuccess)
    <3>1. /\ UNCHANGED <<order, skip>> /\ pc \in ForwardPlaces
          /\ UNCHANGED cur \/ (cur \in skip /\ cur' = cur + 1)
      BY <2>2
      DEF progress, completed, ForwardPlaces, StepForward, SkipCommitted, DeadlinePasses, Complete,
          ResolveApproval, NoApprovalNeeded, ClaimKey, Admit, FailFast, MarkRunning, MissingAdapter,
          Execute, PostconditionPasses, PostconditionFails, MarkUnknown, QueryFinds,
          QueryFindsNothing, QueryUndetermined, Retry, GiveUpForward, GiveUpUnwinding, HandleFailure,
          EscalateForward
    <3> QED
      BY <3>1, Numbers DEF InPlanOrder, LoopFollowsPlan, OrderFollowsPlan
  <2>3. CASE StepBackward
    <3>1. UNCHANGED order /\ pc' \notin ForwardPlaces
      BY <2>3
      DEF ForwardPlaces, completed, StepBackward, Recover, UndoBlocked, UndoStart, UndoMark,
          UndoExecute, UndoSucceeds, UndoFails, DeadLetter, NextAction, FinishRecovery
    <3> QED
      BY <3>1 DEF InPlanOrder, LoopFollowsPlan, OrderFollowsPlan
  <2>4. CASE ResumeWorkflow
    BY <2>4, ResumingInOrder
  <2>5. CASE RunWorkflow \/ Crash \/ Reopen
    <3>1. /\ order' = [s \in Steps |-> 0] /\ skip' = {}
      BY <2>5 DEF RunWorkflow, Crash, Reopen, LoseProcess
    <3>2. Cardinality({t \in Steps : order'[t] > 0}) \in Nat
      BY CountTyped
    <3> QED
      BY <3>1, <3>2 DEF InPlanOrder, LoopFollowsPlan, OrderFollowsPlan
  <2>6. CASE Reconcile \/ Land \/ UNCHANGED vars
    <3>1. UNCHANGED <<pc, order, skip, cur>>
      BY <2>6
      DEF Reconcile, Land, ReconcileRow, ReconcileUndoRow, LandEffect, LandUndo, vars, progress,
          completed
    <3> QED
      BY <3>1 DEF InPlanOrder, LoopFollowsPlan, OrderFollowsPlan
  <2> QED
    BY <2>1, <2>2, <2>3, <2>4, <2>5, <2>6 DEF Next, CoordinatorStep
<1> QED
  BY TypeCorrect, OwnershipInvariant, RowsFollowPlanCorrect, <1>1, <1>2, PTL DEF Spec

------------------------------------------------------------------------------
(* Letters and the pivot *)

\* THEOREM: where no unwinding is cut short, letters are about what the last session
\* has dealt with, or about the step it escalated.
THEOREM LettersLastInvariant ==
  ASSUME UnwindsOnce
  PROVE  Spec => []LettersLast
<1>1. Init => LettersLast
  BY DEF Init, LettersLast
<1>2. TypeOK /\ Accounted /\ LettersLast /\ [Next]_vars => LettersLast'
  <2> SUFFICES ASSUME TypeOK, Accounted, LettersLast, [Next]_vars PROVE LettersLast'
    OBVIOUS
  <2> USE DEF RecoveryPlaces, durable
  <2>1. CASE EscalateForward
    BY <2>1 DEF EscalateForward, LettersLast
  <2>2. CASE \/ StepForward /\ ~EscalateForward
             \/ RunWorkflow \/ ResumeWorkflow \/ Crash \/ Reopen \/ Recover
    <3>1. UNCHANGED dlq /\ pc \in ForwardPlaces \cup {"idle", "down", "recover"}
      BY <2>2
      DEF UnwindsOnce, ForwardPlaces, StepForward, SkipCommitted, DeadlinePasses, Complete,
          ResolveApproval, NoApprovalNeeded, ReuseResult, ClaimKey, Admit, FailFast, MarkRunning,
          MissingAdapter, Execute, PostconditionPasses, PostconditionFails, RecordSuccess,
          MarkUnknown, QueryFinds, QueryFindsNothing, QueryUndetermined, Retry, GiveUpForward,
          GiveUpUnwinding, HandleFailure, RunWorkflow, ResumeWorkflow, NewSession, Crash, Reopen,
          LoseProcess, Recover
    <3> QED
      BY <3>1 DEF LettersLast, ForwardPlaces
  <2>3. CASE StepBackward /\ ~(Recover \/ FinishRecovery \/ DeadLetter)
    <3>1. /\ pc \in RecoveryPlaces \ {"recover"} /\ pc' \in RecoveryPlaces \ {"recover"}
          /\ UNCHANGED <<dlq, session, order>> /\ todo' \subseteq todo
      BY <2>3
      DEF completed, unwinding, StepBackward, UndoBlocked, UndoStart, UndoMark, UndoExecute,
          UndoSucceeds, UndoFails, NextAction
    <3> QED
      BY <3>1 DEF LettersLast, Tracked
  <2>4. CASE DeadLetter
    <3>1. /\ pc = "letter" /\ pc' = "undo" /\ UNCHANGED <<session, order>>
          /\ todo' = todo \ {undoing}
          /\ \A l \in dlq' : l \in dlq \/ (l.step = undoing /\ l.session = session)
      BY <2>4 DEF DeadLetter, NextAction, UndoLetters, completed, progress
    <3>2. undoing \in Tracked
      BY <3>1 DEF Accounted, UndoneInTurn, NextToUndo
    <3> QED
      BY <3>1, <3>2 DEF LettersLast, Tracked
  <2>5. CASE FinishRecovery
    BY <2>5 DEF FinishRecovery, FinalState, Accounted, UndoneInTurn, HasLetter, LettersLast
  <2>6. CASE Reconcile \/ Land \/ UNCHANGED vars
    <3>1. UNCHANGED <<dlq, pc, run, session, todo, order>>
      BY <2>6
      DEF Reconcile, Land, ReconcileRow, ReconcileUndoRow, LandEffect, LandUndo, vars, progress,
          completed, unwinding
    <3> QED
      BY <3>1 DEF LettersLast, Tracked
  <2> QED
    BY <2>1, <2>2, <2>3, <2>4, <2>5, <2>6 DEF Next, CoordinatorStep
<1> QED
  BY TypeCorrect, AccountedInvariant, <1>1, <1>2, PTL DEF Spec

\* THEOREM: with adapters that keep their contract, a pivot the coordinator counts as
\* crossed has acted by the time the loop goes on to another step.
THEOREM PivotActedInvariant ==
  ASSUME Truthful, ResumedOnly
  PROVE  Spec => []PivotActed
<1>1. Init => PivotActed
  BY DEF Init, PivotActed, ForwardPlaces
<1>2. TypeOK /\ Bookkeeping /\ Ownership /\ Reckoned /\ PivotActed /\ [Next]_vars => PivotActed'
  <2> SUFFICES ASSUME TypeOK, Bookkeeping, Ownership, Reckoned, PivotActed, [Next]_vars,
                      pc' \in ForwardPlaces
               PROVE  PivotActed'
    BY DEF PivotActed
  <2>1. CASE RecordSuccess
    <3>1. cur \in Steps /\ session \in Sessions /\ pc = "record" /\ pc' = "loop"
          /\ UNCHANGED <<eff, pivotCrossed>>
      BY <2>1, AtStep DEF RecordSuccess, MarkCompleted, world, ForwardPlaces
    <3>2. <<cur, session>> \in eff
      BY <3>1 DEF Reckoned, PlanFollowed, Bookkeeping, CommittedIsReal
    <3> QED
      BY <3>1, <3>2 DEF PivotActed, ForwardPlaces
  <2>2. CASE GiveUpForward
    BY <2>2
    DEF GiveUpForward, HandleFailure, world, completed, PivotActed, ForwardPlaces, Ownership,
        NotYetActed
  <2>3. CASE QueryFinds \/ \E o \in Outcomes : Execute(o)
    <3>1. /\ pc \in {"execute", "query"} /\ UNCHANGED cur /\ eff \subseteq eff'
          /\ pivotCrossed' => pivotCrossed \/ cur = Pivot
          /\ pc' \notin {"loop", "claim", "escalate"}
      BY <2>3, OutcomeClassified
      DEF Execute, QueryFinds, world, progress, Classified
    <3> QED
      BY <3>1 DEF PivotActed, ForwardPlaces
  <2>4. CASE StepForward
             /\ ~(RecordSuccess \/ GiveUpForward \/ QueryFinds \/ \E o \in Outcomes : Execute(o))
    <3>1. UNCHANGED <<eff, pivotCrossed>>
      BY <2>4
      DEF world, completed, StepForward, SkipCommitted, DeadlinePasses,
          Complete, ResolveApproval, NoApprovalNeeded, ReuseResult, ClaimKey, Admit, FailFast,
          MarkRunning, MissingAdapter, PostconditionPasses, PostconditionFails, MarkUnknown,
          QueryFindsNothing, QueryUndetermined, Retry, GiveUpUnwinding, HandleFailure,
          EscalateForward
    <3>2. /\ pc \in ForwardPlaces /\ pc' # "escalate"
          /\ \/ pc \in {"loop", "claim"}
             \/ UNCHANGED cur /\ pc' \notin {"loop", "claim"}
      BY <2>4
      DEF progress, ForwardPlaces, StepForward, SkipCommitted, DeadlinePasses, Complete,
          ResolveApproval, NoApprovalNeeded, ReuseResult, MarkCompleted, ClaimKey, Admit, FailFast,
          MarkRunning, MissingAdapter, PostconditionPasses, PostconditionFails, MarkUnknown,
          QueryFindsNothing, QueryUndetermined, Retry, GiveUpUnwinding, HandleFailure,
          EscalateForward
    <3> QED
      BY <3>1, <3>2 DEF PivotActed
  <2>5. CASE ResumeWorkflow
    <3>1. pivotCrossed' = (Pivot \in CommittedSteps) /\ pc' = "loop" /\ UNCHANGED eff
      BY <2>5 DEF ResumeWorkflow, NewSession, PivotCommitted, world
    <3> QED
      BY <3>1 DEF PivotActed, CommittedSteps, Bookkeeping, CommittedIsReal
  <2>6. CASE RunWorkflow
    BY <2>6 DEF RunWorkflow, NewSession, PivotActed
  <2>7. CASE StepBackward \/ Crash \/ Reopen
    BY <2>7
    DEF ForwardPlaces, StepBackward, Recover, UndoBlocked, UndoStart, UndoMark, UndoExecute,
        UndoSucceeds, UndoFails, DeadLetter, NextAction, FinishRecovery, Crash, Reopen, LoseProcess
  <2>8. CASE Reconcile \/ Land \/ UNCHANGED vars
    <3>1. UNCHANGED <<pc, cur, session, pivotCrossed>>
      BY <2>8
      DEF Reconcile, Land, ReconcileRow, ReconcileUndoRow, LandEffect, LandUndo, vars, progress,
          completed
    <3>2. UNCHANGED eff
      BY <2>8
      DEF Ownership, EffectsHaveRows, Reconcile, Land, ReconcileRow, ReconcileUndoRow, LandEffect,
          LandUndo, vars, world
    <3> QED
      BY <3>1, <3>2 DEF PivotActed
  <2> QED
    BY <2>1, <2>2, <2>3, <2>4, <2>5, <2>6, <2>7, <2>8 DEF Next, CoordinatorStep
<1> QED
  BY TypeCorrect, BookkeepingInvariant, OwnershipInvariant, ReckonedInvariant, <1>1, <1>2, PTL
  DEF Spec

------------------------------------------------------------------------------
(* The run as a saga *)

\* A run whose unwinding is not cut short, with adapters that keep their contract and
\* a plan whose retryable steps lie behind the pivot and cannot be stopped there.
Orderly == Truthful /\ UnwindsOnce /\ DrivenForward /\ Pivot \notin Retryable

\* What such a run keeps true at every step.
SagaInv ==
  /\ TypeOK /\ Bookkeeping /\ Ownership /\ Accounted
  /\ Reckoned /\ AllReckoned /\ UnwoundLast /\ LettersLast
  /\ InPlanOrder /\ Driven /\ PivotActed

\* Each part is a theorem of CoordinatorProofs or one above.
LEMMA SagaInvariant ==
  ASSUME Orderly
  PROVE  Spec => []SagaInv
<1>1. Truthful /\ UnwindsOnce /\ DrivenForward /\ ResumedOnly
  BY DEF Orderly, UnwindsOnce, ResumedOnly
<1> QED
  BY <1>1, TypeCorrect, BookkeepingInvariant, OwnershipInvariant, AccountedInvariant,
     ReckonedInvariant, AllReckonedInvariant, UnwoundLastInvariant, LettersLastInvariant,
     InPlanOrderInvariant, DrivenInvariant, PivotActedInvariant, PTL DEF SagaInv

\* A completed step has one effect, that of the session its result is from.
LEMMA OneEffect ==
  ASSUME SagaInv, NEW s \in Steps, order[s] > 0
  PROVE  /\ src[s] \in Sessions /\ <<s, src[s]>> \in eff
         /\ \A k \in Sessions : <<s, k>> \in eff => k = src[s]
<1>1. src[s] \in Sessions
  BY PlanAssumption DEF SagaInv, TypeOK, PlacesTyped, CompletedTyped, Sessions
<1>2. <<s, src[s]>> \in eff
  BY <1>1 DEF SagaInv, Reckoned, CompletedHasRow, Bookkeeping, CommittedIsReal
<1> QED
  BY <1>1, <1>2 DEF SagaInv, Ownership, NoDuplicateEffect

\* Until an unwinding has begun nothing is undone, and nobody called for.
LEMMA Untouched ==
  ASSUME SagaInv, pc \in ForwardPlaces \cup {"idle", "down", "recover"}
  PROVE  undone = {} /\ dlq = {}
<1>1. \A s \in Steps, j \in Sessions, k \in Sessions : <<s, j, k>> \notin undone
  <2>1. pc \notin RecoveryPlaces \ {"recover"} /\ pc # "done"
    BY DEF ForwardPlaces, RecoveryPlaces
  <2>2. \A s \in Steps, j \in Sessions : cwal[s][j] = "absent"
    BY <2>1 DEF SagaInv, UnwoundLast
  <2> QED
    BY <2>2 DEF SagaInv, Bookkeeping, WriteAhead
<1>2. undone = {}
  BY <1>1 DEF SagaInv, TypeOK, WorldTyped
<1> QED
  BY <1>2 DEF SagaInv, LettersLast, ForwardPlaces, RecoveryPlaces

\* What the loop has passed stands.
LEMMA Behind ==
  ASSUME SagaInv, pc \in ForwardPlaces, NEW s \in Steps, s < cur
  PROVE  Stands(s)
<1>1. order[s] > 0
  BY DEF SagaInv, Reckoned, PlanFollowed
<1> QED
  BY <1>1, OneEffect, Untouched DEF Stands

\* An effect of an earlier session is that of a step the loop skips.
LEMMA EarlierSkipped ==
  ASSUME SagaInv, pc \in ForwardPlaces, NEW s \in Steps, NEW k \in Sessions, <<s, k>> \in eff
  PROVE  k = session \/ s \in skip
<1>1. k \in Nat /\ session \in Nat
  BY Numbers DEF SagaInv
<1>2. CASE k # session
  <2>1. wal[s][k] = "COMMITTED" /\ k < session
    BY <1>1, <1>2
    DEF SagaInv, Ownership, EffectsHaveRows, OnePending, Pending, Bookkeeping, RowsInOrder
  <2> QED
    BY <2>1 DEF SagaInv, Ownership, CommittedSkipped, ForwardPlaces
<1> QED
  BY <1>2

\* The step the loop is at, unless this session has acted on it, is the saga's next.
LEMMA NextIsCurrent ==
  ASSUME SagaInv, pc \in ForwardPlaces, cur \in Steps \ skip, <<cur, session>> \notin eff
  PROVE  ~Acted(cur) /\ \A r \in Steps : S!NextStep(r) <=> r = cur
<1>1. ~Acted(cur)
  BY EarlierSkipped DEF Acted
<1>2. WorldOf(cur) = "none"
  BY <1>1 DEF WorldOf, Acted, Stands
<1>3. \A t \in Steps : t < cur => WorldOf(t) = "standing"
  BY Behind DEF WorldOf
<1>4. cur \in Nat /\ \A r \in Steps : r \in Nat
  BY Numbers DEF SagaInv
<1> QED
  BY <1>1, <1>2, <1>3, <1>4 DEF S!NextStep, S!Standing, S!Steps, Steps

\* A place the loop turns back from: the current step has not acted.
LEMMA NotActedYet ==
  ASSUME SagaInv, cur \in Steps \ skip,
         pc \in {"loop", "admit", "mark", "execute", "failed", "unresolved", "escalate"}
  PROVE  <<cur, session>> \notin eff
<1>1. session \in Sessions
  BY Running DEF SagaInv
<1>2. CASE pc = "loop"
  BY <1>1, <1>2 DEF SagaInv, Bookkeeping, RowsInOrder, WriteAhead
<1>3. CASE pc = "escalate"
  BY <1>3 DEF SagaInv, PivotActed, ForwardPlaces
<1>4. CASE pc \in {"admit", "mark", "execute", "failed", "unresolved"}
  BY <1>4 DEF SagaInv, Ownership, NotYetActed
<1> QED
  BY <1>2, <1>3, <1>4

\* What changes neither the world nor the letters nor the direction is no step of the saga.
LEMMA NoSagaStep ==
  ASSUME UNCHANGED <<eff, undone, dlq>>,
         \/ pc \in ForwardPlaces \cup {"idle", "down"} /\ pc' \in ForwardPlaces \cup {"idle", "down"}
         \/ pc \in RecoveryPlaces /\ pc' \in RecoveryPlaces
  PROVE  UNCHANGED S!sagaVars
<1>1. Course' = Course
  BY DEF Course, ForwardPlaces, RecoveryPlaces
<1>2. \A s \in Steps : WorldOf(s)' = WorldOf(s)
  BY DEF WorldOf, Stands, Acted
<1> QED
  BY <1>1, <1>2 DEF S!sagaVars

\* What the saga does to a step is a step of the saga.
LEMMA SagaSteps ==
  ASSUME NEW s \in Steps, S!Act(s) \/ S!Undo(s) \/ S!Leave(s) \/ S!Escalate(s)
  PROVE  S!Next
BY DEF S!Next, S!Act, S!Undo, S!Leave, S!Escalate, S!Steps, Steps

\* An effect is an action of the saga.
LEMMA ActingIsAct ==
  ASSUME SagaInv, Truthful, NEW o \in Outcomes, Execute(o)
  PROVE  [S!Next]_S!sagaVars
<1>1. /\ cur \in Steps /\ session \in Sessions /\ pc = "execute" /\ pc' \in ForwardPlaces
      /\ UNCHANGED <<undone, dlq>>
  BY AtStep, OutcomeClassified DEF Execute, ForwardPlaces, SagaInv, durable
<1>2. cur \notin skip
  BY <1>1 DEF SagaInv, Ownership, CommittedSkipped, ForwardPlaces
<1>3. CASE o.acts = "yes"
  <2>1. eff' = eff \cup {<<cur, session>>}
    BY <1>3 DEF Execute
  <2>2. undone = {} /\ S!NextStep(cur)
    BY <1>1, <1>2, NotActedYet, NextIsCurrent, Untouched DEF ForwardPlaces
  <2>3. \A s \in Steps : WorldOf(s)' = IF s = cur THEN "standing" ELSE WorldOf(s)
    BY <1>1, <2>1, <2>2 DEF WorldOf, Stands, Acted
  <2>4. Course = "forward" /\ Course' = "forward"
    BY <1>1 DEF Course, ForwardPlaces, RecoveryPlaces
  <2>5. S!Act(cur)
    BY <1>1, <2>2, <2>3, <2>4 DEF S!Act
  <2> QED
    BY <1>1, <2>5, SagaSteps
<1>4. CASE o.acts # "yes"
  <2>1. eff' = eff
    BY <1>4 DEF Execute
  <2> QED
    BY <1>1, <2>1, NoSagaStep DEF ForwardPlaces
<1> QED
  BY <1>3, <1>4

\* The loop turns back where the saga may.
LEMMA TurningIsTurnBack ==
  ASSUME SagaInv, SagaInv',
         \/ DeadlinePasses \/ ResolveApproval("denied") \/ FailFast \/ MissingAdapter
         \/ GiveUpUnwinding
  PROVE  S!Next
<1>1. /\ pc \in {"loop", "admit", "execute", "failed", "unresolved"} /\ pc' = "recover"
      /\ UNCHANGED <<eff, undone, dlq, cur, pivotCrossed>>
  BY DEF DeadlinePasses, ResolveApproval, Granted, FailFast, MissingAdapter, GiveUpUnwinding,
         HandleFailure, durable, world, progress, completed
<1>2. cur \in Steps \ skip
  <2>1. CASE pc = "loop"
    BY <2>1, PlanAssumption
    DEF DeadlinePasses, ResolveApproval, FailFast, MissingAdapter, GiveUpUnwinding, HandleFailure
  <2>2. CASE pc # "loop"
    BY <1>1, <2>2, AtStep DEF SagaInv, Ownership, CommittedSkipped, ForwardPlaces
  <2> QED
    BY <2>1, <2>2
<1>3. \A r \in Steps : S!NextStep(r) <=> r = cur
  BY <1>1, <1>2, NotActedYet, NextIsCurrent DEF ForwardPlaces
<1>4. cur \in Retryable => ~pivotCrossed
  BY <1>1 DEF SagaInv, Driven, RetryableNeverUnwindsPivot, RecoveryPlaces
<1>5. ASSUME Pivot \in Steps, WorldOf(Pivot) = "standing" PROVE pivotCrossed
  <2>1. PICK k \in Sessions : <<Pivot, k>> \in eff
    BY <1>5 DEF WorldOf, Stands
  <2> QED
    BY <1>1, <1>5, <2>1, EarlierSkipped DEF SagaInv, Ownership, PivotKnown, ForwardPlaces
<1>6. Pivot # 0 => Pivot \in Steps
  BY PlanAssumption DEF Steps
<1>7. \A r \in Retryable : S!NextStep(r) => ~(Pivot # 0 /\ S!Standing(Pivot))
  BY <1>3, <1>4, <1>5, <1>6, PlanAssumption DEF S!Standing
<1>8. \A s \in Steps : WorldOf(s)' = WorldOf(s)
  BY <1>1 DEF WorldOf, Stands, Acted
<1>9. Course = "forward" /\ Course' = "back"
  BY <1>1 DEF Course, RecoveryPlaces
<1> QED
  BY <1>1, <1>7, <1>8, <1>9 DEF S!Next, S!TurnBack

\* Both ways to end without unwinding.
LEMMA EndingForward ==
  ASSUME SagaInv, Orderly, Complete \/ EscalateForward
  PROVE  S!Next
<1>1. UNCHANGED <<eff, undone>> /\ pc' = "done"
  BY DEF Complete, EscalateForward, world
<1>2. \A s \in Steps : WorldOf(s)' = WorldOf(s)
  BY <1>1 DEF WorldOf, Stands, Acted
<1>3. Course = "forward" /\ Course' = run'
  BY <1>1 DEF Course, RecoveryPlaces, Complete, EscalateForward
<1>4. CASE Complete
  <2>1. pc \in ForwardPlaces /\ UNCHANGED dlq /\ run' = "COMPLETED" /\ \A s \in Steps : s < cur
    BY <1>4, Numbers, PlanAssumption DEF Complete, ForwardPlaces, durable, Steps, SagaInv
  <2>2. \A s \in Steps : WorldOf(s) = "standing"
    BY <2>1, Behind DEF WorldOf
  <2> QED
    BY <1>1, <1>2, <1>3, <2>1, <2>2 DEF S!Next, S!Complete, S!Standing, S!Steps, Steps
<1>5. CASE EscalateForward
  <2>1. pc = "escalate" /\ cur \in Steps /\ run' = "INCONSISTENT"
    BY <1>5, AtStep DEF EscalateForward, ForwardPlaces, SagaInv
  <2>2. {l.step : l \in dlq'} = {l.step : l \in dlq} \cup {cur}
    <3> DEFINE letter == [step |-> cur, session |-> session, kind |-> "forward"]
    <3>1. dlq' = dlq \cup {letter} /\ letter.step = cur
      BY <1>5 DEF EscalateForward
    <3> HIDE DEF letter
    <3> QED
      BY <3>1
  <2>3. cur \notin skip
    BY <2>1 DEF SagaInv, Ownership, CommittedSkipped, ForwardPlaces
  <2>4. S!NextStep(cur)
    BY <2>1, <2>3, NotActedYet, NextIsCurrent DEF ForwardPlaces
  <2>5. cur \in Retryable /\ \E k \in Sessions : <<Pivot, k>> \in eff
    BY <2>1 DEF SagaInv, Driven, PivotActed, ForwardPlaces, Orderly
  <2>6. Pivot \in Steps /\ WorldOf(Pivot) = "standing"
    BY <2>1, <2>5, Untouched DEF WorldOf, Stands, ForwardPlaces, SagaInv, TypeOK, WorldTyped
  <2>7. PICK c \in Steps : c = cur
    BY <2>1
  <2>8. S!Escalate(c)
    BY <1>1, <1>2, <1>3, <2>1, <2>2, <2>4, <2>5, <2>6, <2>7 DEF S!Escalate, S!Standing
  <2> QED
    BY <2>8, SagaSteps
<1> QED
  BY <1>4, <1>5

\* Where an unwinding stands, the effects that can be undone are on the list, undone,
\* or have a letter.
LEMMA ListedOrLeft ==
  ASSUME SagaInv, pc \in RecoveryPlaces \ {"recover"}, NEW t \in Undoable, Stands(t)
  PROVE  order[t] > 0 /\ (t \in todo \/ \E l \in dlq : l.step = t)
<1>1. t \in Steps /\ Comp[t] # "none"
  BY DEF Undoable
<1>2. PICK k \in Sessions : <<t, k>> \in eff /\ \A j \in Sessions : <<t, j, k>> \notin undone
  BY DEF Stands
<1>3. wal[t][k] = "COMMITTED"
  BY <1>1, <1>2
  DEF SagaInv, Ownership, EffectsHaveRows, OnePending, Pending, Attempting, RecoveryPlaces
<1>4. order[t] > 0
  BY <1>1, <1>3 DEF SagaInv, AllReckoned, RecoveryPlaces
<1>5. k = src[t] /\ session \in Sessions
  BY <1>1, <1>2, <1>4, OneEffect, Running DEF SagaInv, RecoveryPlaces
<1>6. ASSUME t \notin todo PROVE \E l \in dlq : l.step = t
  <2>1. Settled(t)
    BY <1>1, <1>4, <1>6 DEF SagaInv, Accounted, UndoneInTurn, Tracked
  <2>2. cwal[t][session] # "COMPENSATED"
    BY <1>1, <1>2, <1>5 DEF SagaInv, Reckoned, UndoTraced
  <2> QED
    BY <1>1, <2>1, <2>2 DEF Settled
<1> QED
  BY <1>4, <1>6

\* The action being compensated: an effect nobody was called for, and what came after
\* it is dealt with.
LEMMA UndoingIsNext ==
  ASSUME SagaInv, pc \in {"undo_execute", "letter"}, NEW u, u = undoing
  PROVE  /\ u \in Undoable /\ order[u] > 0 /\ u \in Steps
         /\ u \notin {l.step : l \in dlq}
         /\ S!LaterSettled(u)
<1>1. u \in todo /\ u \in Tracked
  BY DEF SagaInv, Accounted, UndoneInTurn, NextToUndo, RecoveryPlaces
<1>2. u \in Undoable /\ order[u] > 0 /\ u \in Steps
  BY <1>1 DEF Tracked, Undoable
<1>3. \A l \in dlq : l.step # u
  BY <1>1 DEF SagaInv, LettersLast
<1>4. ASSUME NEW t \in Undoable, t > u, WorldOf(t) = "standing"
      PROVE  \E l \in dlq : l.step = t
  <2>1. t \in Steps /\ Stands(t)
    BY <1>4 DEF Undoable, WorldOf
  <2>2. order[t] > 0 /\ (t \in todo \/ \E l \in dlq : l.step = t)
    BY <1>4, <2>1, ListedOrLeft DEF RecoveryPlaces
  <2>3. order[u] < order[t]
    BY <1>2, <1>4, <2>1, <2>2 DEF SagaInv, InPlanOrder, OrderFollowsPlan, Steps
  <2>4. order[u] \in Nat /\ order[t] \in Nat
    BY <1>2, <2>1 DEF SagaInv, TypeOK, CompletedTyped
  <2>5. t \notin todo
    BY <2>3, <2>4 DEF SagaInv, Accounted, UndoneInTurn, NextToUndo, RecoveryPlaces
  <2> QED
    BY <2>2, <2>5
<1>5. S!LaterSettled(u)
  <2>1. \A t \in Undoable : t \in Steps
    BY DEF Undoable
  <2> QED
    BY <1>4, <2>1 DEF S!LaterSettled, S!Standing
<1> QED
  BY <1>2, <1>3, <1>5

\* What a compensation does to the world is an undo of the saga.
LEMMA UndoingIsUndo ==
  ASSUME SagaInv, Truthful, NEW o \in Outcomes, UndoExecute(o)
  PROVE  [S!Next]_S!sagaVars
<1>1. /\ pc = "undo_execute" /\ pc' = "undo_result" /\ UNCHANGED <<eff, dlq>>
  BY DEF UndoExecute, durable
<1>2. PICK u \in Steps : u = undoing
  BY <1>1, Unwinding DEF SagaInv
<1>3. /\ u \in Undoable /\ order[u] > 0
      /\ u \notin {l.step : l \in dlq} /\ S!LaterSettled(u)
  BY <1>1, <1>2, UndoingIsNext
<1>4. /\ src[u] \in Sessions /\ session \in Sessions /\ <<u, src[u]>> \in eff
      /\ \A k \in Sessions : <<u, k>> \in eff => k = src[u]
  BY <1>1, <1>3, OneEffect, Running DEF SagaInv
<1>5. CASE o.acts = "yes" /\ <<u, session, src[u]>> \notin undone
  <2>1. undone' = undone \cup {<<u, session, src[u]>>}
    BY <1>2, <1>5 DEF UndoExecute
  <2>2. \A j \in Sessions : <<u, j, src[u]>> \notin undone
    BY <1>4, <1>5 DEF SagaInv, Bookkeeping, WriteAhead, UnwoundLast
  <2>3. WorldOf(u) = "standing"
    BY <1>4, <2>2 DEF WorldOf, Stands
  <2>4. WorldOf(u)' = "undone"
    BY <1>1, <1>4, <2>1 DEF WorldOf, Stands, Acted
  <2>5. \A s \in Steps : s # u => WorldOf(s)' = WorldOf(s)
    BY <1>1, <2>1 DEF WorldOf, Stands, Acted
  <2>6. Course = "back" /\ Course' = "back"
    BY <1>1 DEF Course, RecoveryPlaces
  <2>7. S!Undo(u)
    BY <1>1, <1>3, <2>3, <2>4, <2>5, <2>6 DEF S!Undo, S!Standing
  <2> QED
    BY <2>7, SagaSteps
<1>6. CASE o.acts # "yes" \/ <<u, session, src[u]>> \in undone
  <2>1. undone' = undone
    BY <1>2, <1>6 DEF UndoExecute
  <2> QED
    BY <1>1, <2>1, NoSagaStep DEF RecoveryPlaces
<1> QED
  BY <1>5, <1>6

\* A letter leaves the step to an operator.
LEMMA FilingIsLeave ==
  ASSUME SagaInv, DeadLetter
  PROVE  S!Next
<1>1. pc = "letter" /\ pc' = "undo" /\ UNCHANGED <<eff, undone>>
  BY DEF DeadLetter, NextAction, world
<1>2. PICK u \in Steps : u = undoing
  BY <1>1, Unwinding DEF SagaInv
<1>3. /\ u \in Undoable /\ order[u] > 0
      /\ u \notin {l.step : l \in dlq} /\ S!LaterSettled(u)
  BY <1>1, <1>2, UndoingIsNext
<1>4. WorldOf(u) # "none"
  BY <1>3, OneEffect DEF WorldOf, Acted
<1>5. {l.step : l \in dlq'} = {l.step : l \in dlq} \cup {u}
  <2>1. PICK letter \in UndoLetters : dlq' = dlq \cup {letter} /\ letter.step = u
    BY <1>2 DEF DeadLetter, UndoLetters
  <2> QED
    BY <2>1
<1>6. \A s \in Steps : WorldOf(s)' = WorldOf(s)
  BY <1>1 DEF WorldOf, Stands, Acted
<1>7. Course = "back" /\ Course' = "back"
  BY <1>1 DEF Course, RecoveryPlaces
<1>8. S!Leave(u)
  BY <1>3, <1>4, <1>5, <1>6, <1>7 DEF S!Leave
<1> QED
  BY <1>8, SagaSteps

\* The verdict of an unwinding is that of the saga.
LEMMA EndingBackward ==
  ASSUME SagaInv, FinishRecovery
  PROVE  S!Next
<1>1. /\ pc = "undo" /\ pc' = "done" /\ todo = {} /\ UNCHANGED <<eff, undone, dlq>>
      /\ run' = IF clean THEN "ABORTED" ELSE "INCONSISTENT"
  BY DEF FinishRecovery, FinalState, world, durable
<1>2. clean <=> dlq = {}
  BY <1>1 DEF SagaInv, Accounted, UndoneInTurn, HasLetter, LettersLast, RecoveryPlaces
<1>3. ASSUME NEW t \in Undoable, WorldOf(t) = "standing" PROVE t \in {l.step : l \in dlq}
  <2>1. Stands(t)
    BY <1>3 DEF WorldOf
  <2> QED
    BY <1>1, <1>3, <2>1, ListedOrLeft DEF RecoveryPlaces
<1>4. \A s \in Steps : WorldOf(s)' = WorldOf(s)
  BY <1>1 DEF WorldOf, Stands, Acted
<1>5. Course = "back" /\ Course' = run'
  BY <1>1 DEF Course, RecoveryPlaces
<1>6. \A t \in Undoable : t \in Steps
  BY DEF Undoable
<1>7. CASE clean
  <2>1. {l.step : l \in dlq} = {}
    BY <1>2, <1>7
  <2> QED
    BY <1>1, <1>3, <1>4, <1>5, <1>6, <1>7, <2>1 DEF S!Next, S!Abort, S!Standing
<1>8. CASE ~clean
  <2>1. {l.step : l \in dlq} # {}
    BY <1>2, <1>8
  <2> QED
    BY <1>1, <1>3, <1>4, <1>5, <1>6, <1>8, <2>1 DEF S!Next, S!EndInconsistent, S!Standing
<1> QED
  BY <1>7, <1>8

\* Every step of the run is a step of the saga, or none.
LEMMA SagaStep ==
  ASSUME Orderly, SagaInv, SagaInv', [Next]_vars
  PROVE  [S!Next]_S!sagaVars
<1> USE DEF durable, world
<1>1. Truthful /\ UnwindsOnce /\ ResumedOnly
  BY DEF Orderly, UnwindsOnce, ResumedOnly
<1>2. CASE StepForward /\ ~(\E o \in Outcomes : Execute(o))
                       /\ pc' \in ForwardPlaces
  <2>1. UNCHANGED <<eff, undone, dlq>> /\ pc \in ForwardPlaces
    BY <1>2
    DEF ForwardPlaces, StepForward, SkipCommitted, DeadlinePasses, Complete, ResolveApproval,
        NoApprovalNeeded, ReuseResult, ClaimKey, Admit, FailFast, MarkRunning, MissingAdapter,
        PostconditionPasses, PostconditionFails, RecordSuccess, MarkUnknown, QueryFinds,
        QueryFindsNothing, QueryUndetermined, Retry, GiveUpForward, GiveUpUnwinding, HandleFailure,
        EscalateForward
  <2> QED
    BY <1>2, <2>1, NoSagaStep
<1>3. CASE \E o \in Outcomes : Execute(o)
  BY <1>1, <1>3, ActingIsAct
<1>4. CASE StepForward /\ ~(\E o \in Outcomes : Execute(o)) /\ pc' \notin ForwardPlaces
  <2>1. \/ DeadlinePasses \/ ResolveApproval("denied") \/ FailFast \/ MissingAdapter
        \/ GiveUpUnwinding \/ Complete \/ EscalateForward
    BY <1>4
    DEF ForwardPlaces, StepForward, SkipCommitted, ResolveApproval, Granted, NoApprovalNeeded,
        ReuseResult, ClaimKey, MarkCompleted, Admit, MarkRunning, PostconditionPasses,
        PostconditionFails, RecordSuccess, MarkUnknown, QueryFinds, QueryFindsNothing,
        QueryUndetermined, Retry, GiveUpForward, HandleFailure
  <2> QED
    BY <2>1, TurningIsTurnBack, EndingForward
<1>5. CASE \E o \in Outcomes : UndoExecute(o)
  BY <1>1, <1>5, UndoingIsUndo
<1>6. CASE DeadLetter \/ FinishRecovery
  BY <1>6, FilingIsLeave, EndingBackward
<1>7. CASE StepBackward /\ ~(DeadLetter \/ FinishRecovery \/ \E o \in Outcomes : UndoExecute(o))
  <2>1. UNCHANGED <<eff, undone, dlq>> /\ pc \in RecoveryPlaces /\ pc' \in RecoveryPlaces
    BY <1>7
    DEF RecoveryPlaces, StepBackward, Recover, UndoBlocked, UndoStart, UndoMark, UndoSucceeds,
        UndoFails, NextAction
  <2> QED
    BY <2>1, NoSagaStep
<1>8. CASE RunWorkflow \/ ResumeWorkflow \/ Crash \/ Reopen \/ Reconcile
  <2>1. /\ UNCHANGED <<eff, undone, dlq>>
        /\ pc \in ForwardPlaces \cup {"idle", "down"} /\ pc' \in ForwardPlaces \cup {"idle", "down"}
    BY <1>1, <1>8
    DEF UnwindsOnce, ForwardPlaces, RunWorkflow, ResumeWorkflow, NewSession, Crash, Reopen,
        LoseProcess, Reconcile, ReconcileRow, ReconcileUndoRow
  <2> QED
    BY <2>1, NoSagaStep
<1>9. CASE Land
  BY <1>9 DEF Land, LandEffect, LandUndo, SagaInv, Ownership, EffectsHaveRows
<1>10. CASE UNCHANGED vars
  <2>1. UNCHANGED <<eff, undone, dlq, pc, run>>
    BY <1>10 DEF vars
  <2>2. Course' = Course
    BY <2>1 DEF Course
  <2>3. \A s \in Steps : WorldOf(s)' = WorldOf(s)
    BY <2>1 DEF WorldOf, Stands, Acted
  <2> QED
    BY <2>1, <2>2, <2>3 DEF S!sagaVars
<1> QED
  BY <1>2, <1>3, <1>4, <1>5, <1>6, <1>7, <1>8, <1>9, <1>10 DEF Next, CoordinatorStep, StepForward

\* THEOREM: such a run implements the saga, over any number of crashes and resumes.
THEOREM SagaImplemented ==
  ASSUME Orderly
  PROVE  Spec => ImplementsSaga
<1>1. Init => S!Init
  BY DEF Init, S!Init, S!Steps, Steps, WorldOf, Stands, Acted, Course, RecoveryPlaces
<1>2. SagaInv /\ SagaInv' /\ [Next]_vars => [S!Next]_S!sagaVars
  BY SagaStep
<1> QED
  BY SagaInvariant, <1>1, <1>2, PTL DEF Spec, ImplementsSaga, S!Spec

\* THEOREM: so does the run with its audit trail, which is what the reports are made of.
THEOREM TrailImplementsSaga ==
  ASSUME Orderly
  PROVE  TrailSpec => ImplementsSaga
BY TrailImplementsCoordinator, SagaImplemented

------------------------------------------------------------------------------
(* Events and lists of events *)

\* Joining short lists.
LEMMA Joined ==
  ASSUME NEW a, NEW b, NEW c
  PROVE  <<a>> \o <<b>> = <<a, b>> /\ <<a, b>> \o <<c>> = <<a, b, c>>
<1> DEFINE T == {a, b, c}
<1>1. /\ <<a>> \in Seq(T) /\ <<b>> \in Seq(T) /\ <<c>> \in Seq(T) /\ <<a, b>> \in Seq(T)
      /\ <<a, b, c>> \in Seq(T)
  OBVIOUS
<1> HIDE DEF T
<1>2. ASSUME NEW s, NEW t, s = <<a>> \o <<b>>, t = <<a, b>> PROVE s = t
  <2>1. /\ s \in Seq(T) /\ Len(s) = 2 /\ s[1] = a /\ s[2] = b
        /\ t \in Seq(T) /\ Len(t) = 2 /\ t[1] = a /\ t[2] = b
    BY <1>1, <1>2, ConcatProperties
  <2>2. \A i \in 1..Len(s) : s[i] = t[i]
    BY <2>1
  <2> QED
    BY <2>1, <2>2, SeqEqual
<1>3. ASSUME NEW s, NEW t, s = <<a, b>> \o <<c>>, t = <<a, b, c>> PROVE s = t
  <2>1. /\ s \in Seq(T) /\ Len(s) = 3 /\ s[1] = a /\ s[2] = b /\ s[3] = c
        /\ t \in Seq(T) /\ Len(t) = 3 /\ t[1] = a /\ t[2] = b /\ t[3] = c
    BY <1>1, <1>3, ConcatProperties
  <2>2. \A i \in 1..Len(s) : s[i] = t[i]
    BY <2>1
  <2> QED
    BY <2>1, <2>2, SeqEqual
<1> QED
  BY <1>2, <1>3

\* Joining an empty list to another gives the other.
LEMMA JoinedNone ==
  ASSUME NEW a
  PROVE  <<a>> \o <<>> = <<a>> /\ <<>> \o <<a>> = <<a>>
<1>1. <<a>> \in Seq({a})
  OBVIOUS
<1> QED
  BY <1>1, ConcatEmptySeq

\* Every event the coordinator writes is one.
LEMMA EventsTyped ==
  /\ \A kind \in Written, s \in Steps : Event(kind, s) \in Events
  /\ \A kind \in Written : RunEvent(kind) \in Events
  /\ \A s \in Steps, verdict \in {"success", "committed", "failed", "not_found", "unknown"} :
       Resolved(s, verdict) \in Events
<1>1. 0 \in 0..N /\ \A s \in Steps : s \in 0..N
  BY PlanAssumption DEF Steps
<1>2. "RECONCILIATION_RESULT" \in Written
  BY DEF Written
<1> QED
  BY <1>1, <1>2 DEF Event, RunEvent, Resolved, Events

\* Lists of up to three events.
LEMMA ListsTyped ==
  /\ <<>> \in Seq(Events)
  /\ \A e \in Events : <<e>> \in Seq(Events)
  /\ \A e, f \in Events : <<e, f>> \in Seq(Events)
  /\ \A e, f, g \in Events : <<e, f, g>> \in Seq(Events)
OBVIOUS

\* What is announced before a tool is called.
LEMMA AnnouncementIs ==
  Announcement =
    IF cur = Pivot
    THEN <<Event("ACTION_INTENT_CREATED", cur), Event("PIVOT_REACHED", cur), Event("ACTION_START", cur)>>
    ELSE <<Event("ACTION_INTENT_CREATED", cur), Event("ACTION_START", cur)>>
<1> DEFINE i == Event("ACTION_INTENT_CREATED", cur)
           p == Event("PIVOT_REACHED", cur)
           a == Event("ACTION_START", cur)
<1>1. Announcement = <<i>> \o (IF cur = Pivot THEN <<p>> ELSE <<>>) \o <<a>>
  BY DEF Announcement
<1> HIDE DEF i, p, a
<1>2. Announcement = IF cur = Pivot THEN <<i, p, a>> ELSE <<i, a>>
  BY <1>1, Joined, JoinedNone
<1> QED
  BY <1>2 DEF i, p, a

\* An event leaves a frame of the replay.
LEMMA FrameTyped ==
  ASSUME NEW f \in R!Frames, NEW e \in Events
  PROVE  R!Apply(f, e) \in R!Frames
<1>1. R!WorkflowStateAfter(f.workflow_state, e) \in R!WorkflowStates
  BY DEF R!Frames, R!WorkflowStates, R!WorkflowStateAfter
<1>2. \A s \in Steps : R!StatusAfter(f.status[s], e) \in R!StepStatuses
  BY DEF R!Frames, R!StepStatuses, R!StatusAfter, R!Reconciled, R!Skipped
<1>3. \A s \in Steps : R!ApprovalAfter(f.approval[s], e) \in R!ApprovalStates
  BY DEF R!Frames, R!ApprovalStates, R!ApprovalAfter
<1>4. f.side_effects + R!SideEffectsOf(e) \in Nat
  BY DEF R!Frames, R!SideEffectsOf
<1>5. (f.pivot_crossed \/ e.event = "PIVOT_REACHED") \in BOOLEAN
  OBVIOUS
<1>6. f.status \in [Steps -> R!StepStatuses] /\ f.approval \in [Steps -> R!ApprovalStates]
  BY DEF R!Frames
<1> QED
  BY <1>1, <1>2, <1>3, <1>4, <1>5, <1>6 DEF R!Frames, R!Apply

\* The elements of a short list.
LEMMA Elements ==
  ASSUME NEW q
  PROVE  /\ q = <<>> => {q[i] : i \in DOMAIN q} = {}
         /\ \A e : q = <<e>> => {q[i] : i \in DOMAIN q} = {e}
         /\ \A e, f : q = <<e, f>> => {q[i] : i \in DOMAIN q} = {e, f}
         /\ \A e, f, g : q = <<e, f, g>> => {q[i] : i \in DOMAIN q} = {e, f, g}
<1>1. ASSUME NEW e, q = <<e>> PROVE {q[i] : i \in DOMAIN q} = {e}
  <2>1. DOMAIN q = {1} /\ q[1] = e
    BY <1>1
  <2> QED
    BY <2>1
<1>2. ASSUME NEW e, NEW f, q = <<e, f>> PROVE {q[i] : i \in DOMAIN q} = {e, f}
  <2>1. DOMAIN q = {1, 2} /\ q[1] = e /\ q[2] = f
    BY <1>2
  <2> QED
    BY <2>1
<1>3. ASSUME NEW e, NEW f, NEW g, q = <<e, f, g>> PROVE {q[i] : i \in DOMAIN q} = {e, f, g}
  <2>1. DOMAIN q = {1, 2, 3} /\ q[1] = e /\ q[2] = f /\ q[3] = g
    BY <1>3
  <2> QED
    BY <2>1
<1>4. q = <<>> => {q[i] : i \in DOMAIN q} = {}
  OBVIOUS
<1> QED
  BY <1>1, <1>2, <1>3, <1>4

\* Appending takes the first event owed.
LEMMA Appending ==
  ASSUME TrailTypeOK, Append1
  PROVE  /\ UNCHANGED <<vars, executions, compensations, recovering>>
         /\ \E e \in Owing : /\ frame' = R!Apply(frame, e) /\ logged' = Scanned(e)
                             /\ Owing = Owing' \cup {e}
                             /\ e = owed[1]
         /\ owed' \in Seq(Events) /\ Len(owed') = Len(owed) - 1
         /\ \A i \in DOMAIN owed' : i + 1 \in DOMAIN owed /\ owed'[i] = owed[i + 1]
<1>1. owed \in Seq(Events) /\ owed # <<>>
  BY DEF TrailTypeOK, Append1
<1>2. Head(owed) = owed[1] /\ owed' = Tail(owed)
  BY <1>1 DEF Append1
<1>3. /\ owed' \in Seq(Events) /\ Len(owed') = Len(owed) - 1
      /\ \A i \in 1..Len(owed') : owed'[i] = owed[i + 1]
  BY <1>1, <1>2, HeadTailProperties
<1>4. /\ DOMAIN owed = 1..Len(owed) /\ DOMAIN owed' = 1..Len(owed')
      /\ Len(owed) \in Nat /\ Len(owed') \in Nat /\ Len(owed) # 0
  BY <1>1, <1>3, LenProperties, EmptySeq
<1>5. \A i \in DOMAIN owed' : i + 1 \in DOMAIN owed /\ owed'[i] = owed[i + 1]
  BY <1>3, <1>4
<1>6. \A i \in DOMAIN owed : i = 1 \/ (i - 1 \in DOMAIN owed' /\ owed'[i - 1] = owed[i])
  BY <1>3, <1>4
<1>7. 1 \in DOMAIN owed
  BY <1>4
<1>8. Owing = Owing' \cup {owed[1]}
  BY <1>5, <1>6, <1>7 DEF Owing
<1>9. UNCHANGED <<vars, executions, compensations, recovering>>
  BY DEF Append1, records
<1> QED
  BY <1>2, <1>3, <1>5, <1>8, <1>9 DEF Append1

------------------------------------------------------------------------------
(* Types of the trail *)

\* What every step but an append owes.
LEMMA OwedTyped ==
  ASSUME TypeOK, TrailTypeOK, [TrailNext]_allVars
  PROVE  owed' \in Seq(Events)
<1> USE DEF TrailTypeOK
<1>1. CASE Append1
  BY <1>1, Appending
<1>2. CASE UNCHANGED owed \/ owed' = <<>>
  BY <1>2, ListsTyped
<1>3. CASE \E kind \in {"WORKFLOW_START", "WORKFLOW_RESUMED", "CRASH_RECOVERY_COMPLETE",
                         "WORKFLOW_COMPLETE", "WORKFLOW_ABORTED", "WORKFLOW_INCONSISTENT",
                         "COMPENSATION_PLANNED", "CRASH_RECOVERY_START"} : owed' = <<RunEvent(kind)>>
  BY <1>3, ListsTyped, EventsTyped DEF Written, Kinds
<1>4. CASE \E kind \in {"STEP_SKIPPED_RESUME", "APPROVAL_REQUESTED", "APPROVAL_GRANTED",
                         "APPROVAL_DENIED", "POST_CONDITION_PASS", "POST_CONDITION_FAIL",
                         "ACTION_COMPLETE", "ACTION_FAILED", "COMPENSATION_COMPLETE"}, s \in Steps :
             owed' = <<Event(kind, s)>>
  BY <1>4, ListsTyped, EventsTyped DEF Written, Kinds
<1>5. CASE owed' = <<RunEvent("CRASH_RECOVERY_START"), RunEvent("RECONCILIATION_START")>>
  BY <1>5, ListsTyped, EventsTyped DEF Written, Kinds
<1>6. CASE owed' = Announcement /\ cur \in Steps
  BY <1>6, ListsTyped, EventsTyped, AnnouncementIs DEF Written, Kinds
<1>7. CASE \E s \in Steps, v \in {"success", "committed", "failed", "not_found", "unknown"} :
             owed' = <<Resolved(s, v)>>
  BY <1>7, ListsTyped, EventsTyped
<1>8. CASE owed' = <<Resolved(cur, "success"), Event("ACTION_COMPLETE", cur)>> /\ cur \in Steps
  BY <1>8, ListsTyped, EventsTyped DEF Written
<1>9. CASE owed' = Doubt(cur) /\ cur \in Steps
  BY <1>9, ListsTyped, EventsTyped DEF Doubt, Written, Kinds
<1>10. CASE \/ Run \/ RunAgain \/ FinishReconciliation \/ Resume \/ Finish \/ Escalate
            \/ FinishUnwinding
  BY <1>3, <1>10 DEF Run, RunAgain, FinishReconciliation, Resume, Finish, Escalate,
     FinishUnwinding, Owes
<1>11. CASE StartRecovery
  <2>1. owed' = <<RunEvent("CRASH_RECOVERY_START")>>
        \/ owed' = <<RunEvent("CRASH_RECOVERY_START"), RunEvent("RECONCILIATION_START")>>
    BY <1>11, Joined, JoinedNone DEF StartRecovery
  <2> QED
    BY <2>1, <1>3, <1>5
<1>12. CASE Unwind
  BY <1>12, <1>2, <1>3 DEF Unwind, Owes
<1>13. CASE \E s \in Steps, k \in Sessions : RecoverRow(s, k) \/ RecoverUndoRow(s, k)
  BY <1>13, <1>2, <1>7 DEF RecoverRow, RecoverUndoRow, Owes, Silent
<1>14. CASE \/ TimeOut \/ PassGate \/ Reuse \/ Claim \/ StopAtBreaker \/ StopAtAdapter \/ Judge
            \/ Undo \/ UndoGivenUp \/ ComeBack \/ Die \/ RecoveryDies \/ Landing \/ UNCHANGED allVars
  BY <1>14, <1>2 DEF TimeOut, PassGate, Reuse, Claim, StopAtBreaker, StopAtAdapter, Judge,
            Undo, UndoGivenUp, ComeBack, Die, RecoveryDies, Landing, allVars, trailVars, Owes,
            Silent
<1>15. CASE Skip \/ Request \/ (\E d \in {"granted", "denied"} : Decide(d))
  <2>1. cur \in Steps
    BY <1>15, SkipTyped, PlanAssumption DEF Skip, SkipCommitted, Request, Decide, ResolveApproval
  <2> QED
    BY <1>15, <2>1, <1>4 DEF Skip, Request, Decide, Owes
<1>16. CASE Announce
  <2>1. cur \in Steps
    BY <1>16, AtStep DEF Announce, MarkRunning, ForwardPlaces
  <2> QED
    BY <1>16, <2>1, <1>6 DEF Announce, Owes
<1>17. CASE \E o \in Outcomes : Call(o)
  <2>1. cur \in Steps
    BY <1>17, AtStep DEF Call, Execute, ForwardPlaces
  <2> QED
    BY <1>17, <2>1, <1>2, <1>4 DEF Call, Owes
<1>18. CASE Succeed
  <2>1. cur \in Steps
    BY <1>18, AtStep DEF Succeed, RecordSuccess, ForwardPlaces
  <2>2. owed' = <<Event("ACTION_COMPLETE", cur)>>
        \/ owed' = <<Resolved(cur, "success"), Event("ACTION_COMPLETE", cur)>>
    BY <1>18, Joined, JoinedNone DEF Succeed, Owes
  <2> QED
    BY <2>1, <2>2, <1>4, <1>8
<1>19. CASE LoseTrack
  <2>1. cur \in Steps
    BY <1>19, AtStep DEF LoseTrack, MarkUnknown, ForwardPlaces
  <2> QED
    BY <1>19, <2>1, <1>9 DEF LoseTrack, Owes
<1>20. CASE Query
  <2>1. cur \in Steps
    BY <1>20, AtStep DEF Query, QueryFinds, QueryFindsNothing, QueryUndetermined, ForwardPlaces
  <2> QED
    BY <1>20, <2>1, <1>2, <1>7 DEF Query, Owes, Silent
<1>21. CASE TryAgain \/ GiveUp
  <2>1. cur \in Steps
    BY <1>21, AtStep DEF TryAgain, GiveUp, Retry, GiveUpForward, GiveUpUnwinding, HandleFailure,
       ForwardPlaces
  <2> QED
    BY <1>21, <2>1, <1>2, <1>4 DEF TryAgain, GiveUp, Owes, Failure
<1>22. CASE UndoDone
  <2>1. undoing \in Steps
    BY <1>22, Unwinding DEF UndoDone, UndoSucceeds
  <2> QED
    BY <1>22, <2>1, <1>4 DEF UndoDone, Owes
<1> QED
  BY <1>1, <1>10, <1>11, <1>12, <1>13, <1>14, <1>15, <1>16, <1>17, <1>18, <1>19, <1>20, <1>21, <1>22
  DEF TrailNext, Working

\* Only an append changes what the replay and the scorer see.
LEMMA OnlyAppends == [TrailNext]_allVars => Append1 \/ UNCHANGED <<frame, logged>>
BY DEF TrailNext, Working, Run, RunAgain, StartRecovery, FinishReconciliation, RecoveryDies, Resume,
       RecoverRow, RecoverUndoRow, Die, ComeBack, Landing, Skip, TimeOut, Finish, Request, PassGate,
       Decide, Reuse, Claim, StopAtBreaker, Announce, StopAtAdapter, Call, Judge, Succeed,
       LoseTrack,
       Query, TryAgain, GiveUp, Escalate, Unwind, Undo, UndoDone, UndoGivenUp, FinishUnwinding,
       Owes, Silent, trailVars, allVars

\* Nobody but death and the world steps in before the owed events are on disk.
LEMMA InTurn ==
  [TrailNext]_allVars =>
    \/ owed = <<>>
    \/ Append1 \/ Die \/ RecoveryDies
    \/ (Landing \/ UNCHANGED allVars) /\ UNCHANGED trailVars
BY DEF TrailNext, Working, Run, RunAgain, StartRecovery, FinishReconciliation, RecoveryDies, Resume,
       RecoverRow, RecoverUndoRow, Die, ComeBack, Landing, Skip, TimeOut, Finish, Request, PassGate,
       Decide, Reuse, Claim, StopAtBreaker, Announce, StopAtAdapter, Call, Judge, Succeed,
       LoseTrack,
       Query, TryAgain, GiveUp, Escalate, Unwind, Undo, UndoDone, UndoGivenUp, FinishUnwinding,
       Owes, Silent, trailVars, allVars

\* What a step may do to the records: open, rewrite one, or lose all.
LEMMA RecordsTyped ==
  ASSUME TypeOK, TrailTypeOK, [TrailNext]_allVars
  PROVE  /\ executions' \in [Steps -> Executions]
         /\ compensations' \in [Steps -> {"none", "success", "failure"}]
<1> DEFINE Comps == [Steps -> {"none", "success", "failure"}]
<1> USE DEF TrailTypeOK
<1>1. NotReached \in Executions /\ Reached \in Executions
      /\ [Reached EXCEPT !.outcome = "success"] \in Executions
  BY DEF NotReached, Reached, Executions
<1>2. CASE NoRecords
  BY <1>1, <1>2 DEF NoRecords
<1>3. CASE UNCHANGED records
  BY <1>3 DEF records
<1>4. CASE \/ Skip \/ Request \/ PassGate \/ Reuse \/ StopAtBreaker \/ StopAtAdapter \/ Succeed
           \/ LoseTrack \/ Query \/ GiveUp
  <2>1. UNCHANGED compensations
    BY <1>4 DEF Skip, Request, PassGate, Reuse, StopAtBreaker, StopAtAdapter, Succeed, LoseTrack,
       Query, GiveUp
  <2>2. CASE Skip \/ Request \/ PassGate
    BY <1>1, <2>1, <2>2 DEF Skip, Request, PassGate
  <2>3. CASE Succeeded
    BY <2>1, <2>3 DEF Succeeded, Executions
  <2>4. CASE Failed
    BY <2>1, <2>4 DEF Failed, Executions
  <2>5. CASE executions' = [executions EXCEPT ![cur].outcome = "unknown"]
    BY <2>1, <2>5 DEF Executions
  <2>6. CASE executions' = [executions EXCEPT ![cur].reconciled = TRUE]
    BY <2>1, <2>6 DEF Executions
  <2>7. \/ Skip \/ Request \/ PassGate \/ Succeeded \/ Failed
        \/ executions' = [executions EXCEPT ![cur].outcome = "unknown"]
        \/ executions' = [executions EXCEPT ![cur].reconciled = TRUE]
    BY <1>4 DEF Reuse, StopAtBreaker, StopAtAdapter, Succeed, LoseTrack, Query, GiveUp
  <2> QED
    BY <2>2, <2>3, <2>4, <2>5, <2>6, <2>7
<1>5. CASE \E o \in Outcomes : Call(o)
  <2>1. PICK o \in Outcomes : Call(o)
    BY <1>5
  <2>2. cur \in Steps
    BY <2>1, AtStep DEF Call, Execute, ForwardPlaces
  <2>3. Verdict(o.sees) \in {"none", "passed", "failed"}
    BY <2>2 DEF Verdict, Executions
  <2> QED
    BY <2>1, <2>3 DEF Call, Executions
<1>6. CASE Escalate \/ Unwind \/ UndoDone \/ UndoGivenUp
  <2>1. UNCHANGED executions
    BY <1>6 DEF Escalate, Unwind, UndoDone, UndoGivenUp
  <2>2. compensations' \in Comps
    BY <1>6 DEF Escalate, Unwind, UndoDone, UndoGivenUp
  <2> QED
    BY <2>1, <2>2
<1> QED
  BY <1>2, <1>3, <1>4, <1>5, <1>6 DEF TrailNext, Working, Run, RunAgain, StartRecovery,
     FinishReconciliation, RecoveryDies, Resume,
       RecoverRow, RecoverUndoRow, Die, ComeBack, Landing, TimeOut, Finish,
       Decide, Claim, Announce, Judge, TryAgain, Undo, FinishUnwinding,
       Append1, trailVars, allVars, records

\* THEOREM: the trail's types.
THEOREM TrailTypeCorrect == TrailSpec => []TrailTypeOK
<1>1. TrailInit => TrailTypeOK
  <2> SUFFICES ASSUME TrailInit PROVE TrailTypeOK
    OBVIOUS
  <2>1. R!EmptyFrame \in R!Frames
    BY DEF R!EmptyFrame, R!Frames, R!WorkflowStates, R!StepStatuses, R!ApprovalStates
  <2>2. NotReached \in Executions
    BY DEF NotReached, Executions
  <2> QED
    BY <2>1, <2>2, ListsTyped DEF TrailInit, TrailTypeOK
<1>2. TypeOK /\ TrailTypeOK /\ [TrailNext]_allVars => TrailTypeOK'
  <2> SUFFICES ASSUME TypeOK, TrailTypeOK, [TrailNext]_allVars PROVE TrailTypeOK'
    OBVIOUS
  <2>1. frame' \in R!Frames /\ logged'.kinds \subseteq Kinds /\ logged'.early \in BOOLEAN
    <3>1. CASE Append1
      <4>1. PICK e \in Owing : frame' = R!Apply(frame, e) /\ logged' = Scanned(e)
        BY <3>1, Appending
      <4>2. e \in Events
        BY LenProperties DEF TrailTypeOK, Owing
      <4> QED
        BY <4>1, <4>2, FrameTyped DEF TrailTypeOK, Scanned
    <3>2. CASE UNCHANGED <<frame, logged>>
      BY <3>2 DEF TrailTypeOK
    <3> QED
      BY <3>1, <3>2, OnlyAppends
  <2>2. recovering' \in {"no", "yes", "done"}
    BY DEF TrailTypeOK, TrailNext, Working, Run, RunAgain, StartRecovery, FinishReconciliation,
           RecoveryDies, Resume,
       RecoverRow, RecoverUndoRow, Die, ComeBack, Landing, Skip, TimeOut, Finish, Request, PassGate,
       Decide, Reuse, Claim, StopAtBreaker, Announce, StopAtAdapter, Call, Judge, Succeed,
       LoseTrack,
       Query, TryAgain, GiveUp, Escalate, Unwind, Undo, UndoDone, UndoGivenUp, FinishUnwinding,
       Owes, Silent, Append1, trailVars, allVars
  <2> QED
    BY <2>1, <2>2, OwedTyped, RecordsTyped DEF TrailTypeOK
<1> QED
  BY <1>1, <1>2, TrailImplementsCoordinator, TypeCorrect, PTL DEF TrailSpec

------------------------------------------------------------------------------
(* The records keep up with the run *)

\* Nothing happens to the records while the process stands where it is.
LEMMA StandsStill ==
  ASSUME \/ Append1 \/ StartRecovery \/ FinishReconciliation \/ RecoveryDies \/ Landing
         \/ UNCHANGED allVars
         \/ \E s \in Steps, k \in Sessions : RecoverRow(s, k) \/ RecoverUndoRow(s, k)
  PROVE  UNCHANGED <<pc, run, cur, session, order, src, executions, compensations, dlq, todo,
                     undoing, approvals, pivotCrossed, skip, reuse>>
<1>1. Append1 \/ StartRecovery \/ FinishReconciliation \/ RecoveryDies =>
        UNCHANGED <<vars, executions, compensations>>
  BY DEF Append1, StartRecovery, FinishReconciliation, RecoveryDies, records
<1>2. Landing \/ UNCHANGED allVars
      => UNCHANGED <<executions, compensations>> /\ (Land \/ UNCHANGED vars)
  BY DEF Landing, allVars, trailVars
<1>3. (\E s \in Steps, k \in Sessions : RecoverRow(s, k) \/ RecoverUndoRow(s, k)) =>
        UNCHANGED <<executions, compensations>> /\ Reconcile
  BY DEF RecoverRow, RecoverUndoRow, records, Reconcile
<1> QED
  BY <1>1, <1>2, <1>3
  DEF Reconcile, Land, ReconcileRow, ReconcileUndoRow, LandEffect, LandUndo, vars, progress,
      completed, durable, unwinding

\* The step the loop leaves is on record as successful.
LEMMA Advancing ==
  ASSUME TypeOK, TrailTypeOK, Skip \/ Reuse \/ Succeed
  PROVE  /\ pc \in {"loop", "claim", "record"} /\ pc' = "loop" /\ cur \in Steps /\ cur' = cur + 1
         /\ UNCHANGED compensations
         /\ executions'[cur].outcome = "success"
         /\ \A s \in Steps : s # cur => executions'[s] = executions[s]
<1>1. CASE Skip
  <2>1. cur \in Steps
    BY <1>1, SkipTyped DEF Skip, SkipCommitted
  <2> QED
    BY <1>1, <2>1 DEF Skip, SkipCommitted, TrailTypeOK, Reached, NotReached
<1>2. CASE Reuse \/ Succeed
  <2>1. cur \in Steps
    BY <1>2, AtStep DEF Reuse, ReuseResult, Succeed, RecordSuccess, ForwardPlaces
  <2>2. /\ pc \in {"claim", "record"} /\ pc' = "loop" /\ cur' = cur + 1 /\ UNCHANGED compensations
        /\ Succeeded
    BY <1>2 DEF Reuse, ReuseResult, Succeed, RecordSuccess, MarkCompleted
  <2>3. /\ executions'[cur].outcome = "success"
        /\ \A s \in Steps : s # cur => executions'[s] = executions[s]
    BY <2>1, <2>2 DEF Succeeded, TrailTypeOK, Executions
  <2> QED
    BY <2>1, <2>2, <2>3
<1> QED
  BY <1>1, <1>2

\* A step that fails is told so on record, whoever fails it.
LEMMA Failing ==
  ASSUME TypeOK, TrailTypeOK, StopAtBreaker \/ StopAtAdapter \/ GiveUp
  PROVE  /\ pc \in ForwardPlaces \ {"loop", "escalate"} /\ pc' \in {"recover", "escalate"}
         /\ cur \in Steps /\ UNCHANGED <<cur, compensations>>
         /\ executions'[cur].outcome = "failure"
         /\ \A s \in Steps : s # cur => executions'[s] = executions[s]
<1>1. cur \in Steps
  BY AtStep DEF StopAtBreaker, FailFast, StopAtAdapter, MissingAdapter, GiveUp, GiveUpForward,
     GiveUpUnwinding, HandleFailure, ForwardPlaces
<1>2. /\ pc \in ForwardPlaces \ {"loop", "escalate"} /\ pc' \in {"recover", "escalate"}
      /\ UNCHANGED <<cur, compensations>> /\ Failed
  BY DEF StopAtBreaker, FailFast, StopAtAdapter, MissingAdapter, GiveUp, GiveUpForward,
         GiveUpUnwinding, HandleFailure, ForwardPlaces, progress
<1>3. /\ executions'[cur].outcome = "failure"
      /\ \A s \in Steps : s # cur => executions'[s] = executions[s]
  BY <1>1, <1>2 DEF Failed, TrailTypeOK, Executions
<1> QED
  BY <1>1, <1>2, <1>3

\* A call, or the query after it, decides nothing on record yet.
LEMMA Undecided ==
  ASSUME TypeOK, TrailTypeOK, (\E o \in Outcomes : Call(o)) \/ LoseTrack \/ Query
  PROVE  /\ pc \in {"execute", "unknown", "query"} /\ pc' \in ForwardPlaces \ {"loop", "escalate"}
         /\ cur \in Steps /\ UNCHANGED <<cur, compensations>>
         /\ executions'[cur].outcome \in {executions[cur].outcome, "unknown"}
         /\ \A s \in Steps : s # cur => executions'[s] = executions[s]
<1>1. cur \in Steps
  BY AtStep DEF Call, Execute, LoseTrack, MarkUnknown, Query, QueryFinds, QueryFindsNothing,
     QueryUndetermined, ForwardPlaces
<1>2. CASE \E o \in Outcomes : Call(o)
  <2>1. PICK o \in Outcomes : Call(o)
    BY <1>2
  <2>2. pc = "execute" /\ pc' \in {"verify", "unknown", "failed"}
        /\ UNCHANGED <<cur, compensations>>
        /\ executions' = [executions EXCEPT ![cur].verified = Verdict(o.sees)]
    BY <2>1, OutcomeClassified DEF Call, Execute
  <2> QED
    BY <1>1, <2>2 DEF TrailTypeOK, Executions, ForwardPlaces
<1>3. CASE LoseTrack
  BY <1>1, <1>3 DEF LoseTrack, MarkUnknown, progress, TrailTypeOK, Executions, ForwardPlaces
<1>4. CASE Query
  <2>1. pc = "query" /\ pc' \in {"record", "admit", "unresolved"}
        /\ UNCHANGED <<cur, compensations>>
        /\ executions' = [executions EXCEPT ![cur].reconciled = TRUE]
    BY <1>4 DEF Query, QueryFinds, QueryFindsNothing, QueryUndetermined, progress
  <2> QED
    BY <1>1, <2>1 DEF TrailTypeOK, Executions, ForwardPlaces
<1> QED
  BY <1>2, <1>3, <1>4

\* Every step decides the records of the steps the loop passes.
LEMMA RecordsFollowStep ==
  ASSUME TypeOK, TrailTypeOK, RecordsFollow, [TrailNext]_allVars
  PROVE  RecordsFollow'
<1> USE DEF RecordsFollow, Started, Stopped
<1>0. cur \in Nat /\ \A s \in Steps : s \in Nat
  BY Numbers
<1>1. CASE \/ Append1 \/ StartRecovery \/ FinishReconciliation \/ RecoveryDies \/ Landing
           \/ UNCHANGED allVars
           \/ \E s \in Steps, k \in Sessions : RecoverRow(s, k) \/ RecoverUndoRow(s, k)
  BY <1>1, StandsStill
<1>2. CASE Die \/ ComeBack
  BY <1>2 DEF Die, Crash, ComeBack, Reopen, LoseProcess
<1>3. CASE Run \/ RunAgain \/ Resume
  <2>1. NoRecords /\ pc' = "loop" /\ cur' = 1
    BY <1>3 DEF Run, RunAgain, Resume, RunWorkflow, ResumeWorkflow, NewSession
  <2>2. \A s \in Steps : ~(s < 1)
    BY DEF Steps
  <2> QED
    BY <2>1, <2>2 DEF NoRecords, RecoveryPlaces, ForwardPlaces
<1>4. CASE Skip \/ Reuse \/ Succeed
  <2>1. /\ pc \in {"loop", "claim", "record"} /\ pc' = "loop" /\ cur \in Steps /\ cur' = cur + 1
        /\ executions'[cur].outcome = "success"
        /\ \A s \in Steps : s # cur => executions'[s] = executions[s]
    BY <1>4, Advancing
  <2> QED
    BY <1>0, <2>1 DEF RecoveryPlaces, ForwardPlaces
<1>5. CASE StopAtBreaker \/ StopAtAdapter \/ GiveUp
  <2>1. /\ pc \in ForwardPlaces \ {"loop", "escalate"} /\ pc' \in {"recover", "escalate"}
        /\ cur \in Steps /\ UNCHANGED cur
        /\ executions'[cur].outcome = "failure"
        /\ \A s \in Steps : s # cur => executions'[s] = executions[s]
    BY <1>5, Failing
  <2> QED
    BY <1>0, <2>1 DEF RecoveryPlaces, ForwardPlaces
<1>6. CASE (\E o \in Outcomes : Call(o)) \/ LoseTrack \/ Query
  <2>1. /\ pc \in {"execute", "unknown", "query"} /\ pc' \in ForwardPlaces \ {"loop", "escalate"}
        /\ cur \in Steps /\ UNCHANGED cur
        /\ executions'[cur].outcome \in {executions[cur].outcome, "unknown"}
        /\ \A s \in Steps : s # cur => executions'[s] = executions[s]
    BY <1>6, Undecided
  <2> QED
    BY <1>0, <2>1 DEF RecoveryPlaces, ForwardPlaces
<1>7. CASE Request \/ PassGate
  <2>1. /\ pc = "loop" /\ pc' \in {"loop", "claim"} /\ cur \in Steps /\ UNCHANGED cur
        /\ executions' = [executions EXCEPT ![cur] = Reached]
    BY <1>7, PlanAssumption DEF Request, PassGate, NoApprovalNeeded, vars, progress
  <2>2. Reached.outcome = "pending"
    BY DEF Reached, NotReached
  <2> QED
    BY <1>0, <2>1, <2>2 DEF RecoveryPlaces, ForwardPlaces, TrailTypeOK
<1>8. CASE TimeOut \/ \E d \in {"granted", "denied"} : Decide(d)
  <2>1. /\ pc = "loop" /\ pc' \in {"recover", "claim"} /\ cur \in Steps
        /\ UNCHANGED <<cur, executions>>
        /\ \/ executions[cur] = Reached
           \/ executions[cur] = NotReached /\ "deadline" \in Faults /\ pc' = "recover"
    BY <1>8, PlanAssumption DEF TimeOut, DeadlinePasses, Decide, ResolveApproval, records, progress
  <2>2. Reached.outcome = "pending"
    BY DEF Reached, NotReached
  <2> QED
    BY <1>0, <2>1, <2>2 DEF RecoveryPlaces, ForwardPlaces
<1>9. CASE Claim \/ Announce \/ Judge \/ TryAgain
  <2>1. /\ pc \in ForwardPlaces \ {"loop", "escalate"}
        /\ pc' \in ForwardPlaces \ {"loop", "escalate"} /\ UNCHANGED <<cur, executions>>
    BY <1>9 DEF Claim, ClaimKey, Admit, Announce, MarkRunning, Judge, PostconditionPasses,
       PostconditionFails, TryAgain, Retry, HandleFailure, records, progress, ForwardPlaces
  <2> QED
    BY <1>0, <2>1 DEF RecoveryPlaces, ForwardPlaces
<1>10. CASE Finish
  <2>1. pc' = "done" /\ UNCHANGED <<cur, executions>> /\ pc = "loop" /\ cur > N
    BY <1>10 DEF Finish, Complete, records, progress
  <2> QED
    BY <2>1, PlanAssumption, <1>0 DEF RecoveryPlaces, ForwardPlaces, Steps
<1>11. CASE Escalate
  <2>1. pc' = "done" /\ UNCHANGED <<cur, executions>> /\ pc = "escalate"
    BY <1>11 DEF Escalate, EscalateForward, progress
  <2> QED
    BY <2>1 DEF RecoveryPlaces, ForwardPlaces
<1>12. CASE Unwind \/ Undo \/ UndoDone \/ UndoGivenUp \/ FinishUnwinding
  <2>1. pc \in RecoveryPlaces /\ pc' \in RecoveryPlaces \cup {"done"} /\ UNCHANGED <<cur, executions>>
    BY <1>12 DEF Unwind, Undo, UndoDone, UndoGivenUp, FinishUnwinding, Recover, UndoBlocked,
       UndoStart, UndoMark, UndoExecute, UndoSucceeds, UndoFails, DeadLetter, NextAction,
       FinishRecovery, records, progress, RecoveryPlaces
  <2> QED
    BY <2>1 DEF RecoveryPlaces, ForwardPlaces
<1> QED
  BY <1>1, <1>2, <1>3, <1>4, <1>5, <1>6, <1>7, <1>8, <1>9, <1>10, <1>11, <1>12 DEF TrailNext,
     Working

\* Every step that ends the run gives it a verdict.
LEMMA EndsDecidedStep ==
  ASSUME TypeOK, EndsDecided, [Next]_vars
  PROVE  EndsDecided'
<1> USE DEF EndsDecided, Stopped
<1>1. CASE StepForward /\ pc' \in ForwardPlaces
  <2>1. pc \in ForwardPlaces /\ run' \in {run, "RUNNING"}
    BY <1>1
    DEF ForwardPlaces, StepForward, SkipCommitted, DeadlinePasses, Complete,
        ResolveApproval, NoApprovalNeeded, ReuseResult, ClaimKey, Admit, FailFast, MarkRunning,
        MissingAdapter, Execute,
        PostconditionPasses, PostconditionFails, RecordSuccess, MarkUnknown, QueryFinds,
        QueryFindsNothing, QueryUndetermined, Retry, GiveUpForward, GiveUpUnwinding, HandleFailure,
        EscalateForward
  <2> QED
    BY <1>1, <2>1 DEF ForwardPlaces, RecoveryPlaces
<1>2. CASE StepForward /\ pc' \notin ForwardPlaces
  <2>1. \/ DeadlinePasses \/ ResolveApproval("denied") \/ FailFast \/ MissingAdapter
        \/ GiveUpUnwinding \/ Complete \/ EscalateForward
    BY <1>2, OutcomeClassified
    DEF ForwardPlaces, StepForward, SkipCommitted, ResolveApproval, Granted, NoApprovalNeeded,
        ReuseResult, ClaimKey, MarkCompleted, Admit, MarkRunning, PostconditionPasses, Execute,
        PostconditionFails, RecordSuccess, MarkUnknown, QueryFinds, QueryFindsNothing,
        QueryUndetermined, Retry, GiveUpForward, HandleFailure
  <2>2. CASE Complete
    <3>1. pc' = "done" /\ run' = "COMPLETED" /\ UNCHANGED cur /\ cur > N
      BY <2>2 DEF Complete, progress
    <3>2. cur \notin Steps
      BY <3>1, Numbers, PlanAssumption DEF Steps
    <3> QED
      BY <3>1, <3>2 DEF ForwardPlaces, RecoveryPlaces
  <2>3. CASE EscalateForward
    BY <2>3, AtStep DEF EscalateForward, progress, ForwardPlaces
  <2>4. CASE DeadlinePasses \/ ResolveApproval("denied")
    <3>1. cur \in Steps /\ UNCHANGED cur /\ pc' = "recover"
          /\ run' \in {"TIMED_OUT", "WAITING_APPROVAL"}
      BY <2>4, PlanAssumption DEF DeadlinePasses, ResolveApproval, Granted, progress
    <3> QED
      BY <3>1 DEF ForwardPlaces, RecoveryPlaces
  <2>5. CASE FailFast \/ MissingAdapter \/ GiveUpUnwinding
    <3>1. cur \in Steps /\ run = "RUNNING" /\ UNCHANGED <<cur, run>> /\ pc' = "recover"
      BY <2>5, AtStep DEF FailFast, MissingAdapter, GiveUpUnwinding, HandleFailure, progress,
         ForwardPlaces
    <3> QED
      BY <3>1 DEF ForwardPlaces, RecoveryPlaces
  <2> QED
    BY <2>1, <2>2, <2>3, <2>4, <2>5
<1>3. CASE StepBackward
  <2>1. /\ pc \in RecoveryPlaces /\ UNCHANGED cur
        /\ \/ pc' \in RecoveryPlaces /\ run' \in {run, "RECOVERING"}
           \/ pc' = "done" /\ run' \in {"ABORTED", "INCONSISTENT"}
    BY <1>3
    DEF RecoveryPlaces, progress, StepBackward, Recover, UndoBlocked, UndoStart, UndoMark,
        UndoExecute, UndoSucceeds, UndoFails, DeadLetter, NextAction, FinishRecovery, FinalState
  <2>2. cur \in Steps /\ run # "COMPLETED" /\ cur' = cur
    BY <2>1 DEF RecoveryPlaces
  <2>3. run' # "COMPLETED" /\ pc' \notin ForwardPlaces
    BY <2>1, <2>2 DEF ForwardPlaces, RecoveryPlaces
  <2>4. pc' = "done" => run' \in {"ABORTED", "INCONSISTENT"}
    BY <2>1 DEF RecoveryPlaces
  <2> QED
    BY <2>2, <2>3, <2>4
<1>4. CASE RunWorkflow \/ ResumeWorkflow \/ Crash \/ Reopen
  BY <1>4 DEF RunWorkflow, ResumeWorkflow, NewSession, Crash, Reopen, LoseProcess, ForwardPlaces,
     RecoveryPlaces
<1>5. CASE Reconcile \/ Land \/ UNCHANGED vars
  <2>1. UNCHANGED <<pc, run, cur>>
    BY <1>5 DEF Reconcile, Land, ReconcileRow, ReconcileUndoRow, LandEffect, LandUndo, vars,
       progress
  <2> QED
    BY <2>1
<1> QED
  BY <1>1, <1>2, <1>3, <1>4, <1>5 DEF Next, CoordinatorStep

\* A compensation's row becomes final in the step that leaves it.
LEMMA UndoOpenStep ==
  ASSUME TypeOK, Bookkeeping, Accounted, UndoOpen, [Next]_vars
  PROVE  UndoOpen'
<1> USE DEF UndoOpen
<1>1. CASE \E s \in Steps : UndoStart(s)
  <2>1. PICK s \in Steps : UndoStart(s)
    BY <1>1
  <2>2. session \in Sessions /\ pc' = "undo_mark" /\ undoing' = s /\ UNCHANGED session
        /\ WriteUndoIntent(s, session)
    BY <2>1, Running DEF UndoStart
  <2>3. cwal'[s][session] = "PENDING"
    BY <2>2, WriteUndoIntentIs DEF TypeOK
  <2> QED
    BY <2>2, <2>3
<1>2. CASE UndoMark \/ \E status \in {"FAILED", "UNKNOWN"} : UndoFails(status)
  <2>1. /\ undoing \in Steps /\ session \in Sessions /\ UNCHANGED <<undoing, session>>
        /\ \E status \in {"COMPENSATING", "FAILED", "UNKNOWN"} : SetUndoRow(undoing, session, status)
    BY <1>2, Unwinding DEF UndoMark, UndoFails, unwinding
  <2>2. cwal'[undoing][session] # "COMPENSATED"
    BY <2>1, SetUndoRowIs DEF TypeOK
  <2> QED
    BY <2>1, <2>2
<1>3. CASE \E o \in Outcomes : UndoExecute(o)
  BY <1>3 DEF UndoExecute, unwinding, durable
<1>4. CASE UndoSucceeds \/ Recover \/ DeadLetter \/ FinishRecovery \/ StepForward
           \/ RunWorkflow \/ ResumeWorkflow \/ Crash \/ Reopen
  <2>1. pc' \notin {"undo_mark", "undo_execute", "undo_result", "letter"}
    BY <1>4, OutcomeClassified
    DEF UndoSucceeds, Recover, DeadLetter, NextAction, FinishRecovery,
        RunWorkflow, ResumeWorkflow, NewSession, Crash, Reopen, LoseProcess,
        StepForward, SkipCommitted, DeadlinePasses, Complete,
        ResolveApproval, NoApprovalNeeded, ReuseResult, ClaimKey, MarkCompleted, Admit, FailFast,
        MarkRunning, MissingAdapter, Execute,
        PostconditionPasses, PostconditionFails, RecordSuccess, MarkUnknown, QueryFinds,
        QueryFindsNothing, QueryUndetermined, Retry, GiveUpForward, GiveUpUnwinding, HandleFailure,
        EscalateForward
  <2> QED
    BY <2>1
<1>5. CASE Reconcile \/ Land \/ UNCHANGED vars
  BY <1>5 DEF Reconcile, Land, ReconcileRow, ReconcileUndoRow, LandEffect, LandUndo, vars,
     unwinding, durable
<1>6. CASE \E s \in Steps : UndoBlocked(s)
  <2>1. PICK s \in Steps : UndoBlocked(s)
    BY <1>6
  <2>2. pc = "undo" /\ s \in todo /\ undoing' = s /\ UNCHANGED <<session, cwal>>
    BY <2>1 DEF UndoBlocked, NextToUndo, durable
  <2>3. cwal[s][session] = "absent"
    BY <2>2 DEF Accounted, UndoneInTurn, RecoveryPlaces, Steps
  <2> QED
    BY <2>2, <2>3
<1> QED
  BY <1>1, <1>2, <1>3, <1>4, <1>5, <1>6 DEF Next, CoordinatorStep, StepBackward

\* A compensation is put on record together with its row, or its letter.
LEMMA UndosRecordedStep ==
  ASSUME TypeOK, TrailTypeOK, Bookkeeping, Accounted, UndoOpen, UndosRecorded, [TrailNext]_allVars
  PROVE  UndosRecorded'
<1> USE DEF UndosRecorded, Stopped
<1>1. CASE \/ Append1 \/ StartRecovery \/ FinishReconciliation \/ RecoveryDies \/ Landing
           \/ UNCHANGED allVars
           \/ \E s \in Steps, k \in Sessions : RecoverRow(s, k) \/ RecoverUndoRow(s, k)
  <2>1. UNCHANGED <<pc, run, session, compensations, dlq>> /\ (UNCHANGED cwal \/ pc = "down")
    BY <1>1, StandsStill
    DEF Append1, StartRecovery, FinishReconciliation, RecoveryDies, Landing, Land, LandEffect,
        LandUndo, allVars, vars, durable,
        RecoverRow, RecoverUndoRow, ReconcileRow, ReconcileUndoRow
  <2> QED
    BY <2>1 DEF HasLetter, ForwardPlaces, RecoveryPlaces
<1>2. CASE Die \/ ComeBack \/ Run \/ RunAgain \/ Resume
  <2>1. NoRecords /\ pc' \in {"down", "loop"}
    BY <1>2 DEF Die, Crash, ComeBack, Reopen, LoseProcess, Run, RunAgain, Resume, RunWorkflow,
       ResumeWorkflow, NewSession
  <2> QED
    BY <2>1 DEF NoRecords, RecoveryPlaces
<1>3. CASE \/ Skip \/ TimeOut \/ Finish \/ Request \/ PassGate
           \/ (\E d \in {"granted", "denied"} : Decide(d))
           \/ Reuse \/ Claim \/ StopAtBreaker \/ Announce \/ StopAtAdapter
           \/ (\E o \in Outcomes : Call(o))
           \/ Judge \/ Succeed \/ LoseTrack \/ Query \/ TryAgain \/ GiveUp
  <2>1. UNCHANGED compensations
    BY <1>3 DEF Skip, TimeOut, Finish, Request, PassGate, Decide, Reuse, Claim, StopAtBreaker,
       Announce, StopAtAdapter, Call,
                Judge, Succeed, LoseTrack, Query, TryAgain, GiveUp, records
  <2>2. pc \in ForwardPlaces
    BY <1>3 DEF ForwardPlaces, Skip, TimeOut, Finish, Request, PassGate, Decide, Reuse, Claim,
       StopAtBreaker, Announce, StopAtAdapter, Call,
                Judge, Succeed, LoseTrack, Query, TryAgain, GiveUp, SkipCommitted, DeadlinePasses,
                Complete,
        ResolveApproval, NoApprovalNeeded, ReuseResult, ClaimKey, MarkCompleted, Admit, FailFast,
        MarkRunning, MissingAdapter, Execute,
        PostconditionPasses, PostconditionFails, RecordSuccess, MarkUnknown, QueryFinds,
        QueryFindsNothing, QueryUndetermined, Retry, GiveUpForward, GiveUpUnwinding, HandleFailure
  <2> QED
    BY <2>1, <2>2
<1>4. CASE Escalate
  <2>1. /\ pc = "escalate" /\ pc' = "done" /\ run' = "INCONSISTENT" /\ UNCHANGED session
        /\ [step |-> cur, session |-> session, kind |-> "forward"] \in dlq'
        /\ compensations' = [compensations EXCEPT ![cur] = "failure"]
    BY <1>4 DEF Escalate, EscalateForward
  <2>2. \A s \in Steps : compensations'[s] # "success"
    BY <2>1 DEF ForwardPlaces, TrailTypeOK
  <2> QED
    BY <2>1, <2>2 DEF HasLetter, ForwardPlaces, RecoveryPlaces
<1>5. CASE Unwind
  <2>1. /\ pc = "recover" /\ pc' = "undo" /\ UNCHANGED session
        /\ \A s \in Steps : compensations'[s] = IF NothingToUndo(s) THEN "success" ELSE compensations[s]
    BY <1>5 DEF Unwind, Recover
  <2> QED
    BY <2>1 DEF ForwardPlaces, RecoveryPlaces, NothingToUndo
<1>6. CASE UndoDone
  <2>1. /\ pc = "undo_result" /\ pc' = "undo" /\ UNCHANGED <<session, dlq>>
        /\ SetUndoRow(undoing, session, "COMPENSATED")
        /\ compensations' = [compensations EXCEPT ![undoing] = "success"]
    BY <1>6 DEF UndoDone, UndoSucceeds, NextAction
  <2>2. undoing \in Steps /\ session \in Sessions /\ cwal[undoing][session] # "absent"
    BY <2>1, Unwinding DEF Bookkeeping, AttemptTracked
  <2>3. "COMPENSATED" \in Statuses
    BY DEF Statuses
  <2>4. cwal'[undoing][session] = "COMPENSATED" /\ OtherUndoRowsStay(undoing, session)
    BY <2>1, <2>2, <2>3, SetUndoRowIs DEF TypeOK
  <2> QED
    BY <2>1, <2>2, <2>4 DEF HasLetter, ForwardPlaces, RecoveryPlaces, TrailTypeOK, OtherUndoRowsStay
<1>7. CASE UndoGivenUp
  <2>0. \E l \in UndoLetters : l.session = session
    BY DEF UndoLetters
  <2>1. /\ pc = "letter" /\ pc' = "undo" /\ UNCHANGED <<session, cwal>>
        /\ dlq \subseteq dlq' /\ (\E l \in dlq' : l.session = session)
        /\ compensations' = [compensations EXCEPT ![undoing] = "failure"]
    BY <1>7, <2>0 DEF UndoGivenUp, DeadLetter, NextAction
  <2> QED
    BY <2>1 DEF HasLetter, ForwardPlaces, RecoveryPlaces, TrailTypeOK
<1>8. CASE Undo \/ FinishUnwinding
  <2>1. /\ pc \in RecoveryPlaces \ {"recover"} /\ pc' \in (RecoveryPlaces \ {"recover"}) \cup {"done"}
        /\ UNCHANGED <<session, dlq, compensations>> /\ (pc' = "done" => run' # "COMPLETED")
    BY <1>8
    DEF Undo, FinalState, FinishUnwinding, UndoBlocked, UndoStart, UndoMark, UndoExecute, UndoFails,
        FinishRecovery, RecoveryPlaces, records, durable
  <2>2. ASSUME NEW s \in Steps,
               cwal[s][session] = "COMPENSATED" PROVE cwal'[s][session] = "COMPENSATED"
    <3>1. session \in Sessions
      BY <2>1, Running DEF RecoveryPlaces
    <3>2. CASE UNCHANGED cwal
      BY <2>2, <3>2
    <3>3. CASE \E t \in Steps : UndoStart(t)
      <4>1. PICK t \in Steps : UndoStart(t)
        BY <3>3
      <4>2. pc = "undo" /\ t \in todo /\ WriteUndoIntent(t, session)
        BY <4>1 DEF UndoStart, NextToUndo
      <4>3. cwal[t][session] = "absent"
        BY <4>2 DEF Accounted, UndoneInTurn, RecoveryPlaces, Steps
      <4>4. OtherUndoRowsStay(t, session)
        BY <3>1, <4>2, WriteUndoIntentIs DEF TypeOK
      <4> QED
        BY <2>2, <3>1, <4>3, <4>4 DEF OtherUndoRowsStay
    <3>4. CASE UndoMark \/ \E status \in {"FAILED", "UNKNOWN"} : UndoFails(status)
      <4>1. /\ undoing \in Steps /\ pc \in {"undo_mark", "undo_result"}
            /\ \E status \in {"COMPENSATING", "FAILED", "UNKNOWN"} : SetUndoRow(undoing, session, status)
        BY <3>4, Unwinding DEF UndoMark, UndoFails
      <4>2. OtherUndoRowsStay(undoing, session)
        BY <3>1, <4>1, SetUndoRowIs DEF TypeOK
      <4> QED
        BY <2>2, <3>1, <4>1, <4>2 DEF UndoOpen, OtherUndoRowsStay
    <3>5. (\E t \in Steps : UndoBlocked(t)) \/ (\E o \in Outcomes : UndoExecute(o))
          \/ FinishUnwinding => UNCHANGED cwal
      BY DEF UndoBlocked, UndoExecute, FinishUnwinding, FinishRecovery, durable
    <3> QED
      BY <1>8, <3>2, <3>3, <3>4, <3>5 DEF Undo
  <2> QED
    BY <2>1, <2>2 DEF HasLetter, ForwardPlaces, RecoveryPlaces
<1> QED
  BY <1>1, <1>2, <1>3, <1>4, <1>5, <1>6, <1>7, <1>8 DEF TrailNext, Working

\* THEOREM: the records say of every step, and of every compensation, what the log says.
THEOREM RecordedInvariant == TrailSpec => []Recorded
<1>1. TrailInit => Recorded
  BY DEF TrailInit, Init, Recorded, RecordsFollow, EndsDecided, UndoOpen, UndosRecorded, Started,
         Stopped, ForwardPlaces, RecoveryPlaces
<1>2. TypeOK /\ TrailTypeOK /\ Bookkeeping /\ Accounted /\ Recorded /\ [TrailNext]_allVars
      => Recorded'
  BY RecordsFollowStep, EndsDecidedStep, UndoOpenStep, UndosRecordedStep, TrailImplements
  DEF Recorded
<1> QED
  BY <1>1, <1>2, TrailImplementsCoordinator, TypeCorrect, TrailTypeCorrect, BookkeepingInvariant,
     AccountedInvariant, PTL DEF TrailSpec

------------------------------------------------------------------------------
(* Which step owes which event *)

\* An event that is owed after a step is that step's, unless the step is an append or
\* leaves the trail alone.
LEMMA NewEvent ==
  ASSUME [TrailNext]_allVars, ~Append1, NEW e \in Owing'
  PROVE  \/ (Landing \/ UNCHANGED allVars) /\ UNCHANGED trailVars
         \/ (Run \/ RunAgain) /\ e = RunEvent("WORKFLOW_START")
         \/ Resume /\ e = RunEvent("WORKFLOW_RESUMED")
         \/ StartRecovery
            /\ e \in {RunEvent("CRASH_RECOVERY_START"), RunEvent("RECONCILIATION_START")}
         \/ FinishReconciliation /\ e = RunEvent("CRASH_RECOVERY_COMPLETE")
         \/ \E s \in Steps, k \in Sessions, v \in {"committed", "failed"} :
              RecoverRow(s, k) /\ e = Resolved(s, v)
         \/ Skip /\ e = Event("STEP_SKIPPED_RESUME", cur)
         \/ Finish /\ e = RunEvent("WORKFLOW_COMPLETE")
         \/ Request /\ e = Event("APPROVAL_REQUESTED", cur)
         \/ Decide("granted") /\ e = Event("APPROVAL_GRANTED", cur)
         \/ Decide("denied") /\ e = Event("APPROVAL_DENIED", cur)
         \/ Announce /\ e \in {Event("ACTION_INTENT_CREATED", cur), Event("ACTION_START", cur)}
         \/ Announce /\ cur = Pivot /\ e = Event("PIVOT_REACHED", cur)
         \/ (\E o \in Outcomes : Call(o))
            /\ e \in {Event("POST_CONDITION_PASS", cur), Event("POST_CONDITION_FAIL", cur)}
         \/ Succeed /\ e \in {Resolved(cur, "success"), Event("ACTION_COMPLETE", cur)}
         \/ LoseTrack /\ e \in {Event("ACTION_UNKNOWN", cur), Event("RECONCILIATION_START", cur)}
         \/ Query /\ e \in {Resolved(cur, "not_found"), Resolved(cur, "unknown")}
         \/ (TryAgain \/ GiveUp) /\ e = Event("ACTION_FAILED", cur)
         \/ Escalate /\ e = RunEvent("WORKFLOW_INCONSISTENT")
         \/ Unwind /\ e = RunEvent("COMPENSATION_PLANNED")
         \/ UndoDone /\ e = Event("COMPENSATION_COMPLETE", undoing)
         \/ FinishUnwinding /\ e = RunEvent(IF run' = "ABORTED" THEN "WORKFLOW_ABORTED"
                                                               ELSE "WORKFLOW_INCONSISTENT")
<1>1. owed' # <<>>
  BY Elements DEF Owing
<1>2. \A f : owed' = <<f>> => e = f
  BY Elements DEF Owing
<1>3. \A f, g : owed' = <<f, g>> => e \in {f, g}
  BY Elements DEF Owing
<1>4. \A f, g, h : owed' = <<f, g, h>> => e \in {f, g, h}
  BY Elements DEF Owing
<1>5. CASE Run \/ RunAgain \/ Resume \/ FinishReconciliation \/ Skip \/ Finish \/ Request
           \/ Escalate \/ UndoDone \/ FinishUnwinding
  BY <1>2, <1>5 DEF Run, RunAgain, Resume, FinishReconciliation, Skip, Finish, Request, Escalate,
     UndoDone, FinishUnwinding, Owes
<1>6. CASE StartRecovery
  <2>1. owed' = <<RunEvent("CRASH_RECOVERY_START")>>
        \/ owed' = <<RunEvent("CRASH_RECOVERY_START"), RunEvent("RECONCILIATION_START")>>
    BY <1>6, Joined, JoinedNone DEF StartRecovery
  <2> QED
    BY <1>2, <1>3, <1>6, <2>1
<1>7. CASE \E s \in Steps, k \in Sessions : RecoverRow(s, k) \/ RecoverUndoRow(s, k)
  BY <1>1, <1>2, <1>7 DEF RecoverRow, RecoverUndoRow, Owes, Silent
<1>8. CASE \E d \in {"granted", "denied"} : Decide(d)
  BY <1>2, <1>8 DEF Decide, Owes
<1>9. CASE Announce
  <2>1. owed' = Announcement
    BY <1>9 DEF Announce, Owes
  <2> QED
    BY <1>3, <1>4, <1>9, <2>1, AnnouncementIs
<1>10. CASE \E o \in Outcomes : Call(o)
  <2>1. owed' \in {<<>>, <<Event("POST_CONDITION_PASS", cur)>>, <<Event("POST_CONDITION_FAIL", cur)>>}
    BY <1>10 DEF Call, Owes
  <2> QED
    BY <1>1, <1>2, <1>10, <2>1
<1>11. CASE Succeed
  <2>1. owed' = <<Event("ACTION_COMPLETE", cur)>>
        \/ owed' = <<Resolved(cur, "success"), Event("ACTION_COMPLETE", cur)>>
    BY <1>11, Joined, JoinedNone DEF Succeed, Owes
  <2> QED
    BY <1>2, <1>3, <1>11, <2>1
<1>12. CASE LoseTrack
  BY <1>3, <1>12 DEF LoseTrack, Owes, Doubt
<1>13. CASE Query
  BY <1>1, <1>2, <1>13 DEF Query, Owes, Silent
<1>14. CASE TryAgain \/ GiveUp
  BY <1>1, <1>2, <1>14 DEF TryAgain, GiveUp, Owes, Failure
<1>15. CASE Unwind
  BY <1>1, <1>2, <1>15 DEF Unwind, Owes
<1>16. CASE Landing \/ UNCHANGED allVars
  BY <1>16 DEF Landing, allVars
<1>17. CASE TimeOut \/ PassGate \/ Reuse \/ Claim \/ StopAtBreaker \/ StopAtAdapter \/ Judge
            \/ Undo \/ UndoGivenUp
            \/ ComeBack \/ Die \/ RecoveryDies
  BY <1>1, <1>17 DEF TimeOut, PassGate, Reuse, Claim, StopAtBreaker, StopAtAdapter, Judge, Undo,
     UndoGivenUp, ComeBack, Die, RecoveryDies, Owes, Silent
<1> QED
  BY <1>5, <1>6, <1>7, <1>8, <1>9, <1>10, <1>11, <1>12, <1>13, <1>14, <1>15, <1>16, <1>17
  DEF TrailNext, Working

\* No event is owed if the list is empty.
LEMMA NothingOwed == owed = <<>> => Owing = {}
BY DEF Owing

\* What a live process does, it does with nothing owed.
LEMMA AtWork ==
  ASSUME Working, ~Append1
  PROVE  Live /\ owed = <<>> /\ UNCHANGED <<recovering, frame, logged>>
<1>1. owed = <<>> /\ UNCHANGED <<recovering, frame, logged>>
  BY DEF Working, Skip, TimeOut, Finish, Request, PassGate,
       Decide, Reuse, Claim, StopAtBreaker, Announce, StopAtAdapter, Call, Judge, Succeed,
       LoseTrack,
       Query, TryAgain, GiveUp, Escalate, Unwind, Undo, UndoDone, UndoGivenUp, FinishUnwinding,
       Owes, Silent
<1>2. StepForward \/ Request => Live
  BY DEF Live, ForwardPlaces, Request, StepForward, SkipCommitted, DeadlinePasses, Complete,
          ResolveApproval, NoApprovalNeeded, ReuseResult, ClaimKey, Admit, FailFast,
          MarkRunning, MissingAdapter, Execute, PostconditionPasses, PostconditionFails,
          RecordSuccess, MarkUnknown, QueryFinds,
          QueryFindsNothing, QueryUndetermined, Retry, GiveUpForward, GiveUpUnwinding,
          HandleFailure,
          EscalateForward
<1>3. StepBackward => Live
  BY DEF Live, RecoveryPlaces, StepBackward, Recover, UndoBlocked, UndoStart, UndoMark, UndoExecute,
          UndoSucceeds, UndoFails, DeadLetter, FinishRecovery
<1>4. StepForward \/ StepBackward \/ Request
  BY DEF Working, Skip, TimeOut, Finish, PassGate,
       Decide, Reuse, Claim, StopAtBreaker, Announce, StopAtAdapter, Call, Judge, Succeed,
       LoseTrack,
       Query, TryAgain, GiveUp, Escalate, Unwind, Undo, UndoDone, UndoGivenUp, FinishUnwinding,
       StepForward, StepBackward
<1> QED
  BY <1>1, <1>2, <1>3, <1>4

\* Every step keeps RecoveryManager away from live runs.
LEMMA RecoveringDownStep ==
  ASSUME RecoveringDown, [TrailNext]_allVars
  PROVE  RecoveringDown'
<1> USE DEF RecoveringDown
<1>1. CASE Working /\ ~Append1
  BY <1>1, AtWork DEF Live, ForwardPlaces, RecoveryPlaces
<1>2. CASE Append1 \/ Landing \/ UNCHANGED allVars
           \/ \E s \in Steps, k \in Sessions : RecoverRow(s, k) \/ RecoverUndoRow(s, k)
  <2>1. UNCHANGED <<pc, recovering>>
    BY <1>2, StandsStill DEF Append1, Landing, allVars, trailVars, RecoverRow, RecoverUndoRow, Owes,
       Silent
  <2> QED
    BY <2>1
<1>3. CASE Die \/ ComeBack
  BY <1>3 DEF Die, Crash, ComeBack, Reopen, LoseProcess
<1>4. CASE Run
  BY <1>4 DEF Run, Owes
<1>5. CASE Resume \/ RunAgain \/ RecoveryDies
  BY <1>5 DEF Resume, RunAgain, RecoveryDies
<1>6. CASE StartRecovery \/ FinishReconciliation
  BY <1>6 DEF StartRecovery, FinishReconciliation, vars
<1> QED
  BY <1>1, <1>2, <1>3, <1>4, <1>5, <1>6 DEF TrailNext

\* A run ends with the event that names its state.
LEMMA StateShownStep ==
  ASSUME TypeOK, TrailTypeOK, Recorded, RecoveringDown, StateShown, [TrailNext]_allVars
  PROVE  StateShown'
<1> SUFFICES ASSUME pc' = "done"
             PROVE  /\ Owing' \subseteq {Closing'}
                    /\ Owing' = {} => frame'.workflow_state = run'
  BY DEF StateShown
<1>1. CASE Append1
  <2>1. pc = "done" /\ UNCHANGED run
    BY <1>1, Appending DEF vars
  <2>2. Closing' = Closing
    BY <2>1 DEF Closing
  <2>3. PICK e \in Owing : frame' = R!Apply(frame, e) /\ Owing = Owing' \cup {e}
    BY <1>1, Appending
  <2>4. e = Closing /\ run \in {"COMPLETED", "ABORTED", "INCONSISTENT"}
    BY <2>1, <2>3 DEF StateShown, Recorded, EndsDecided
  <2>5. frame'.workflow_state = run
    BY <2>3, <2>4 DEF R!Apply, R!WorkflowStateAfter, Closing, RunEvent, Event
  <2> QED
    BY <2>1, <2>2, <2>3, <2>5 DEF StateShown
<1>2. CASE Landing \/ UNCHANGED allVars
  <2>1. UNCHANGED <<pc, run, owed, frame>>
    BY <1>2, StandsStill DEF Landing, allVars, trailVars
  <2> QED
    BY <2>1 DEF StateShown, Owing, Closing
<1>3. CASE Finish \/ Escalate \/ FinishUnwinding
  <2>1. owed' = <<Closing'>>
    BY <1>3 DEF Finish, Escalate, FinishUnwinding, Complete, EscalateForward, FinishRecovery,
       FinalState, Owes, Closing
  <2>2. Owing' = {Closing'}
    BY <2>1, Elements DEF Owing
  <2> QED
    BY <2>2
<1>4. CASE Run \/ RunAgain \/ Resume \/ Die \/ ComeBack
  BY <1>4 DEF Run, RunAgain, Resume, RunWorkflow, ResumeWorkflow, NewSession, Die, ComeBack, Crash,
     Reopen, LoseProcess
<1>5. CASE \/ StartRecovery \/ FinishReconciliation \/ RecoveryDies
           \/ \E s \in Steps, k \in Sessions : RecoverRow(s, k) \/ RecoverUndoRow(s, k)
  <2>1. UNCHANGED pc
    BY <1>5, StandsStill
  <2>2. pc = "down"
    BY <1>5 DEF StartRecovery, FinishReconciliation, RecoveryDies, RecoverRow, RecoverUndoRow,
       RecoveringDown, ReconcileRow, ReconcileUndoRow
  <2> QED
    BY <2>1, <2>2
<1>6. CASE Working /\ ~(Append1 \/ Finish \/ Escalate \/ FinishUnwinding)
  <2>1. CASE Skip \/ TimeOut \/ Request \/ PassGate \/ Reuse \/ Claim \/ StopAtBreaker \/ Announce
             \/ StopAtAdapter \/ Judge \/ Succeed \/ LoseTrack
            \/ Query \/ TryAgain \/ GiveUp \/ (\E d \in {"granted", "denied"} : Decide(d))
            \/ (\E o \in Outcomes : Call(o))
    BY <2>1, OutcomeClassified DEF Skip, TimeOut, Request, PassGate, Decide, Reuse, Claim,
       StopAtBreaker, Announce, StopAtAdapter, Call,
                Judge, Succeed, LoseTrack, Query, TryAgain, GiveUp, SkipCommitted, DeadlinePasses,
        ResolveApproval, NoApprovalNeeded, ReuseResult, ClaimKey, MarkCompleted, Admit, FailFast,
        MarkRunning, MissingAdapter, Execute,
        PostconditionPasses, PostconditionFails, RecordSuccess, MarkUnknown, QueryFinds,
        QueryFindsNothing, QueryUndetermined, Retry, GiveUpForward, GiveUpUnwinding, HandleFailure,
        vars
  <2>2. CASE Unwind \/ Undo \/ UndoDone \/ UndoGivenUp
    BY <2>2 DEF Unwind, Recover, Undo, UndoBlocked, UndoStart, UndoMark, UndoExecute, UndoFails,
       UndoDone, UndoSucceeds, UndoGivenUp, DeadLetter, NextAction
  <2> QED
    BY <1>6, <2>1, <2>2 DEF Working
<1> QED
  BY <1>1, <1>2, <1>3, <1>4, <1>5, <1>6 DEF TrailNext

\* The replay's pivot flag is never taken back.
LEMMA PivotFlagStays ==
  ASSUME TrailTypeOK, [TrailNext]_allVars, frame.pivot_crossed
  PROVE  frame'.pivot_crossed
<1>1. CASE Append1
  <2>1. PICK e \in Owing : frame' = R!Apply(frame, e)
    BY <1>1, Appending
  <2> QED
    BY <2>1 DEF R!Apply
<1> QED
  BY <1>1, OnlyAppends

\* PIVOT_REACHED goes to disk before the call that may act.
LEMMA PivotShownStep ==
  ASSUME TypeOK, TrailTypeOK, Bookkeeping, RecoveringDown, PivotShown, [TrailNext]_allVars
  PROVE  PivotShown'
<1> USE DEF PivotShown
<1>0. frame.pivot_crossed => frame'.pivot_crossed
  BY PivotFlagStays
<1>1. CASE Append1
  <2>1. UNCHANGED <<pc, cur, pivotCrossed, eff, inflight>>
    BY <1>1, Appending DEF vars, progress, completed, world
  <2>2. PICK e \in Owing : frame' = R!Apply(frame, e) /\ Owing = Owing' \cup {e}
    BY <1>1, Appending
  <2>3. ASSUME e = Event("PIVOT_REACHED", Pivot) PROVE frame'.pivot_crossed
    <3>1. e.event = "PIVOT_REACHED"
      BY <2>3 DEF Event
    <3> QED
      BY <2>2, <3>1 DEF R!Apply
  <2> QED
    BY <1>0, <2>1, <2>2, <2>3
<1>2. CASE Announce
  <2>1. pc' = "execute" /\ UNCHANGED <<cur, pivotCrossed, eff, inflight>>
    BY <1>2 DEF Announce, MarkRunning, progress, completed, world
  <2>2. cur = Pivot => Event("PIVOT_REACHED", Pivot) \in Owing'
    BY <1>2, AnnouncementIs, Elements DEF Announce, Owes, Owing
  <2> QED
    BY <1>0, <2>1, <2>2
<1>3. CASE \E o \in Outcomes : Call(o)
  <2>1. PICK o \in Outcomes : Call(o)
    BY <1>3
  <2>2. /\ owed = <<>> /\ pc = "execute" /\ UNCHANGED cur /\ pc' \in {"verify", "unknown", "failed"}
        /\ pivotCrossed' => pivotCrossed \/ cur = Pivot
        /\ eff' \cup inflight' \subseteq eff \cup inflight \cup {<<cur, session>>}
    BY <2>1, OutcomeClassified DEF Call, Execute, Owes
  <2>3. Owing = {}
    BY <2>2, NothingOwed
  <2>4. ASSUME cur = Pivot PROVE frame.pivot_crossed
    BY <2>2, <2>3, <2>4
  <2>5. \A k \in Sessions : <<Pivot, k>> \in eff' \cup inflight' =>
          <<Pivot, k>> \in eff \cup inflight \/ cur = Pivot
    <3>1. ASSUME NEW k, <<Pivot, k>> = <<cur, session>> PROVE cur = Pivot
      BY <3>1
    <3> QED
      BY <2>2, <3>1
  <2> QED
    BY <1>0, <2>2, <2>4, <2>5
<1>4. CASE Query
  <2>1. pc = "query" /\ UNCHANGED <<cur, eff, inflight>>
        /\ (pivotCrossed' => pivotCrossed \/ cur = Pivot)
        /\ pc' \in {"record", "admit", "unresolved"}
    <3>1. CASE QueryFinds
      BY <3>1 DEF QueryFinds, world, progress
    <3>2. CASE QueryFindsNothing
      BY <3>2 DEF QueryFindsNothing, world, completed
    <3>3. CASE QueryUndetermined
      BY <3>3 DEF QueryUndetermined, world, completed
    <3> QED
      BY <1>4, <3>1, <3>2, <3>3 DEF Query
  <2> QED
    BY <1>0, <2>1
<1>5. CASE LoseTrack
  <2>1. pc = "unknown" /\ pc' = "query" /\ UNCHANGED <<cur, eff, inflight, pivotCrossed>>
    BY <1>5 DEF LoseTrack, MarkUnknown, completed, world, progress
  <2> QED
    BY <1>0, <2>1
<1>6. CASE Resume
  <2>1. pc' = "loop" /\ UNCHANGED <<eff, inflight>>
        /\ (pivotCrossed' => \E k \in Sessions : wal[Pivot][k] = "COMMITTED" /\ Pivot \in Steps)
    BY <1>6 DEF Resume, ResumeWorkflow, NewSession, PivotCommitted, CommittedSteps, world
  <2>2. pivotCrossed' => frame.pivot_crossed
    BY <2>1 DEF Bookkeeping, CommittedIsReal
  <2> QED
    BY <1>0, <2>1, <2>2
<1>7. CASE Landing
  <2>1. UNCHANGED <<pc, cur, pivotCrossed, frame, owed>>
        /\ \A i : i \in eff' \cup inflight' => i \in eff \cup inflight
    BY <1>7, StandsStill DEF Landing, Land, LandEffect, LandUndo, trailVars
  <2> QED
    BY <2>1 DEF Owing
<1>8. CASE UNCHANGED allVars
  BY <1>8 DEF allVars, vars, trailVars, progress, completed, world, Owing
<1>9. CASE Run \/ RunAgain \/ Die \/ ComeBack
  <2>1. pc' \in {"loop", "down"} /\ UNCHANGED <<eff, inflight>> /\ pivotCrossed' = FALSE
    BY <1>9 DEF Run, RunAgain, RunWorkflow, NewSession, Die, Crash, ComeBack, Reopen, LoseProcess,
       world
  <2> QED
    BY <1>0, <2>1
<1>10. CASE \/ StartRecovery \/ FinishReconciliation \/ RecoveryDies
           \/ \E s \in Steps, k \in Sessions : RecoverRow(s, k) \/ RecoverUndoRow(s, k)
  <2>1. UNCHANGED <<pc, cur, pivotCrossed>>
    BY <1>10, StandsStill
  <2>2. pc = "down"
    BY <1>10 DEF StartRecovery, FinishReconciliation, RecoveryDies, RecoverRow, RecoverUndoRow,
       RecoveringDown
  <2>3. UNCHANGED <<eff, inflight>>
    BY <1>10 DEF StartRecovery, FinishReconciliation, RecoveryDies, RecoverRow, RecoverUndoRow,
       ReconcileRow, ReconcileUndoRow, vars, world
  <2> QED
    BY <1>0, <2>1, <2>2, <2>3
<1>11. CASE Skip \/ TimeOut \/ Finish \/ Request \/ PassGate \/ Reuse \/ Claim \/ StopAtBreaker
            \/ StopAtAdapter \/ Judge \/ Succeed
            \/ TryAgain \/ GiveUp \/ Escalate \/ (\E d \in {"granted", "denied"} : Decide(d))
  <2>1. /\ UNCHANGED <<eff, inflight, pivotCrossed>>
        /\ pc' \notin {"execute", "verify", "unknown", "query"}
    BY <1>11 DEF Skip, TimeOut, Finish, Request, PassGate, Decide, Reuse, Claim, StopAtBreaker,
       StopAtAdapter,
                Judge, Succeed, TryAgain, GiveUp, Escalate, SkipCommitted, DeadlinePasses, Complete,
        ResolveApproval, NoApprovalNeeded, ReuseResult, ClaimKey, MarkCompleted, Admit, FailFast,
        MissingAdapter,
        PostconditionPasses, PostconditionFails, RecordSuccess, Retry, GiveUpForward,
        GiveUpUnwinding, HandleFailure, EscalateForward, vars, world, completed
  <2> QED
    BY <1>0, <2>1
<1>12. CASE Unwind \/ Undo \/ UndoDone \/ UndoGivenUp \/ FinishUnwinding
  <2>1. /\ UNCHANGED <<eff, pivotCrossed>> /\ pc' \notin {"execute", "verify", "unknown", "query"}
        /\ \A k : <<Pivot, k>> \in inflight' => <<Pivot, k>> \in inflight
    BY <1>12 DEF Unwind, Recover, Undo, UndoBlocked, UndoStart, UndoMark, UndoExecute, UndoFails,
       UndoDone, UndoSucceeds, UndoGivenUp, DeadLetter, NextAction,
       FinishUnwinding, FinishRecovery, world, completed
  <2> QED
    BY <1>0, <2>1
<1> QED
  BY <1>1, <1>2, <1>3, <1>4, <1>5, <1>6, <1>7, <1>8, <1>9, <1>10, <1>11, <1>12 DEF TrailNext,
     Working

\* The fields of an event.
LEMMA EventFields ==
  /\ \A kind, s : Event(kind, s).event = kind /\ Event(kind, s).entity = s
  /\ \A kind : RunEvent(kind).event = kind /\ RunEvent(kind).entity = 0
  /\ \A s, v : /\ Resolved(s, v).event = "RECONCILIATION_RESULT" /\ Resolved(s, v).entity = s
               /\ Resolved(s, v).key = "resolved"
BY DEF Event, RunEvent, Resolved

\* The step that owes an event, by the event's kind.
LEMMA NewByKind ==
  ASSUME [TrailNext]_allVars, ~Append1, NEW e \in Owing',
         ~((Landing \/ UNCHANGED allVars) /\ UNCHANGED trailVars)
  PROVE  /\ e.event \in {"ACTION_INTENT_CREATED", "ACTION_START"} => Announce /\ e.entity = cur
         /\ e.event \in {"POST_CONDITION_PASS", "POST_CONDITION_FAIL"} => \E o \in Outcomes : Call(o)
         /\ e.event = "ACTION_COMPLETE" => Succeed /\ e.entity = cur
         /\ e.event = "STEP_SKIPPED_RESUME" => Skip /\ e.entity = cur
         /\ e.event = "ACTION_UNKNOWN" => LoseTrack /\ e.entity = cur
         /\ e.event = "RECONCILIATION_START" => LoseTrack \/ StartRecovery
         /\ e.event = "ACTION_FAILED" => (TryAgain \/ GiveUp) /\ e.entity = cur
         /\ e.event = "COMPENSATION_COMPLETE" => UndoDone /\ e.entity = undoing
         /\ e.event = "APPROVAL_REQUESTED" => Request /\ e.entity = cur
         /\ e.event = "APPROVAL_GRANTED" => Decide("granted") /\ e.entity = cur
         /\ e.event = "APPROVAL_DENIED" => Decide("denied") /\ e.entity = cur
         /\ e.event = "RECONCILIATION_RESULT" => e.key = "resolved"
         /\ e.event = "CRASH_RECOVERY_START" => StartRecovery
         /\ e.event = "CRASH_RECOVERY_COMPLETE" => FinishReconciliation
         /\ e.event = "COMPENSATION_PLANNED" => Unwind
BY EventFields, NewEvent

\* A decision on record stays.
LEMMA DecisionStays ==
  ASSUME TypeOK, [Next]_vars
  PROVE  \A s \in Steps : approvals[s] # "none" => approvals'[s] = approvals[s]
<1>1. CASE \E d \in {"granted", "denied"} : ResolveApproval(d)
  <2>1. PICK d \in {"granted", "denied"} : ResolveApproval(d)
    BY <1>1
  <2>2. approvals[cur] \in {"none", d} /\ approvals' = [approvals EXCEPT ![cur] = d]
    BY <2>1 DEF ResolveApproval
  <2>3. approvals \in [Steps -> {"none", "granted", "denied"}]
    BY DEF TypeOK, StoresTyped
  <2> QED
    BY <2>2, <2>3
<1>2. CASE StepForward /\ ~\E d \in {"granted", "denied"} : ResolveApproval(d)
  <2>1. UNCHANGED approvals
    BY <1>2
    DEF StepForward, SkipCommitted, DeadlinePasses, Complete, NoApprovalNeeded, ReuseResult,
        ClaimKey,
        Admit, FailFast, MarkRunning, MissingAdapter, Execute, PostconditionPasses,
        PostconditionFails, RecordSuccess, MarkUnknown, QueryFinds, QueryFindsNothing,
        QueryUndetermined, Retry, GiveUpForward, GiveUpUnwinding, HandleFailure, EscalateForward,
        durable
  <2> QED
    BY <2>1
<1>3. CASE StepBackward
  <2>1. UNCHANGED approvals
    BY <1>3
    DEF StepBackward, Recover, UndoBlocked, UndoStart, UndoMark, UndoExecute, UndoSucceeds,
        UndoFails, DeadLetter, FinishRecovery, durable
  <2> QED
    BY <2>1
<1>4. CASE RunWorkflow \/ ResumeWorkflow \/ Crash \/ Reopen \/ Reconcile \/ Land \/ UNCHANGED vars
  <2>1. UNCHANGED approvals
    BY <1>4
    DEF RunWorkflow, ResumeWorkflow, NewSession, Crash, Reopen, LoseProcess, Reconcile,
        ReconcileRow,
        ReconcileUndoRow, Land, LandEffect, LandUndo, vars, durable
  <2> QED
    BY <2>1
<1> QED
  BY <1>1, <1>2, <1>3, <1>4 DEF Next, CoordinatorStep

\* The trail shows a decision only after it is on file.
LEMMA ApprovalsShownStep ==
  ASSUME TypeOK, TrailTypeOK, ApprovalsShown, [TrailNext]_allVars
  PROVE  ApprovalsShown'
<1>0. \A s \in Steps : approvals[s] # "none" => approvals'[s] = approvals[s]
  BY DecisionStays, TrailImplements
<1>1. CASE Append1
  <2>1. UNCHANGED approvals
    BY <1>1, StandsStill
  <2>2. PICK e \in Owing : frame' = R!Apply(frame, e) /\ Owing = Owing' \cup {e}
    BY <1>1, Appending
  <2>3. ASSUME NEW s \in Steps, frame'.approval[s] \in {"granted", "denied"}
        PROVE  frame'.approval[s] = approvals[s]
    <3>1. frame'.approval[s] = IF s = e.entity THEN R!ApprovalAfter(frame.approval[s], e) ELSE frame.approval[s]
      BY <2>2, <2>3 DEF R!Apply
    <3>2. CASE s = e.entity /\ e.event \in {"APPROVAL_GRANTED", "APPROVAL_DENIED"}
      BY <2>2, <3>1, <3>2 DEF ApprovalsShown, R!ApprovalAfter
    <3>3. CASE s = e.entity /\ e.event = "APPROVAL_REQUESTED"
      BY <2>3, <3>1, <3>3 DEF R!ApprovalAfter
    <3>4. CASE s # e.entity
               \/ e.event \notin {"APPROVAL_GRANTED", "APPROVAL_DENIED", "APPROVAL_REQUESTED"}
      <4>1. frame'.approval[s] = frame.approval[s]
        BY <3>1, <3>4 DEF R!ApprovalAfter
      <4> QED
        BY <2>3, <4>1 DEF ApprovalsShown
    <3> QED
      BY <3>2, <3>3, <3>4
  <2> QED
    BY <2>1, <2>2, <2>3 DEF ApprovalsShown
<1>2. CASE ~Append1
  <2>1. UNCHANGED frame
    BY <1>2, OnlyAppends
  <2>2. \A s \in Steps : frame'.approval[s] \in {"granted", "denied"} => frame'.approval[s] = approvals'[s]
    BY <1>0, <2>1 DEF ApprovalsShown
  <2>3. ASSUME NEW e \in Owing'
        PROVE  /\ e.event = "APPROVAL_GRANTED" => approvals'[e.entity] = "granted"
               /\ e.event = "APPROVAL_DENIED" => approvals'[e.entity] = "denied"
    <3>1. CASE (Landing \/ UNCHANGED allVars) /\ UNCHANGED trailVars
      <4>1. UNCHANGED <<approvals, owed>>
        BY <3>1, StandsStill DEF trailVars
      <4> QED
        BY <2>3, <4>1 DEF ApprovalsShown, Owing
    <3>2. ASSUME NEW d \in {"granted", "denied"}, Decide(d), e.entity = cur
          PROVE  approvals'[e.entity] = d
      <4>1. cur \in Steps /\ approvals' = [approvals EXCEPT ![cur] = d]
        BY <3>2, PlanAssumption DEF Decide, ResolveApproval
      <4> QED
        BY <3>2, <4>1 DEF TypeOK, StoresTyped
    <3> QED
      BY <1>2, <2>3, <3>1, <3>2, NewByKind
  <2> QED
    BY <2>2, <2>3 DEF ApprovalsShown
<1> QED
  BY <1>1, <1>2

------------------------------------------------------------------------------
(* Side effects are counted after they are logged *)

\* Nothing takes back a COMPENSATED row.
LEMMA CompensatedStays ==
  ASSUME TypeOK, Bookkeeping, Accounted, UndoOpen, [Next]_vars
  PROVE  \A s \in Steps, k \in Sessions : cwal[s][k] = "COMPENSATED" => cwal'[s][k] = "COMPENSATED"
<1> SUFFICES ASSUME NEW s \in Steps, NEW k \in Sessions, cwal[s][k] = "COMPENSATED"
             PROVE  cwal'[s][k] = "COMPENSATED"
  OBVIOUS
<1>1. CASE \E t \in Steps : UndoStart(t)
  <2>1. PICK t \in Steps : UndoStart(t)
    BY <1>1
  <2>2. session \in Sessions /\ pc = "undo" /\ t \in todo /\ WriteUndoIntent(t, session)
    BY <2>1, Running DEF UndoStart, NextToUndo
  <2>3. cwal[t][session] = "absent"
    BY <2>2 DEF Accounted, UndoneInTurn, RecoveryPlaces, Steps
  <2>4. OtherUndoRowsStay(t, session)
    BY <2>2, WriteUndoIntentIs DEF TypeOK
  <2> QED
    BY <2>3, <2>4 DEF OtherUndoRowsStay
<1>2. CASE UndoMark \/ UndoSucceeds \/ \E status \in {"FAILED", "UNKNOWN"} : UndoFails(status)
  <2>1. /\ undoing \in Steps /\ session \in Sessions /\ pc \in {"undo_mark", "undo_result"}
        /\ \E status : SetUndoRow(undoing, session, status)
    BY <1>2, Unwinding DEF UndoMark, UndoSucceeds, UndoFails
  <2>2. OtherUndoRowsStay(undoing, session)
    BY <2>1, SetUndoRowIs DEF TypeOK
  <2> QED
    BY <2>1, <2>2 DEF UndoOpen, OtherUndoRowsStay
<1>3. CASE \E i \in Steps, j \in Sessions : ReconcileUndoRow(i, j)
  <2>1. PICK i \in Steps, j \in Sessions : ReconcileUndoRow(i, j)
    BY <1>3
  <2>2. cwal[i][j] \in Pending /\ \E status : SetUndoRow(i, j, status)
    BY <2>1 DEF ReconcileUndoRow, PendingUndoRows
  <2>3. OtherUndoRowsStay(i, j)
    BY <2>1, <2>2, SetUndoRowIs DEF TypeOK
  <2> QED
    BY <2>2, <2>3 DEF OtherUndoRowsStay, Pending
<1>4. CASE \/ StepForward \/ Recover \/ (\E t \in Steps : UndoBlocked(t))
           \/ (\E o \in Outcomes : UndoExecute(o))
           \/ DeadLetter \/ FinishRecovery
  <2>1. UNCHANGED cwal
    BY <1>4
    DEF StepForward, SkipCommitted, DeadlinePasses, Complete, ResolveApproval, NoApprovalNeeded,
        ReuseResult, ClaimKey,
        Admit, FailFast, MarkRunning, MissingAdapter, Execute, PostconditionPasses,
        PostconditionFails, RecordSuccess, MarkUnknown, QueryFinds, QueryFindsNothing,
        QueryUndetermined, Retry, GiveUpForward, GiveUpUnwinding, HandleFailure, EscalateForward,
        durable,
        Recover, UndoBlocked, UndoExecute, DeadLetter, FinishRecovery
  <2> QED
    BY <2>1
<1>5. CASE \/ RunWorkflow \/ ResumeWorkflow \/ Crash \/ Reopen \/ Land \/ UNCHANGED vars
           \/ \E i \in Steps, j \in Sessions : ReconcileRow(i, j)
  <2>1. UNCHANGED cwal
    BY <1>5
    DEF RunWorkflow, ResumeWorkflow, NewSession, Crash, Reopen, LoseProcess, ReconcileRow,
        Land, LandEffect, LandUndo, vars, durable
  <2> QED
    BY <2>1
<1> QED
  BY <1>1, <1>2, <1>3, <1>4, <1>5 DEF Next, CoordinatorStep, StepBackward, Reconcile

\* What happened in the world is not undone by anything but an action of its own.
LEMMA WorldGrows ==
  ASSUME [Next]_vars
  PROVE  eff \subseteq eff' /\ undone \subseteq undone'
<1>1. StepForward => eff \subseteq eff' /\ undone \subseteq undone'
  BY DEF StepForward, SkipCommitted, DeadlinePasses, Complete, ResolveApproval, NoApprovalNeeded,
         ReuseResult, ClaimKey,
        Admit, FailFast, MarkRunning, MissingAdapter, Execute, PostconditionPasses,
        PostconditionFails, RecordSuccess, MarkUnknown, QueryFinds, QueryFindsNothing,
        QueryUndetermined, Retry, GiveUpForward, GiveUpUnwinding, HandleFailure, EscalateForward,
        world
<1>2. StepBackward => eff \subseteq eff' /\ undone \subseteq undone'
  BY DEF StepBackward, Recover, UndoBlocked, UndoStart, UndoMark, UndoExecute, UndoSucceeds,
         UndoFails, DeadLetter, FinishRecovery, world
<1>3. RunWorkflow \/ ResumeWorkflow \/ Crash \/ Reopen \/ Reconcile \/ Land \/ UNCHANGED vars
      => eff \subseteq eff' /\ undone \subseteq undone'
  BY DEF RunWorkflow, ResumeWorkflow, NewSession, Crash, Reopen, LoseProcess, Reconcile,
         ReconcileRow,
         ReconcileUndoRow, Land, LandEffect, LandUndo, vars, world
<1> QED
  BY <1>1, <1>2, <1>3 DEF Next, CoordinatorStep

\* A row is COMMITTED before its success is recorded, and recorded at once.
LEMMA CountedGrow ==
  ASSUME TypeOK, Bookkeeping, [Next]_vars
  PROVE  Counted \subseteq Counted'
<1> SUFFICES ASSUME NEW i \in Counted PROVE i \in Counted'
  OBVIOUS
<1>1. i \in eff /\ i[1] \in Steps /\ i[2] \in Sessions /\ wal[i[1]][i[2]] = "COMMITTED"
      /\ i = <<i[1], i[2]>>
  BY DEF Counted, TypeOK, WorldTyped
<1>2. i \in eff' /\ wal'[i[1]][i[2]] = "COMMITTED"
  BY <1>1, WorldGrows, CommittedStays
<1>3. ASSUME pc' = "record" PROVE i # <<cur', session'>>
  <2>1. CASE pc = "record" /\ UNCHANGED <<cur, session>>
    BY <2>1 DEF Counted
  <2>2. CASE pc \in Attempting /\ UNCHANGED <<cur, session>>
    <3>1. wal[cur][session] # "COMMITTED"
      BY <2>2 DEF Bookkeeping, AttemptTracked
    <3> QED
      BY <1>1, <2>2, <3>1
  <2>3. StepForward => pc \in Attempting /\ UNCHANGED <<cur, session>>
    BY <1>3, OutcomeClassified
    DEF StepForward, SkipCommitted, DeadlinePasses, Complete, ResolveApproval, NoApprovalNeeded,
        ReuseResult, ClaimKey, MarkCompleted,
        Admit, FailFast, MarkRunning, MissingAdapter, Execute, PostconditionPasses,
        PostconditionFails, RecordSuccess, MarkUnknown, QueryFinds, QueryFindsNothing,
        QueryUndetermined, Retry, GiveUpForward, GiveUpUnwinding, HandleFailure, EscalateForward,
        progress, Attempting
  <2>4. ~StepBackward
    BY <1>3 DEF StepBackward, Recover, UndoBlocked, UndoStart, UndoMark, UndoExecute, UndoSucceeds,
         UndoFails, DeadLetter, NextAction, FinishRecovery
  <2>5. ~(RunWorkflow \/ ResumeWorkflow \/ Crash \/ Reopen)
    BY <1>3 DEF RunWorkflow, ResumeWorkflow, NewSession, Crash, Reopen, LoseProcess
  <2>6. Reconcile \/ Land \/ UNCHANGED vars => UNCHANGED <<pc, cur, session>>
    BY DEF Reconcile, ReconcileRow, ReconcileUndoRow, Land, LandEffect, LandUndo, vars, progress
  <2> QED
    BY <1>3, <2>1, <2>2, <2>3, <2>4, <2>5, <2>6 DEF Next, CoordinatorStep
<1> QED
  BY <1>2, <1>3 DEF Counted

\* Compensations on record stay on record.
LEMMA CountedUndosGrow ==
  ASSUME TypeOK, Bookkeeping, Accounted, UndoOpen, [Next]_vars
  PROVE  CountedUndos \subseteq CountedUndos'
<1> SUFFICES ASSUME NEW u \in CountedUndos PROVE u \in CountedUndos'
  OBVIOUS
<1>1. u \in undone /\ u[1] \in Steps /\ u[2] \in Sessions /\ cwal[u[1]][u[2]] = "COMPENSATED"
  BY DEF CountedUndos, TypeOK, WorldTyped
<1> QED
  BY <1>1, WorldGrows, CompensatedStays DEF CountedUndos

\* The world is finite.
LEMMA WorldFinite ==
  ASSUME NEW A \in SUBSET (Steps \X Sessions), NEW B \in SUBSET (Steps \X Sessions \X Sessions)
  PROVE  IsFiniteSet(A) /\ IsFiniteSet(B)
<1>1. IsFiniteSet(Steps) /\ IsFiniteSet(Sessions)
  BY PlanAssumption, FS_Interval DEF Steps, Sessions
<1>2. IsFiniteSet(Steps \X Sessions)
  BY <1>1, FS_Product
<1>4. IsFiniteSet((Steps \X Sessions) \X Sessions)
  BY <1>1, <1>2, FS_Product
<1>5. IsFiniteSet(Steps \X Sessions \X Sessions)
  <2> DEFINE P == (Steps \X Sessions) \X Sessions
             Q == Steps \X Sessions \X Sessions
             f == [x \in P |-> <<x[1][1], x[1][2], x[2]>>]
  <2>1. f \in Surjection(P, Q)
    <3>1. ASSUME NEW y \in Q PROVE \E x \in P : f[x] = y
      <4>1. <<<<y[1], y[2]>>, y[3]>> \in P
        OBVIOUS
      <4> QED
        BY <4>1
    <3>2. f \in [P -> Q]
      OBVIOUS
    <3> QED
      BY <3>1, <3>2 DEF Surjection
  <2> QED
    BY <1>4, <2>1, FS_Surjection
<1> QED
  BY <1>2, <1>5, FS_Subset

\* Counting an event is counting a completed action or compensation.
LEMMA CountsKind ==
  \A e : /\ Counts(e) <=> e.event \in {"ACTION_COMPLETE", "COMPENSATION_COMPLETE"}
         /\ R!SideEffectsOf(e) = IF Counts(e) THEN 1 ELSE 0
BY DEF Counts, R!SideEffectsOf

\* A counting event comes last: it is the last the step that owes it has to append.
LEMMA CountsLast ==
  ASSUME TrailTypeOK, EffectsCounted, [TrailNext]_allVars
  PROVE  \A i \in DOMAIN owed' : Counts(owed'[i]) => i = Len(owed')
<1> SUFFICES ASSUME NEW i \in DOMAIN owed', Counts(owed'[i]) PROVE i = Len(owed')
  OBVIOUS
<1>1. CASE Append1
  <2>1. i + 1 \in DOMAIN owed /\ owed'[i] = owed[i + 1] /\ Len(owed') = Len(owed) - 1
        /\ owed' \in Seq(Events)
    BY <1>1, Appending
  <2>2. i + 1 = Len(owed)
    BY <2>1 DEF EffectsCounted
  <2>3. i \in Nat /\ Len(owed) \in Nat
    BY <2>1, LenProperties DEF TrailTypeOK
  <2> QED
    BY <2>1, <2>2, <2>3
<1>2. CASE ~Append1
  <2>1. owed'[i] \in Owing'
    BY DEF Owing
  <2>2. CASE (Landing \/ UNCHANGED allVars) /\ UNCHANGED trailVars
    BY <2>2 DEF trailVars, EffectsCounted
  <2>3. CASE Succeed \/ UndoDone
    <3>1. \/ owed' = <<Event("ACTION_COMPLETE", cur)>>
          \/ owed' = <<Resolved(cur, "success"), Event("ACTION_COMPLETE", cur)>>
          \/ owed' = <<Event("COMPENSATION_COMPLETE", undoing)>>
      BY <2>3, Joined, JoinedNone DEF Succeed, UndoDone, Owes
    <3>2. ~Counts(Resolved(cur, "success"))
      BY CountsKind, EventFields
    <3>3. CASE \E e : owed' = <<e>>
      <4>1. DOMAIN owed' = {1} /\ Len(owed') = 1
        BY <3>3
      <4> QED
        BY <4>1
    <3>4. CASE owed' = <<Resolved(cur, "success"), Event("ACTION_COMPLETE", cur)>>
      <4>1. DOMAIN owed' = {1, 2} /\ Len(owed') = 2 /\ owed'[1] = Resolved(cur, "success")
        BY <3>4
      <4> QED
        BY <3>2, <4>1
    <3> QED
      BY <3>1, <3>3, <3>4
  <2>4. owed'[i].event \in {"ACTION_COMPLETE", "COMPENSATION_COMPLETE"}
    BY CountsKind
  <2> QED
    BY <1>2, <2>1, <2>2, <2>3, <2>4, NewByKind
<1> QED
  BY <1>1, <1>2

\* The row of a success on record was COMMITTED, and not counted yet.
LEMMA SuccessCounts ==
  ASSUME TypeOK, Bookkeeping, Reckoned, Succeed
  PROVE  \E i \in Counted' : i \notin Counted
<1>1. /\ pc = "record" /\ pc' = "loop" /\ UNCHANGED <<wal, eff>>
      /\ cur \in Steps /\ session \in Sessions
  BY AtStep DEF Succeed, RecordSuccess, MarkCompleted, ForwardPlaces, world
<1>2. wal[cur][session] = "COMMITTED"
  BY <1>1 DEF Reckoned, PlanFollowed
<1>3. <<cur, session>> \in eff
  BY <1>1, <1>2 DEF Bookkeeping, CommittedIsReal
<1>4. <<cur, session>> \in Counted'
  BY <1>1, <1>2, <1>3 DEF Counted
<1>5. <<cur, session>> \notin Counted
  BY <1>1 DEF Counted
<1> QED
  BY <1>4, <1>5

\* The row of a compensation on record as done becomes COMPENSATED.
LEMMA UndoCounts ==
  ASSUME TypeOK, Bookkeeping, Reckoned, UndoOpen, UndoDone
  PROVE  \E u \in CountedUndos' : u \notin CountedUndos
<1>1. /\ pc = "undo_result" /\ UNCHANGED undone /\ SetUndoRow(undoing, session, "COMPENSATED")
      /\ \/ result = "ok"
         \/ result = "unknown" /\ "found" \in UndoAnswers(Undone(undoing, session))
  BY DEF UndoDone, UndoSucceeds, world
<1>2. undoing \in Steps /\ session \in Sessions /\ cwal[undoing][session] # "absent"
  BY <1>1, Unwinding DEF Bookkeeping, AttemptTracked
<1>3. cwal'[undoing][session] = "COMPENSATED" /\ cwal[undoing][session] # "COMPENSATED"
  BY <1>1, <1>2, SetUndoRowIs DEF UndoOpen, TypeOK
<1>4. PICK k : <<undoing, session, k>> \in undone
  <2>1. CASE result = "ok"
    BY <1>1, <2>1 DEF Reckoned, UndoAttempted
  <2>2. CASE "found" \in UndoAnswers(Undone(undoing, session))
    <3>1. Undone(undoing, session)
      BY <2>2 DEF UndoAnswers, Answers
    <3> QED
      BY <3>1 DEF Undone
  <2> QED
    BY <1>1, <2>1, <2>2
<1>5. <<undoing, session, k>> \in CountedUndos'
  BY <1>1, <1>3, <1>4 DEF CountedUndos
<1>6. <<undoing, session, k>> \notin CountedUndos
  BY <1>3 DEF CountedUndos
<1> QED
  BY <1>5, <1>6

\* A set that grows by at least one has at least one more element.
LEMMA OneMore ==
  ASSUME NEW A, NEW B, IsFiniteSet(B), A \subseteq B
  PROVE  /\ Cardinality(A) \in Nat /\ Cardinality(B) \in Nat /\ Cardinality(A) <= Cardinality(B)
         /\ (\E x \in B : x \notin A) => Cardinality(A) + 1 <= Cardinality(B)
<1>1. /\ IsFiniteSet(A) /\ Cardinality(A) <= Cardinality(B)
      /\ (Cardinality(A) = Cardinality(B) => A = B)
  BY FS_Subset
<1>2. Cardinality(A) \in Nat /\ Cardinality(B) \in Nat
  BY <1>1, FS_CardinalityType
<1>3. (\E x \in B : x \notin A) => Cardinality(A) # Cardinality(B)
  BY <1>1
<1> QED
  BY <1>1, <1>2, <1>3

\* Every step counts what it logs, and logs only what was counted.
LEMMA EffectsCountedStep ==
  ASSUME TypeOK, TypeOK', TrailTypeOK, Bookkeeping, Accounted, Reckoned, UndoOpen, EffectsCounted,
         [TrailNext]_allVars
  PROVE  EffectsCounted'
<1> DEFINE Pending1 == IF \E e \in Owing : Counts(e) THEN 1 ELSE 0
           n == Cardinality(Counted)
           m == Cardinality(CountedUndos)
<1>1. [Next]_vars
  BY TrailImplements
<1>2. IsFiniteSet(Counted') /\ IsFiniteSet(CountedUndos')
  <2>1. Counted' \subseteq eff' /\ CountedUndos' \subseteq undone'
    BY DEF Counted, CountedUndos
  <2>2. IsFiniteSet(eff') /\ IsFiniteSet(undone')
    BY WorldFinite DEF TypeOK, WorldTyped
  <2> QED
    BY <2>1, <2>2, FS_Subset
<1>3. /\ n \in Nat /\ m \in Nat /\ n' \in Nat /\ m' \in Nat /\ n <= n' /\ m <= m'
      /\ (\E i \in Counted' : i \notin Counted) => n + 1 <= n'
      /\ (\E u \in CountedUndos' : u \notin CountedUndos) => m + 1 <= m'
  <2>1. Counted \subseteq Counted' /\ CountedUndos \subseteq CountedUndos'
    BY <1>1, CountedGrow, CountedUndosGrow
  <2> HIDE DEF n, m
  <2>2. /\ n \in Nat /\ n' \in Nat /\ n <= n'
        /\ (\E i \in Counted' : i \notin Counted) => n + 1 <= n'
    BY <1>2, <2>1, OneMore DEF n
  <2>3. /\ m \in Nat /\ m' \in Nat /\ m <= m'
        /\ (\E u \in CountedUndos' : u \notin CountedUndos) => m + 1 <= m'
    BY <1>2, <2>1, OneMore DEF m
  <2> QED
    BY <2>2, <2>3
<1>4. frame.side_effects + Pending1 <= n + m /\ frame.side_effects \in Nat
      /\ frame'.side_effects \in Nat
  <2>1. frame.side_effects \in Nat
    BY DEF TrailTypeOK, R!Frames
  <2>2. frame'.side_effects \in Nat
    <3>1. CASE Append1
      BY <2>1, <3>1, Appending, CountsKind DEF R!Apply
    <3> QED
      BY <2>1, <3>1, OnlyAppends
  <2> QED
    BY <2>1, <2>2 DEF EffectsCounted
<1> HIDE DEF n, m
<1>5. frame'.side_effects + Pending1' <= n' + m'
  <2>1. CASE Append1
    <3>1. UNCHANGED vars
      BY <2>1, Appending
    <3>2. n' = n /\ m' = m
      BY <3>1 DEF n, m, Counted, CountedUndos, vars, durable, world, progress
    <3>3. PICK e \in Owing : /\ frame' = R!Apply(frame, e) /\ Owing = Owing' \cup {e}
                             /\ e = owed[1]
      BY <2>1, Appending
    <3>4. frame'.side_effects = frame.side_effects + (IF Counts(e) THEN 1 ELSE 0)
      BY <3>3, CountsKind DEF R!Apply
    <3>5. CASE Counts(e)
      <4>1. 1 \in DOMAIN owed /\ Len(owed) \in Nat /\ DOMAIN owed = 1..Len(owed)
        BY <2>1, LenProperties, EmptySeq DEF TrailTypeOK, Append1
      <4>2. Len(owed) = 1
        BY <3>3, <3>5, <4>1 DEF EffectsCounted
      <4>3. Len(owed') = 0 /\ owed' \in Seq(Events)
        BY <2>1, <4>2, Appending
      <4>4. DOMAIN owed' = {}
        BY <4>3, LenProperties
      <4>5. Owing' = {}
        BY <4>4 DEF Owing
      <4>6. Pending1' = 0 /\ Pending1 = 1
        BY <3>3, <3>5, <4>5
      <4> QED
        BY <1>3, <1>4, <3>2, <3>4, <3>5, <4>6
    <3>6. CASE ~Counts(e)
      <4>1. Pending1' <= Pending1 /\ Pending1 \in {0, 1} /\ Pending1' \in {0, 1}
        BY <3>3
      <4> QED
        BY <1>3, <1>4, <3>2, <3>4, <3>6, <4>1
    <3> QED
      BY <3>5, <3>6
  <2>2. CASE ~Append1
    <3>1. frame' = frame
      BY <2>2, OnlyAppends
    <3>2. CASE \E e \in Owing' : Counts(e)
      <4>1. PICK e \in Owing' : Counts(e)
        BY <3>2
      <4>2. e.event \in {"ACTION_COMPLETE", "COMPENSATION_COMPLETE"}
        BY <4>1, CountsKind
      <4>3. CASE (Landing \/ UNCHANGED allVars) /\ UNCHANGED trailVars
        <5>1. Pending1' = Pending1
          BY <4>3 DEF trailVars, Owing
        <5> HIDE DEF Pending1
        <5>2. Pending1 \in {0, 1}
          BY DEF Pending1
        <5> QED
          BY <1>3, <1>4, <3>1, <5>1, <5>2
      <4>4. CASE Succeed \/ UndoDone
        <5>1. n + m + 1 <= n' + m'
          <6>1. n + 1 <= n' \/ m + 1 <= m'
            BY <1>3, <4>4, SuccessCounts, UndoCounts
          <6>2. \A a, b, c, d \in Nat : a <= c /\ b <= d /\ (a + 1 <= c \/ b + 1 <= d) => a + b + 1 <= c + d
            OBVIOUS
          <6> QED
            BY <1>3, <6>1, <6>2
        <5>2. Pending1 = 0
          BY <4>4, NothingOwed DEF Succeed, UndoDone, Owes
        <5>3. Pending1' = 1
          BY <3>2
        <5> HIDE DEF Pending1
        <5>4. \A a, b, c, d, f \in Nat : a + b + 1 <= c + d /\ f <= a + b => f + 1 <= c + d
          OBVIOUS
        <5>5. frame.side_effects + 0 <= n + m
          BY <1>4, <5>2
        <5>6. frame.side_effects <= n + m
          BY <1>3, <1>4, <5>5
        <5>7. frame.side_effects + 1 <= n' + m'
          BY <1>3, <1>4, <5>1, <5>4, <5>6
        <5> QED
          BY <3>1, <5>3, <5>7
      <4> QED
        BY <2>2, <4>1, <4>2, <4>3, <4>4, NewByKind
    <3>3. CASE ~\E e \in Owing' : Counts(e)
      <4>1. Pending1' = 0
        BY <3>3
      <4>2. Pending1 \in {0, 1}
        OBVIOUS
      <4> QED
        BY <1>3, <1>4, <3>1, <4>1, <4>2
    <3> QED
      BY <3>2, <3>3
  <2> QED
    BY <2>1, <2>2
<1> QED
  BY <1>5, CountsLast DEF EffectsCounted, n, m

\* THEOREM: what the replay shows of the end, the pivot, the approvals and the number of
\* side effects is not more than happened, whatever tools, crashes and callers do.
THEOREM TrailHonestInvariant == TrailSpec => []TrailHonest
<1>1. TrailInit => TrailHonest
  <2> SUFFICES ASSUME TrailInit PROVE TrailHonest
    OBVIOUS
  <2>1. Owing = {} /\ DOMAIN owed = {}
    BY NothingOwed DEF TrailInit
  <2>2. Counted = {} /\ CountedUndos = {}
    BY DEF TrailInit, Init, Counted, CountedUndos
  <2>3. EffectsCounted
    BY <2>1, <2>2, FS_EmptySet DEF TrailInit, EffectsCounted, R!EmptyFrame
  <2>4. RecoveringDown /\ StateShown /\ PivotShown /\ ApprovalsShown
    BY <2>1 DEF TrailInit, Init, RecoveringDown, StateShown, PivotShown, ApprovalsShown,
       R!EmptyFrame
  <2> QED
    BY <2>3, <2>4 DEF TrailHonest
<1>2. /\ TypeOK /\ TypeOK' /\ TrailTypeOK /\ Bookkeeping /\ Accounted /\ Reckoned /\ Recorded
      /\ TrailHonest
      /\ [TrailNext]_allVars
      => TrailHonest'
  BY RecoveringDownStep, StateShownStep, PivotShownStep, ApprovalsShownStep, EffectsCountedStep
  DEF TrailHonest, Recorded
<1> QED
  BY <1>1, <1>2, TrailImplementsCoordinator, TypeCorrect, TrailTypeCorrect, BookkeepingInvariant,
     AccountedInvariant, ReckonedInvariant, RecordedInvariant, PTL DEF TrailSpec

------------------------------------------------------------------------------
(* The floor for duplicate payments *)

\* More than one element is two different ones.
LEMMA MoreThanOne ==
  ASSUME NEW A, IsFiniteSet(A)
  PROVE  Cardinality(A) > 1 <=> \E x, y \in A : x # y
<1>1. Cardinality(A) \in Nat
  BY FS_CardinalityType
<1>2. CASE \E x, y \in A : x # y
  <2>1. PICK x \in A, y \in A : x # y
    BY <1>2
  <2>2. {x} \subseteq A /\ {x} # A /\ Cardinality({x}) = 1
    BY <2>1, FS_Singleton
  <2>3. Cardinality({x}) <= Cardinality(A) /\ Cardinality({x}) # Cardinality(A)
    BY <2>2, FS_Subset
  <2> QED
    BY <1>1, <1>2, <2>2, <2>3
<1>3. CASE ~\E x, y \in A : x # y
  <2>1. CASE A = {}
    BY <2>1, <1>3, FS_EmptySet
  <2>2. CASE A # {}
    <3>1. PICK x \in A : TRUE
      BY <2>2
    <3>2. A = {x}
      BY <1>3, <3>1
    <3>3. Cardinality(A) = 1
      BY <3>2, FS_Singleton
    <3> QED
      BY <1>3, <3>3
  <2> QED
    BY <2>1, <2>2
<1> QED
  BY <1>2, <1>3

\* THEOREM: with one step that charges, the floor is violated exactly when the world was
\* charged twice, for every plan, tool and caller.
THEOREM DuplicateCaughtCorrect ==
  ASSUME \A s, t \in Charges : s = t
  PROVE  TrailSpec => []DuplicateCaught
<1>1. TypeOK => DuplicateCaught
  <2> SUFFICES ASSUME TypeOK
               PROVE  DuplicatePayment <=> \E s \in Charges : ActedTwice(s)
    BY DEF DuplicateCaught, FloorViolations
  <2>1. Payments \subseteq eff /\ IsFiniteSet(Payments) /\ Cardinality(Payments) \in Nat
    <3>1. IsFiniteSet(eff)
      BY WorldFinite DEF TypeOK, WorldTyped
    <3> QED
      BY <3>1, FS_Subset, FS_CardinalityType DEF Payments
  <2>2. DuplicatePayment <=> Cardinality(Payments) > 1
    <3>1. CASE ChargeCommits = {}
      BY <3>1 DEF DuplicatePayment
    <3>2. CASE ChargeCommits # {}
      <4>1. PICK s \in ChargeCommits : TRUE
        BY <3>2
      <4>2. ChargeCommits = {s}
        BY <4>1 DEF ChargeCommits
      <4>3. Cardinality(ChargeCommits) = 1
        BY <4>2, FS_Singleton
      <4> QED
        BY <3>2, <4>3 DEF DuplicatePayment
    <3> QED
      BY <3>1, <3>2
  <2>3. (\E x, y \in Payments : x # y) <=> \E s \in Charges : ActedTwice(s)
    <3>1. ASSUME NEW x \in Payments, NEW y \in Payments, x # y
          PROVE  \E s \in Charges : ActedTwice(s)
      <4>1. /\ x \in Steps \X Sessions /\ y \in Steps \X Sessions /\ x \in eff /\ y \in eff
            /\ x[1] \in Charges /\ y[1] \in Charges
        BY DEF Payments, TypeOK, WorldTyped
      <4>2. x[1] = y[1] /\ x = <<x[1], x[2]>> /\ y = <<x[1], y[2]>> /\ x[2] # y[2]
        BY <3>1, <4>1
      <4>3. ActedTwice(x[1])
        BY <4>1, <4>2 DEF ActedTwice
      <4> QED
        BY <4>1, <4>3
    <3>2. ASSUME NEW s \in Charges, ActedTwice(s) PROVE \E x, y \in Payments : x # y
      <4>1. PICK j \in Sessions, k \in Sessions : j # k /\ <<s, j>> \in eff /\ <<s, k>> \in eff
        BY <3>2 DEF ActedTwice
      <4>2. <<s, j>> \in Payments /\ <<s, k>> \in Payments /\ <<s, j>> # <<s, k>>
        BY <4>1 DEF Payments
      <4> QED
        BY <4>2
    <3> QED
      BY <3>1, <3>2
  <2> QED
    BY <2>1, <2>2, <2>3, MoreThanOne
<1> QED
  BY <1>1, TrailImplementsCoordinator, TypeCorrect, PTL

------------------------------------------------------------------------------
(* The verdict *)

\* Three are finitely many.
LEMMA ThreeFinite ==
  ASSUME NEW a, NEW b, NEW c
  PROVE  IsFiniteSet({a, b, c})
<1>1. IsFiniteSet({a})
  BY FS_Singleton
<1>2. IsFiniteSet({a} \cup {b})
  BY <1>1, FS_AddElement
<1>3. IsFiniteSet(({a} \cup {b}) \cup {c})
  BY <1>2, FS_AddElement
<1>4. {a, b, c} = ({a} \cup {b}) \cup {c}
  OBVIOUS
<1> QED
  BY <1>3, <1>4

\* The dead letters are finitely many.
LEMMA LettersFinite ==
  ASSUME NEW A \in SUBSET Letters
  PROVE  IsFiniteSet(A) /\ Cardinality(A) \in Nat /\ (Cardinality(A) = 0 <=> A = {})
<1> DEFINE K == {"blocked", "exhausted", "forward"}
           P == (Steps \X Sessions) \X K
           f == [x \in P |-> [step |-> x[1][1], session |-> x[1][2], kind |-> x[2]]]
<1>1. IsFiniteSet(Steps) /\ IsFiniteSet(Sessions)
  BY PlanAssumption, FS_Interval DEF Steps, Sessions
<1>2. IsFiniteSet(K)
  BY ThreeFinite
<1>3. IsFiniteSet(P)
  BY <1>1, <1>2, FS_Product
<1>4. f \in Surjection(P, Letters)
  <2>1. ASSUME NEW l \in Letters PROVE \E x \in P : f[x] = l
    <3>1. <<<<l.step, l.session>>, l.kind>> \in P
      BY DEF Letters
    <3>2. f[<<<<l.step, l.session>>, l.kind>>] = l
      BY <3>1 DEF Letters
    <3> QED
      BY <3>1, <3>2
  <2>2. f \in [P -> Letters]
    BY DEF Letters
  <2> QED
    BY <2>1, <2>2 DEF Surjection
<1>5. IsFiniteSet(Letters)
  BY <1>3, <1>4, FS_Surjection
<1> QED
  BY <1>5, FS_Subset, FS_CardinalityType, FS_EmptySet

\* THEOREM: the release status, and whether it comes with a hard blocker, say what has
\* become of every effect, for tools that keep their contract and runs not cut short
\* while they unwind.
THEOREM VerdictHonestCorrect ==
  ASSUME Truthful, UnwindsOnce
  PROVE  TrailSpec => []VerdictHonest
<1>1. TypeOK /\ EndsDecided /\ Accounted /\ LettersLast /\ CompletedStands /\ AbortedLeavesNothing
      => VerdictHonest
  <2> SUFFICES ASSUME TypeOK, EndsDecided, Accounted, LettersLast, CompletedStands,
                      AbortedLeavesNothing, Ended
               PROVE  IF ReleaseStatus \in {"PASS", "PASS_WITH_CONDITIONS"}
                      THEN /\ HardBlockers = 0
                           /\ \/ run = "COMPLETED" /\ \A s \in Steps : Stands(s)
                              \/ run = "ABORTED" /\ \A s \in Steps : Stands(s) => Comp[s] = "none"
                      ELSE HardBlockers > 0
    BY DEF VerdictHonest
  <2>1. pc = "done" /\ run \in {"COMPLETED", "ABORTED", "INCONSISTENT"}
    BY DEF Ended, EndsDecided
  <2>2. /\ Cardinality(dlq) \in Nat
        /\ Cardinality(dlq) = 0 <=> dlq = {}
    BY LettersFinite DEF TypeOK, StoresTyped
  <2>3. /\ Cardinality(FloorViolations) \in Nat
        /\ Cardinality(FloorViolations) = 0 <=> FloorViolations = {}
    <3> DEFINE F == {"intent order", "duplicate payment", "rollback claim"}
    <3>1. IsFiniteSet(F)
      BY ThreeFinite
    <3>2. FloorViolations \subseteq F
      BY DEF FloorViolations
    <3> HIDE DEF F
    <3> QED
      BY <3>1, <3>2, FS_Subset, FS_CardinalityType, FS_EmptySet
  <2>4. CASE FloorViolations # {}
    <3>1. ReleaseStatus = "FAIL"
      BY <2>4 DEF ReleaseStatus, ReportStatus
    <3>2. HardBlockers > 0
      BY <2>2, <2>3, <2>4 DEF HardBlockers
    <3> QED
      BY <3>1, <3>2
  <2>5. CASE FloorViolations = {} /\ run = "INCONSISTENT"
    <3>1. ReleaseStatus = "INCONSISTENT"
      BY <2>5 DEF ReleaseStatus, ReportStatus
    <3>2. dlq # {}
      BY <2>1, <2>5 DEF Accounted, NothingSwept
    <3>3. HardBlockers > 0
      BY <2>2, <2>3, <3>2 DEF HardBlockers
    <3> QED
      BY <3>1, <3>3
  <2>6. CASE FloorViolations = {} /\ run # "INCONSISTENT"
    <3>1. ReleaseStatus \in {"PASS", "PASS_WITH_CONDITIONS"}
      BY <2>6 DEF ReleaseStatus, ReportStatus
    <3>2. dlq = {}
      BY <2>1, <2>6 DEF LettersLast, RecoveryPlaces
    <3>3. HardBlockers = 0
      BY <2>2, <2>3, <2>6, <3>2 DEF HardBlockers
    <3>4. CASE run = "COMPLETED"
      <4>1. \A s \in Steps : Stands(s)
        BY <2>1, <3>4 DEF CompletedStands, Stands
      <4> QED
        BY <3>1, <3>3, <3>4, <4>1
    <3>5. CASE run = "ABORTED"
      <4>1. ASSUME NEW s \in Steps, NEW k \in Sessions, <<s, k>> \in eff, Comp[s] # "none"
            PROVE  \E j \in Sessions : <<s, j, k>> \in undone
        <5>1. PICK i \in eff : i = <<s, k>>
          BY <4>1
        <5>2. i[1] = s /\ i[2] = k
          BY <5>1
        <5> QED
          BY <2>1, <3>5, <4>1, <5>1, <5>2 DEF AbortedLeavesNothing
      <4>2. \A s \in Steps : Stands(s) => Comp[s] = "none"
        BY <4>1 DEF Stands
      <4> QED
        BY <3>1, <3>3, <3>5, <4>2
    <3> QED
      BY <2>1, <2>6, <3>4, <3>5
  <2> QED
    BY <2>4, <2>5, <2>6
<1>2. ResumedOnly
  BY DEF UnwindsOnce, ResumedOnly
<1>3. Recorded => EndsDecided
  BY DEF Recorded
<1> QED
  BY <1>1, <1>2, <1>3, TrailImplementsCoordinator, TypeCorrect, RecordedInvariant,
     AccountedInvariant,
     LettersLastInvariant, CompletedStandsCorrect, AbortedLeavesNothingCorrect, PTL

------------------------------------------------------------------------------
(* Where a run broke *)

\* A run that ended before its plan did shows where: every step before that is on
\* record as successful, none behind it as reached.
LEMMA BreakFound ==
  ASSUME TypeOK, TrailTypeOK, RecordsFollow, EndsDecided, pc = "done", run # "COMPLETED"
  PROVE  /\ cur \in Steps /\ run \in {"ABORTED", "INCONSISTENT"}
         /\ \A s \in Steps : OutcomeOf(s) = "success" <=> s < cur
         /\ \/ Broke /\ BreakStep = cur
            \/ "deadline" \in Faults /\ (Broke \/ \A s \in Steps : ~(s < cur))
<1> USE DEF OutcomeOf
<1>1. cur \in Steps /\ run \in {"ABORTED", "INCONSISTENT"} /\ Unclean
  BY DEF EndsDecided, Stopped, RecoveryPlaces, Unclean
<1>2. /\ \A s \in Steps : s < cur => executions[s].outcome = "success"
      /\ \A s \in Steps : s > cur => executions[s] = NotReached
      /\ \/ executions[cur] = Reached \/ executions[cur].outcome = "failure"
         \/ executions[cur] = NotReached /\ "deadline" \in Faults
  BY <1>1 DEF RecordsFollow, Started, Stopped
<1>3. /\ NotReached.outcome = "not_reached" /\ Reached.outcome = "pending"
      /\ ~Reached.reconciled /\ Reached # NotReached
  BY DEF NotReached, Reached
<1>4. cur \in Nat /\ cur > 0 /\ \A s \in Steps : s \in Nat /\ s > 0
  BY <1>1, Numbers DEF Steps
<1>5. \A s \in Steps : s < cur \/ s > cur \/ s = cur
  BY <1>4
<1>6. \A s \in Steps : executions[s].outcome = "success" <=> s < cur
  BY <1>2, <1>3, <1>4, <1>5
<1>7. \A s \in Steps : s < cur => executions[s] # NotReached
  BY <1>2, <1>3
<1>8. \A A : A = {cur} => Min(A) = cur
  BY <1>4 DEF Min
<1>9. CASE executions[cur].outcome = "failure"
  <2>1. Failures = {cur}
    BY <1>1, <1>2, <1>3, <1>5, <1>9 DEF Failures, Ran
  <2>2. BreakStep = cur
    BY <1>8, <2>1 DEF BreakStep
  <2> QED
    BY <1>1, <1>4, <1>6, <2>2 DEF Broke
<1>10. CASE executions[cur] = Reached
  <2>1. Failures = {}
    BY <1>2, <1>3, <1>5, <1>10 DEF Failures, Ran
  <2>2. Unresolved = {cur}
    BY <1>1, <1>2, <1>3, <1>5, <1>10 DEF Unresolved, Ran
  <2>3. BreakStep = cur
    BY <1>1, <1>8, <2>1, <2>2 DEF BreakStep
  <2> QED
    BY <1>1, <1>4, <1>6, <2>3 DEF Broke
<1>11. CASE executions[cur] = NotReached /\ "deadline" \in Faults
  <2>1. Failures = {} /\ Unresolved = {}
    BY <1>2, <1>3, <1>5, <1>11 DEF Failures, Unresolved, Ran
  <2>2. Ran = {s \in Steps : s < cur}
    BY <1>2, <1>3, <1>5, <1>7, <1>11 DEF Ran
  <2>3. CASE cur = 1
    BY <1>1, <1>4, <1>6, <1>11, <2>3
  <2>4. CASE cur # 1
    <3>1. cur - 1 \in Steps /\ cur - 1 < cur /\ \A s \in Steps : s < cur => s <= cur - 1
      BY <1>1, <1>4, <2>4, PlanAssumption DEF Steps
    <3>2. cur - 1 \in Ran /\ \A s \in Ran : s <= cur - 1
      BY <2>2, <3>1
    <3>3. Max(Ran) \in Ran
      BY <3>2 DEF Max
    <3>4. BreakStep = Max(Ran)
      BY <1>1, <2>1, <3>2 DEF BreakStep
    <3>5. BreakStep # 0
      BY <1>4, <3>3, <3>4 DEF Ran
    <3> QED
      BY <1>1, <1>6, <1>11, <3>5 DEF Broke
  <2> QED
    BY <2>3, <2>4
<1> QED
  BY <1>2, <1>9, <1>10, <1>11

\* THEOREM: without a deadline a broken run's break is found at the step the loop stopped
\* at, and called "pre-pivot" only if the pivot never acted.
THEOREM BreakLocatedCorrect ==
  ASSUME Truthful, ResumedOnly, "deadline" \notin Faults
  PROVE  TrailSpec => []BreakLocated
<1>1. TypeOK /\ TrailTypeOK /\ RecordsFollow /\ EndsDecided /\ PivotHonesty => BreakLocated
  <2> SUFFICES ASSUME TypeOK, TrailTypeOK, RecordsFollow, EndsDecided, PivotHonesty, Ended,
                      run # "COMPLETED"
               PROVE  /\ Broke /\ BreakStep = cur
                      /\ Phase = "pre-pivot" => ~Acted(Pivot)
    BY DEF BreakLocated
  <2>1. Broke /\ BreakStep = cur
    BY BreakFound DEF Ended
  <2>2. ASSUME Acted(Pivot) PROVE Phase # "pre-pivot"
    <3>1. pivotCrossed
      BY <2>2 DEF Acted, PivotHonesty, Ended
    <3> QED
      BY <3>1 DEF Phase
  <2> QED
    BY <2>1, <2>2
<1>2. Recorded => RecordsFollow /\ EndsDecided
  BY DEF Recorded
<1> QED
  BY <1>1, <1>2, TrailImplementsCoordinator, TypeCorrect, TrailTypeCorrect, RecordedInvariant,
     PivotHonestyCorrect, PTL

------------------------------------------------------------------------------
(* What the scorer looks for comes in pairs *)

\* An append turns one event that is due into one the log has.
LEMMA AppendShifts ==
  ASSUME TrailTypeOK, Append1, NEW kind \in Kinds
  PROVE  /\ Has(kind) => Has(kind)'
         /\ Has(kind)' => Has(kind) \/ Due(kind)
         /\ Due(kind)' => Due(kind)
         /\ Due(kind) => Due(kind)' \/ Has(kind)'
<1>1. PICK e \in Owing : logged' = Scanned(e) /\ Owing = Owing' \cup {e}
  BY Appending
<1>2. logged'.kinds = logged.kinds \cup ({e.event} \cap Kinds)
  BY <1>1 DEF Scanned
<1> QED
  BY <1>1, <1>2 DEF Has, Due

\* Nothing else changes what the log has.
LEMMA HasStays ==
  ASSUME [TrailNext]_allVars, ~Append1
  PROVE  \A kind : Has(kind)' = Has(kind)
BY OnlyAppends DEF Has

\* With nothing owed, nothing is due.
LEMMA NothingDue == owed = <<>> => \A kind : ~Due(kind)
BY NothingOwed DEF Due

\* What dies, or recovers, is where it was.
LEMMA DownStays ==
  ASSUME RecoveringDown,
         \/ StartRecovery \/ FinishReconciliation \/ RecoveryDies
         \/ \E s \in Steps, k \in Sessions : RecoverRow(s, k) \/ RecoverUndoRow(s, k)
  PROVE  pc = "down" /\ UNCHANGED pc
<1>1. pc = "down"
  BY DEF StartRecovery, FinishReconciliation, RecoveryDies, RecoverRow, RecoverUndoRow,
         RecoveringDown
<1> QED
  BY <1>1, StandsStill

\* An unknown outcome, and the query that follows it.
LEMMA DoubtIs ==
  ASSUME NEW s, owed = Doubt(s)
  PROVE  /\ Due("ACTION_UNKNOWN") /\ Due("RECONCILIATION_START")
         /\ TrailTypeOK /\ Append1 =>
              /\ ~Due("ACTION_UNKNOWN")' /\ Due("RECONCILIATION_START")'
<1>1. Owing = {Event("ACTION_UNKNOWN", s), Event("RECONCILIATION_START", s)}
  BY Elements DEF Doubt, Owing
<1>2. DOMAIN owed = {1, 2} /\ Len(owed) = 2 /\ owed[2] = Event("RECONCILIATION_START", s)
  BY DEF Doubt
<1>3. ASSUME TrailTypeOK, Append1
      PROVE  Owing' = {Event("RECONCILIATION_START", s)}
  <2>1. owed' \in Seq(Events) /\ Len(owed') = 1
    BY <1>2, <1>3, Appending
  <2>2. DOMAIN owed' = {1} /\ owed'[1] = owed[2]
    BY <1>3, <2>1, LenProperties, Appending
  <2> QED
    BY <1>2, <2>2 DEF Owing
<1>4. ASSUME TrailTypeOK, Append1
      PROVE  ~Due("ACTION_UNKNOWN")' /\ Due("RECONCILIATION_START")'
  BY <1>3, <1>4, EventFields DEF Due
<1> QED
  BY <1>1, <1>4, EventFields DEF Due

\* Every step keeps doubts paired with their reconciliation.
LEMMA UnknownPairedStep ==
  ASSUME ResumedOnly, TypeOK, TrailTypeOK, Bookkeeping, RecoveringDown, UnknownPaired,
         [TrailNext]_allVars
  PROVE  UnknownPaired'
<1> DEFINE AU == "ACTION_UNKNOWN"
           RS == "RECONCILIATION_START"
           Waits == Served(PendingRows) # {}
           Lost == Has(AU) /\ ~Has(RS) =>
                     \/ pc # "down" /\ Due(RS)
                     \/ pc = "down" /\ Waits /\ (recovering = "yes" => Due(RS))
           Doubted == Due(AU) => pc = "query" /\ owed = Doubt(cur)
           Asking == Due(RS) => pc = "down" \/ (pc = "query" /\ wal[cur][session] = "UNKNOWN")
           Asked == pc \in {"unknown", "query"} => cur \notin Adapterless
<1>0. {AU, RS} \subseteq Kinds
  BY DEF Kinds
<1>1. Lost /\ Doubted /\ Asking /\ Asked
  BY DEF UnknownPaired
<1>2. SUFFICES Lost' /\ Doubted' /\ Asking' /\ Asked'
  BY DEF UnknownPaired
<1>3. UNCHANGED <<wal>> => Waits' = Waits
  BY DEF Served, PendingRows
<1> HIDE DEF Waits
<1>4. CASE Append1
  <2>1. UNCHANGED <<pc, wal, cur, session, recovering>>
    BY <1>4, Appending DEF vars, durable, progress
  <2>2. \A kind \in {AU, RS} : /\ Has(kind) => Has(kind)'
                               /\ Has(kind)' => Has(kind) \/ Due(kind)
                               /\ Due(kind)' => Due(kind)
                               /\ Due(kind) => Due(kind)' \/ Has(kind)'
    BY <1>0, <1>4, AppendShifts
  <2>3. Due(AU) => ~Due(AU)' /\ Due(RS)'
    BY <1>1, <1>4, DoubtIs
  <2>4. Doubted' /\ Asking' /\ Asked'
    BY <1>1, <2>1, <2>2, <2>3
  <2>5. Lost'
    BY <1>1, <1>3, <2>1, <2>2, <2>3
  <2> QED
    BY <2>4, <2>5
<1>5. CASE (Landing \/ UNCHANGED allVars) /\ UNCHANGED trailVars
  <2>1. UNCHANGED <<pc, cur, session, owed, logged, recovering>>
    BY <1>5, StandsStill DEF trailVars
  <2>2. UNCHANGED wal
    BY <1>5 DEF Landing, Land, LandEffect, LandUndo, allVars, vars, durable
  <2>3. Has(AU)' = Has(AU) /\ Has(RS)' = Has(RS) /\ Due(AU)' = Due(AU) /\ Due(RS)' = Due(RS)
    BY <2>1 DEF Has, Due, Owing
  <2>4. (owed = Doubt(cur))' = (owed = Doubt(cur))
    BY <2>1
  <2> QED
    BY <1>1, <1>3, <2>1, <2>2, <2>3, <2>4
<1>6. CASE Die
  <2>1. pc' = "down" /\ UNCHANGED <<wal, recovering>> /\ pc \notin {"down", "idle"} /\ owed' = <<>>
    BY <1>6 DEF Die, Crash, LoseProcess, durable, ForwardPlaces, RecoveryPlaces
  <2>2. Has(AU)' = Has(AU) /\ Has(RS)' = Has(RS)
    BY <1>6 DEF Die, Has
  <2>3. ~Due(AU)' /\ ~Due(RS)'
    BY <2>1 DEF Due, Owing
  <2>4. recovering = "no"
    BY <2>1 DEF RecoveringDown, TrailTypeOK
  <2>5. ASSUME Has(AU), ~Has(RS) PROVE Waits
    <3>1. pc = "query" /\ wal[cur][session] = "UNKNOWN" /\ cur \notin Adapterless
      BY <1>1, <2>1, <2>5
    <3>2. cur \in Steps /\ session \in Sessions
      BY <3>1, AtStep DEF ForwardPlaces
    <3>3. <<cur, session>> \in PendingRows
      BY <3>1, <3>2 DEF PendingRows, Pending
    <3> QED
      BY <3>1, <3>3 DEF Waits, Served
  <2> QED
    BY <1>3, <2>1, <2>2, <2>3, <2>4, <2>5
<1>7. CASE RecoveryDies
  <2>1. pc = "down" /\ UNCHANGED pc
    BY <1>7, DownStays
  <2>2. recovering' = "no" /\ owed' = <<>> /\ UNCHANGED <<wal, logged>>
    BY <1>7 DEF RecoveryDies, vars, durable
  <2>3. ~Due(AU)' /\ ~Due(RS)' /\ Has(AU)' = Has(AU) /\ Has(RS)' = Has(RS)
    BY <2>2 DEF Due, Owing, Has
  <2> QED
    BY <1>1, <1>3, <2>1, <2>2, <2>3
<1>8. CASE owed = <<>> /\ ~Append1 /\ ~Die /\ ~RecoveryDies
           /\ ~((Landing \/ UNCHANGED allVars) /\ UNCHANGED trailVars)
  <2>1. ~Due(AU) /\ ~Due(RS)
    BY <1>8, NothingDue
  <2>2. Has(AU)' = Has(AU) /\ Has(RS)' = Has(RS)
    BY <1>8, HasStays
  <2>3. Due(AU)' => LoseTrack
    BY <1>8, NewByKind DEF Due
  <2>4. Due(RS)' => LoseTrack \/ StartRecovery
    BY <1>8, NewByKind DEF Due
  <2>5. CASE LoseTrack
    <3>1. pc = "unknown" /\ pc' = "query" /\ SetRow(cur, session, "UNKNOWN")
          /\ UNCHANGED <<cur, session>>
          /\ owed' = Doubt(cur)
      BY <2>5 DEF LoseTrack, MarkUnknown, progress, Owes
    <3>2. cur \in Steps /\ session \in Sessions /\ wal[cur][session] # "absent"
      BY <3>1, AtStep DEF ForwardPlaces, Bookkeeping, AttemptTracked, Attempting
    <3>3. wal'[cur][session] = "UNKNOWN"
      BY <3>1, <3>2, SetRowIs DEF TypeOK
    <3>4. ~(Has(AU) /\ ~Has(RS))
      BY <1>1, <2>1, <3>1
    <3>5. Lost'
      BY <2>2, <3>4
    <3>6. Doubted' /\ Asking'
      BY <3>1, <3>3
    <3>7. Asked'
      BY <1>1, <3>1
    <3> QED
      BY <3>5, <3>6, <3>7
  <2>6. CASE pc = "down" /\ ~LoseTrack
    <3>1. ~Due(AU)'
      BY <2>3, <2>6
    <3>2. CASE StartRecovery
      <4>1. pc' = "down" /\ UNCHANGED wal
        BY <3>2, DownStays DEF StartRecovery, vars, durable
      <4>2. ASSUME Waits PROVE Due(RS)'
        <5>1. Served(PendingRows \cup PendingUndoRows) # {}
          BY <4>2 DEF Waits, Served
        <5>2. owed' = <<RunEvent("CRASH_RECOVERY_START"), RunEvent(RS)>>
          BY <3>2, <5>1, Joined DEF StartRecovery
        <5>3. RunEvent(RS) \in Owing'
          BY <5>2, Elements DEF Owing
        <5> QED
          BY <5>3, EventFields DEF Due
      <4> QED
        BY <1>1, <1>3, <2>1, <2>2, <2>6, <3>1, <4>1, <4>2
    <3>3. CASE ~StartRecovery
      <4>1. ~Due(RS)'
        BY <2>4, <2>6, <3>3
      <4>2. Doubted' /\ Asking'
        BY <3>1, <4>1
      <4>3. CASE FinishReconciliation \/ Resume
        <5>1. PendingRows = {}
          BY <4>3 DEF FinishReconciliation, Resume, ResumeWorkflow
        <5>2. ~Waits
          BY <5>1 DEF Waits, Served
        <5>3. pc' \in {"down", "loop"}
          BY <4>3, <2>6, StandsStill DEF Resume, ResumeWorkflow, NewSession
        <5> QED
          BY <1>1, <2>1, <2>2, <2>6, <4>2, <5>2, <5>3
      <4>4. CASE \E s \in Steps, k \in Sessions : RecoverRow(s, k) \/ RecoverUndoRow(s, k)
        <5>1. recovering = "yes" /\ pc' = "down"
          BY <2>6, <4>4, StandsStill DEF RecoverRow, RecoverUndoRow
        <5> QED
          BY <1>1, <2>1, <2>2, <2>6, <4>2, <5>1
      <4>5. ~(Run \/ RunAgain \/ Working \/ ComeBack)
        BY <1>8, <2>6, AtWork
        DEF ResumedOnly, Run, RunAgain, RunWorkflow, ComeBack, Reopen, Live, ForwardPlaces,
            RecoveryPlaces
      <4>6. CASE Landing
        <5>1. UNCHANGED trailVars
          BY <4>6 DEF Landing
        <5> QED
          BY <1>8, <4>6, <5>1
      <4>7. CASE UNCHANGED allVars
        <5>1. UNCHANGED trailVars
          BY <4>7 DEF allVars
        <5> QED
          BY <1>8, <4>7, <5>1
      <4> QED
        BY <1>8, <3>3, <4>3, <4>4, <4>5, <4>6, <4>7 DEF TrailNext
    <3> QED
      BY <3>2, <3>3
  <2>7. CASE pc # "down" /\ ~LoseTrack
    <3>1. ~(Has(AU) /\ ~Has(RS))
      BY <1>1, <2>1, <2>7
    <3>2. ~StartRecovery
      BY <2>7 DEF StartRecovery
    <3>3. ~Due(AU)' /\ ~Due(RS)'
      BY <2>3, <2>4, <2>7, <3>2
    <3>4. Lost' /\ Doubted' /\ Asking'
      BY <2>2, <3>1, <3>3
    <3>5. Asked'
      <4> SUFFICES ASSUME pc' \in {"unknown", "query"} PROVE cur' \notin Adapterless
        OBVIOUS
      <4>1. CASE \E o \in Outcomes : Call(o)
        BY <4>1 DEF Call, Execute
      <4>2. CASE UNCHANGED <<pc, cur>>
        BY <1>1, <4>2
      <4>3. StepForward => (\E o \in Outcomes : Execute(o)) \/ MarkUnknown
        BY DEF StepForward, SkipCommitted, DeadlinePasses, Complete, ResolveApproval,
               NoApprovalNeeded, ReuseResult, ClaimKey, MarkCompleted,
          Admit, FailFast, MarkRunning, MissingAdapter, PostconditionPasses,
          PostconditionFails, RecordSuccess, QueryFinds, QueryFindsNothing,
          QueryUndetermined, Retry, GiveUpForward, GiveUpUnwinding, HandleFailure, EscalateForward
      <4>4. (\E o \in Outcomes : Execute(o)) => cur' \notin Adapterless
        BY DEF Execute
      <4>5. MarkUnknown => cur' \notin Adapterless
        BY <1>1 DEF MarkUnknown, progress
      <4>6. ~StepBackward
        BY DEF StepBackward, Recover, UndoBlocked, UndoStart, UndoMark, UndoExecute, UndoSucceeds,
               UndoFails, DeadLetter, NextAction, FinishRecovery
      <4>7. ~(RunWorkflow \/ ResumeWorkflow \/ Crash \/ Reopen)
        BY DEF RunWorkflow, ResumeWorkflow, NewSession, Crash, Reopen, LoseProcess
      <4>8. Reconcile \/ Land \/ UNCHANGED vars => UNCHANGED <<pc, cur>>
        BY DEF Reconcile, ReconcileRow, ReconcileUndoRow, Land, LandEffect, LandUndo, vars, progress
      <4>9. [Next]_vars
        BY TrailImplements
      <4> QED
        BY <4>2, <4>3, <4>4, <4>5, <4>6, <4>7, <4>8, <4>9 DEF Next, CoordinatorStep
    <3> QED
      BY <3>4, <3>5
  <2> QED
    BY <2>5, <2>6, <2>7
<1> QED
  BY <1>4, <1>5, <1>6, <1>7, <1>8, InTurn

\* Every step keeps recoveries paired with their end.
LEMMA RecoveryPairedStep ==
  ASSUME ResumedOnly, TrailTypeOK, RecoveringDown, RecoveryPaired, [TrailNext]_allVars
  PROVE  RecoveryPaired'
<1> DEFINE CS == "CRASH_RECOVERY_START"
           CC == "CRASH_RECOVERY_COMPLETE"
<1>0. {CS, CC} \subseteq Kinds
  BY DEF Kinds
<1>1. Has(CS) \/ Due(CS) => Has(CC) \/ (pc = "down" /\ (recovering = "done" => Due(CC)))
  BY DEF RecoveryPaired
<1>2. SUFFICES Has(CS)' \/ Due(CS)'
               => Has(CC)' \/ (pc' = "down" /\ (recovering' = "done" => Due(CC)'))
  BY DEF RecoveryPaired
<1>3. CASE Append1
  <2>1. UNCHANGED <<pc, recovering>>
    BY <1>3, Appending DEF vars
  <2>2. \A kind \in {CS, CC} : /\ Has(kind) => Has(kind)'
                               /\ Has(kind)' => Has(kind) \/ Due(kind)
                               /\ Due(kind)' => Due(kind)
                               /\ Due(kind) => Due(kind)' \/ Has(kind)'
    BY <1>0, <1>3, AppendShifts
  <2> QED
    BY <1>1, <2>1, <2>2
<1>4. CASE (Landing \/ UNCHANGED allVars) /\ UNCHANGED trailVars
  <2>1. UNCHANGED <<pc, owed, logged, recovering>>
    BY <1>4, StandsStill DEF trailVars
  <2>2. \A kind : Has(kind)' = Has(kind) /\ Due(kind)' = Due(kind)
    BY <2>1 DEF Has, Due, Owing
  <2> QED
    BY <1>1, <2>1, <2>2
<1>5. CASE Die \/ RecoveryDies
  <2>1. \A kind : Has(kind)' = Has(kind) /\ ~Due(kind)'
    BY <1>5 DEF Die, RecoveryDies, Has, Due, Owing
  <2>2. pc' = "down" /\ recovering' # "done"
    BY <1>5, DownStays DEF Die, RecoveryDies, Crash, LoseProcess, RecoveringDown, ForwardPlaces,
       RecoveryPlaces
  <2> QED
    BY <1>1, <2>1, <2>2
<1>6. CASE owed = <<>> /\ ~Append1 /\ ~Die /\ ~RecoveryDies
           /\ ~((Landing \/ UNCHANGED allVars) /\ UNCHANGED trailVars)
  <2>1. ~Due(CS) /\ ~Due(CC)
    BY <1>6, NothingDue
  <2>2. Has(CS)' = Has(CS) /\ Has(CC)' = Has(CC)
    BY <1>6, HasStays
  <2>3. Due(CS)' => StartRecovery
    BY <1>6, NewByKind DEF Due
  <2>4. CASE StartRecovery
    BY <2>4, DownStays DEF StartRecovery
  <2>5. CASE FinishReconciliation
    <3>1. owed' = <<RunEvent(CC)>>
      BY <2>5 DEF FinishReconciliation
    <3>2. RunEvent(CC) \in Owing'
      BY <3>1, Elements DEF Owing
    <3>3. Due(CC)'
      BY <3>2, EventFields DEF Due
    <3> QED
      BY <2>5, <3>3, DownStays
  <2>6. CASE ~StartRecovery /\ ~FinishReconciliation
    <3>1. ~Due(CS)'
      BY <2>3, <2>6
    <3>2. CASE Has(CC)
      BY <2>2, <3>2
    <3>3. CASE ~Has(CC) /\ Has(CS)
      <4>1. pc = "down" /\ recovering # "done"
        BY <1>1, <2>1, <3>3
      <4>2. CASE \E s \in Steps, k \in Sessions : RecoverRow(s, k) \/ RecoverUndoRow(s, k)
        BY <4>1, <4>2, StandsStill DEF RecoverRow, RecoverUndoRow, Owes, Silent
      <4>3. ~(Run \/ RunAgain \/ Resume \/ Working \/ ComeBack)
        BY <1>6, <4>1, AtWork
        DEF ResumedOnly, Run, RunAgain, RunWorkflow, Resume, ComeBack, Reopen, Live, ForwardPlaces,
            RecoveryPlaces
      <4>4. Landing \/ UNCHANGED allVars => UNCHANGED trailVars
        BY DEF Landing, allVars
      <4> QED
        BY <1>6, <2>6, <4>2, <4>3, <4>4 DEF TrailNext
    <3>4. CASE ~Has(CC) /\ ~Has(CS)
      BY <2>2, <3>1, <3>4
    <3> QED
      BY <3>2, <3>3, <3>4
  <2> QED
    BY <2>4, <2>5, <2>6
<1> QED
  BY <1>3, <1>4, <1>5, <1>6, InTurn

\* THEOREM: an unknown outcome is never without its reconciliation, and no run goes on
\* after a recovery that was not completed, crash or no crash.
THEOREM PairedInvariant ==
  ASSUME ResumedOnly
  PROVE  TrailSpec => [](UnknownPaired /\ RecoveryPaired)
<1>1. TrailInit => UnknownPaired /\ RecoveryPaired
  BY NothingDue DEF TrailInit, Init, UnknownPaired, RecoveryPaired, Has
<1>2. /\ TypeOK /\ TrailTypeOK /\ Bookkeeping /\ TrailHonest /\ UnknownPaired /\ RecoveryPaired
      /\ [TrailNext]_allVars
      => UnknownPaired' /\ RecoveryPaired'
  BY UnknownPairedStep, RecoveryPairedStep DEF TrailHonest
<1> QED
  BY <1>1, <1>2, TrailImplementsCoordinator, TypeCorrect, TrailTypeCorrect, BookkeepingInvariant,
     TrailHonestInvariant, PTL DEF TrailSpec

------------------------------------------------------------------------------
(* The approval gate, as the trail shows it *)

\* Where a step of the program leads.
LEMMA Moves ==
  ASSUME [TrailNext]_allVars
  PROVE  \/ UNCHANGED <<pc, cur>>
         \/ pc' = "down"
         \/ (Run \/ RunAgain \/ Resume) /\ pc' = "loop" /\ cur' = 1
         \/ (Skip \/ Reuse \/ Succeed) /\ pc \in {"loop", "claim", "record"} /\ pc' = "loop"
            /\ cur' = cur + 1
         \/ (PassGate \/ Decide("granted")) /\ pc = "loop" /\ pc' = "claim" /\ cur' = cur
         \/ (TimeOut \/ Decide("denied")) /\ pc = "loop" /\ pc' = "recover" /\ cur' = cur
         \/ Finish /\ pc = "loop" /\ pc' = "done" /\ cur' = cur
         \/ /\ pc \in ForwardPlaces \ {"loop"} /\ cur' = cur
            /\ pc' \in (ForwardPlaces \ {"loop"}) \cup {"recover", "done"}
         \/ /\ pc \in RecoveryPlaces /\ cur' = cur
            /\ pc' \in (RecoveryPlaces \ {"recover"}) \cup {"done"}
<1>1. CASE \/ Append1 \/ StartRecovery \/ FinishReconciliation \/ RecoveryDies \/ Landing
           \/ UNCHANGED allVars
           \/ \E s \in Steps, k \in Sessions : RecoverRow(s, k) \/ RecoverUndoRow(s, k)
  BY <1>1, StandsStill
<1>2. CASE Die \/ ComeBack
  BY <1>2 DEF Die, Crash, ComeBack, Reopen, LoseProcess
<1>3. CASE Run \/ RunAgain \/ Resume
  BY <1>3 DEF Run, RunAgain, Resume, RunWorkflow, ResumeWorkflow, NewSession
<1>4. CASE Skip \/ Reuse \/ Succeed
  BY <1>4 DEF Skip, SkipCommitted, Reuse, ReuseResult, Succeed, RecordSuccess, MarkCompleted
<1>5. CASE Request \/ PassGate \/ TimeOut \/ Finish
  BY <1>5 DEF Request, PassGate, NoApprovalNeeded, TimeOut, DeadlinePasses, Finish, Complete, vars,
     progress
<1>6. CASE Decide("granted") \/ Decide("denied")
  BY <1>6 DEF Decide, ResolveApproval, Granted, progress
<1>7. CASE \E o \in Outcomes : Call(o)
  <2>1. PICK o \in Outcomes : Call(o)
    BY <1>7
  <2>2. pc = "execute" /\ pc' \in {"verify", "unknown", "failed"} /\ UNCHANGED cur
    BY <2>1, OutcomeClassified DEF Call, Execute
  <2> QED
    BY <2>2 DEF ForwardPlaces
<1>8. CASE Claim \/ StopAtBreaker \/ Announce \/ StopAtAdapter \/ Judge \/ LoseTrack \/ Query
           \/ TryAgain \/ GiveUp \/ Escalate
  BY <1>8
  DEF Claim, ClaimKey, Admit, StopAtBreaker, FailFast, Announce, MarkRunning, StopAtAdapter,
      MissingAdapter, Judge, PostconditionPasses, PostconditionFails, LoseTrack, MarkUnknown,
      Query, QueryFinds, QueryFindsNothing, QueryUndetermined, TryAgain, Retry, GiveUp,
      GiveUpForward, GiveUpUnwinding, HandleFailure, Escalate, EscalateForward, progress,
      ForwardPlaces
<1>9. CASE Unwind \/ Undo \/ UndoDone \/ UndoGivenUp \/ FinishUnwinding
  BY <1>9
  DEF Unwind, Undo, UndoDone, UndoGivenUp, FinishUnwinding, Recover, UndoBlocked, UndoStart,
      UndoMark,
      UndoExecute, UndoSucceeds, UndoFails, DeadLetter, NextAction, FinishRecovery, progress,
      RecoveryPlaces
<1> QED
  BY <1>1, <1>2, <1>3, <1>4, <1>5, <1>6, <1>7, <1>8, <1>9 DEF TrailNext, Working

\* A step awaiting its approval still awaits it after a step that opens no row of its kind.
LEMMA StillAwaited ==
  ASSUME TypeOK, Bookkeeping, [Next]_vars, NEW s \in Steps, Awaited(s),
         \A k \in Sessions : wal'[s][k] = "absent"
  PROVE  Awaited(s)'
<1>1. \A t \in Steps, k \in Sessions : wal[t][k] = "COMMITTED" => wal'[t][k] = "COMMITTED"
  BY CommittedStays
<1> QED
  BY <1>1 DEF Awaited

\* Every step keeps what is said of approvals as long as nobody has decided.
LEMMA ApprovalPairedStep ==
  ASSUME ResumedOnly, "deadline" \notin Faults, TypeOK, TrailTypeOK, Bookkeeping, Ownership,
         Reckoned,
         RecoveringDown, ApprovalPaired, [TrailNext]_allVars
  PROVE  ApprovalPaired'
<1> DEFINE REQ == "APPROVAL_REQUESTED"
           GO == "APPROVAL_GRANTED"
           NO == "APPROVAL_DENIED"
           NoRow == \A s \in NeedsApproval, k \in Sessions : wal[s][k] = "absent"
           Ahead == Started => \A s \in NeedsApproval : ~(s < cur)
           AtGate == pc \in ForwardPlaces \ {"loop"} /\ cur \in NeedsApproval => pc = "claim" /\ Due(GO)
           Requested == Due(REQ) => pc = "loop" /\ cur \in NeedsApproval
           Place(s) == \/ pc = "down"
                       \/ pc = "loop" /\ cur <= s
                       \/ pc = "claim" /\ cur = s
                       \/ pc = "recover" /\ cur = s /\ Due(NO)
           Waiting == Has(REQ) => \E s \in Steps : Awaited(s) /\ Place(s)
<1>0. {REQ, GO, NO} \subseteq Kinds
  BY DEF Kinds
<1>1. /\ ~Decided => NoRow /\ Ahead /\ AtGate /\ Waiting
      /\ Requested
  BY DEF ApprovalPaired
<1>2. SUFFICES /\ ~Decided' => NoRow' /\ Ahead' /\ AtGate' /\ Waiting'
               /\ Requested'
  BY DEF ApprovalPaired
<1>3. /\ cur \in Nat /\ session \in Nat /\ (\A s \in Steps : s \in Nat)
      /\ NeedsApproval \subseteq Steps
      /\ cur \in 1..N+1 /\ [Next]_vars
  BY Numbers, PlanAssumption, TrailImplements DEF TypeOK, ProgressTyped
<1>4. \A s \in Steps : order[s] > 0 => \E k \in Sessions : wal[s][k] = "COMMITTED"
  BY DEF Reckoned, CompletedHasRow, TypeOK, PlacesTyped, CompletedTyped, Sessions
<1>5. CASE Append1
  <2>1. UNCHANGED <<pc, cur, wal>>
    BY <1>5, Appending DEF vars, progress, durable
  <2>2. \A kind \in {REQ, GO, NO} :
          /\ Has(kind) => Has(kind)'
          /\ Has(kind)' => Has(kind) \/ Due(kind)
          /\ Due(kind)' => Due(kind)
          /\ Due(kind) => Due(kind)' \/ Has(kind)'
    BY <1>0, <1>5, AppendShifts
  <2>3. Requested'
    BY <1>1, <2>1, <2>2
  <2>4. ASSUME ~Decided' PROVE NoRow' /\ Ahead' /\ AtGate' /\ Waiting'
    <3>1. ~Decided /\ ~Has(GO)' /\ ~Has(NO)'
      BY <2>2, <2>4 DEF Decided
    <3>2. NoRow' /\ Ahead'
      BY <1>1, <2>1, <3>1 DEF Started
    <3>3. AtGate'
      BY <1>1, <2>1, <2>2, <3>1
    <3>4. ASSUME NEW s \in Steps PROVE /\ Awaited(s)' = Awaited(s)
                                       /\ Place(s) => Place(s)'
      BY <2>1, <2>2, <3>1 DEF Awaited
    <3>5. CASE Has(REQ)
      BY <1>1, <3>1, <3>2, <3>3, <3>4, <3>5
    <3>6. CASE Due(REQ)
      <4>1. pc = "loop" /\ cur \in NeedsApproval /\ cur \in Steps
        BY <1>1, <1>3, <3>6
      <4>2. \A t \in Steps : t < cur => order[t] > 0
        BY <4>1 DEF Reckoned, PlanFollowed, ForwardPlaces
      <4>3. Awaited(cur)
        BY <1>1, <1>4, <3>1, <4>1, <4>2 DEF Awaited
      <4>4. Place(cur)
        BY <1>3, <4>1
      <4> QED
        BY <3>2, <3>3, <3>4, <4>1, <4>3, <4>4
    <3> QED
      BY <2>2, <3>2, <3>3, <3>5, <3>6
  <2> QED
    BY <2>3, <2>4
<1>6. CASE (Landing \/ UNCHANGED allVars) /\ UNCHANGED trailVars
  <2>1. UNCHANGED <<pc, cur, owed, logged>>
    BY <1>6, StandsStill DEF trailVars
  <2>2. UNCHANGED wal
    BY <1>6 DEF Landing, Land, LandEffect, LandUndo, allVars, vars, durable
  <2>3. \A kind : Has(kind)' = Has(kind) /\ Due(kind)' = Due(kind)
    BY <2>1 DEF Has, Due, Owing
  <2>4. \A s \in Steps : Awaited(s)' = Awaited(s)
    BY <2>2 DEF Awaited
  <2>5. Decided' = Decided
    BY <2>3 DEF Decided
  <2> QED
    BY <1>1, <2>1, <2>2, <2>3, <2>4, <2>5 DEF Started
<1>7. CASE Die \/ RecoveryDies
  <2>1. \A kind : Has(kind)' = Has(kind) /\ ~Due(kind)'
    BY <1>7 DEF Die, RecoveryDies, Has, Due, Owing
  <2>2. pc' = "down" /\ UNCHANGED wal
    BY <1>7, DownStays DEF Die, RecoveryDies, Crash, LoseProcess, vars, durable
  <2>3. Decided' = Decided
    BY <2>1 DEF Decided
  <2>4. \A s \in Steps : Awaited(s)' = Awaited(s)
    BY <2>2 DEF Awaited
  <2> QED
    BY <1>1, <2>1, <2>2, <2>3, <2>4 DEF Started, ForwardPlaces
<1>8. CASE owed = <<>> /\ ~Append1 /\ ~Die /\ ~RecoveryDies
           /\ ~((Landing \/ UNCHANGED allVars) /\ UNCHANGED trailVars)
  <2>1. \A kind : ~Due(kind)
    BY <1>8, NothingDue
  <2>2. \A kind : Has(kind)' = Has(kind)
    BY <1>8, HasStays
  <2>3. Due(REQ)' => Request
    BY <1>8, NewByKind DEF Due
  <2>4. Requested'
    BY <2>3 DEF Request, vars, progress
  <2>5. SUFFICES ASSUME ~Decided' PROVE NoRow' /\ Ahead' /\ AtGate' /\ Waiting'
    BY <2>4
  <2>6. ~Decided
    BY <2>2, <2>5 DEF Decided
  <2>7. NoRow /\ Ahead /\ Waiting
    BY <1>1, <2>6
  <2>8. pc \in ForwardPlaces \ {"loop"} => cur \notin NeedsApproval
    BY <1>1, <2>1, <2>6
  <2>9. \A s \in NeedsApproval : ~(order[s] > 0)
    BY <1>3, <1>4, <2>7
  <2>10. pc \in ForwardPlaces => skip \cap NeedsApproval = {}
    BY <1>3, <2>9 DEF Reckoned, PlanFollowed
  <2>11. NoRow'
    <3>1. CASE UNCHANGED wal
      BY <2>7, <3>1
    <3>2. CASE pc \in Attempting \cup {"admit"} /\ OtherRowsStay(cur, session)
      <4>1. cur \notin NeedsApproval
        BY <2>8, <3>2 DEF Attempting, ForwardPlaces
      <4> QED
        BY <1>3, <2>7, <3>2, <4>1 DEF OtherRowsStay
    <3>3. CASE \E s \in Steps, k \in Sessions : wal[s][k] \in Pending /\ OtherRowsStay(s, k)
      <4>1. PICK s \in Steps, k \in Sessions : wal[s][k] \in Pending /\ OtherRowsStay(s, k)
        BY <3>3
      <4>2. s \notin NeedsApproval
        BY <2>7, <4>1 DEF Pending
      <4> QED
        BY <1>3, <2>7, <4>1, <4>2 DEF OtherRowsStay
    <3> QED
      BY <1>3, <3>1, <3>2, <3>3, RowChange
  <2>12. \A s \in Steps : Awaited(s) => Awaited(s)'
    <3>1. \A s \in Steps : Awaited(s) => s \in NeedsApproval
      BY DEF Awaited
    <3> QED
      BY <1>3, <2>11, <3>1, StillAwaited
  <2>13. Skip \/ Reuse \/ Succeed => cur \notin NeedsApproval
    <3>1. Skip => cur \in skip /\ pc = "loop"
      BY DEF Skip, SkipCommitted
    <3>2. Reuse \/ Succeed => pc \in {"claim", "record"}
      BY DEF Reuse, ReuseResult, Succeed, RecordSuccess
    <3> QED
      BY <2>8, <2>10, <3>1, <3>2 DEF ForwardPlaces
  <2>14. Ahead'
    <3>1. CASE UNCHANGED <<pc, cur>>
      BY <2>7, <3>1 DEF Started
    <3>2. CASE pc' = "down"
      BY <3>2 DEF Started
    <3>3. CASE cur' = 1
      BY <1>3, <3>3 DEF Steps
    <3>4. CASE (Skip \/ Reuse \/ Succeed) /\ pc \in {"loop", "claim", "record"} /\ cur' = cur + 1
      BY <1>3, <2>7, <2>13, <3>4 DEF Started
    <3>5. CASE pc \in ForwardPlaces \cup RecoveryPlaces /\ cur' = cur
      BY <2>7, <3>5 DEF Started, ForwardPlaces, RecoveryPlaces
    <3> QED
      BY <3>1, <3>2, <3>3, <3>4, <3>5, Moves DEF ForwardPlaces
  <2>15. AtGate'
    <3>1. CASE UNCHANGED <<pc, cur>>
      BY <2>8, <3>1
    <3>2. CASE pc' \in {"down", "loop"}
      BY <3>2 DEF ForwardPlaces
    <3>3. CASE PassGate /\ cur' = cur
      BY <3>3 DEF PassGate, NoApprovalNeeded
    <3>4. CASE Decide("granted") /\ pc' = "claim"
      <4>1. owed' = <<Event(GO, cur)>>
        BY <3>4 DEF Decide, Owes
      <4>2. Event(GO, cur) \in Owing'
        BY <4>1, Elements DEF Owing
      <4> QED
        BY <3>4, <4>2, EventFields DEF Due
    <3>5. CASE pc' \in RecoveryPlaces \cup {"done"}
      BY <3>5 DEF ForwardPlaces, RecoveryPlaces
    <3>6. CASE pc \in ForwardPlaces \ {"loop"} /\ cur' = cur
      BY <2>8, <3>6
    <3> QED
      BY <3>1, <3>2, <3>3, <3>4, <3>5, <3>6, Moves DEF RecoveryPlaces
  <2>16. ASSUME Has(REQ), NEW s \in Steps, Awaited(s), Place(s)
         PROVE  Place(s)'
    <3>0. s \in NeedsApproval
      BY <2>16 DEF Awaited
    <3>1. CASE pc = "down"
      <4>1. ~Working /\ ~Run /\ ~RunAgain /\ ~ComeBack
        BY <1>8, <3>1, AtWork
        DEF ResumedOnly, Run, RunAgain, RunWorkflow, ComeBack, Reopen, Live, ForwardPlaces,
            RecoveryPlaces
      <4>2. pc' = "down" \/ (pc' = "loop" /\ cur' = 1)
        BY <3>1, <4>1, Moves
        DEF Working, ForwardPlaces, RecoveryPlaces
      <4> QED
        BY <4>2 DEF Steps
    <3>2. CASE pc = "loop" /\ cur < s
      <4>1. cur \in Steps /\ N \in Nat
        BY <1>3, <3>2, PlanAssumption DEF Steps
      <4>2. PICK k \in Sessions : wal[cur][k] = "COMMITTED"
        BY <2>16, <3>2, <4>1 DEF Awaited
      <4>3. k \in Nat /\ k < session
        BY <1>3, <3>2, <4>1, <4>2, Numbers DEF Bookkeeping, RowsInOrder
      <4>4. cur \in skip
        BY <3>2, <4>1, <4>2, <4>3 DEF Ownership, CommittedSkipped
      <4>5. ~(PassGate \/ Decide("granted") \/ Decide("denied") \/ TimeOut \/ Finish)
        BY <1>3, <4>1, <4>4
        DEF PassGate, NoApprovalNeeded, Decide, ResolveApproval, TimeOut, DeadlinePasses, Finish,
            Complete, Steps
      <4>6. ~(Run \/ RunAgain \/ Resume)
        BY <3>2 DEF Run, RunAgain, Resume, RunWorkflow, ResumeWorkflow
      <4>7. UNCHANGED <<pc, cur>> \/ pc' = "down" \/ (pc' = "loop" /\ cur' = cur + 1)
        BY <3>2, <4>5, <4>6, Moves DEF RecoveryPlaces
      <4> QED
        BY <1>3, <2>16, <3>2, <4>7
    <3>3. CASE pc = "loop" /\ cur = s
      <4>1. cur \in NeedsApproval /\ cur \notin skip
        BY <2>10, <3>0, <3>3 DEF ForwardPlaces
      <4>2. ~(PassGate \/ TimeOut \/ Finish \/ Skip)
        BY <1>3, <4>1, PlanAssumption
        DEF PassGate, NoApprovalNeeded, TimeOut, DeadlinePasses, Finish, Complete, Steps, Skip,
            SkipCommitted
      <4>3. ~(Run \/ RunAgain \/ Resume \/ Reuse \/ Succeed)
        BY <3>3 DEF Run, RunAgain, Resume, RunWorkflow, ResumeWorkflow, Reuse, ReuseResult, Succeed,
                    RecordSuccess
      <4>4. Decide("denied") => Due(NO)'
        <5> SUFFICES ASSUME Decide("denied") PROVE Due(NO)'
          OBVIOUS
        <5>1. owed' = <<Event(NO, cur)>>
          BY DEF Decide, Owes
        <5>2. Event(NO, cur) \in Owing'
          BY <5>1, Elements DEF Owing
        <5> QED
          BY <5>2, EventFields DEF Due
      <4>5. \/ UNCHANGED <<pc, cur>> \/ pc' = "down"
            \/ pc' = "claim" /\ cur' = cur
            \/ pc' = "recover" /\ cur' = cur /\ Due(NO)'
        BY <3>3, <4>2, <4>3, <4>4, Moves DEF RecoveryPlaces
      <4> QED
        BY <1>3, <3>3, <4>5
    <3>4. ~(pc = "claim" /\ cur = s)
      BY <2>8, <3>0 DEF ForwardPlaces
    <3>5. ~Due(NO)
      BY <2>1
    <3> QED
      BY <1>3, <2>16, <3>1, <3>2, <3>3, <3>4, <3>5
  <2>17. Waiting'
    BY <2>2, <2>7, <2>12, <2>16
  <2> QED
    BY <2>11, <2>14, <2>15, <2>17
<1> QED
  BY <1>5, <1>6, <1>7, <1>8, InTurn

\* THEOREM: an approval the log has as requested is either decided in the log too, or the
\* run still waits for it: no crash loses the request of a step that went on.
THEOREM ApprovalPairedInvariant ==
  ASSUME Truthful, ResumedOnly, "deadline" \notin Faults
  PROVE  TrailSpec => []ApprovalPaired
<1>1. TrailInit => ApprovalPaired
  BY NothingDue, PlanAssumption DEF TrailInit, Init, ApprovalPaired, Has, Started, ForwardPlaces
<1>2. /\ TypeOK /\ TrailTypeOK /\ Bookkeeping /\ Ownership /\ Reckoned /\ TrailHonest
      /\ ApprovalPaired /\ [TrailNext]_allVars
      => ApprovalPaired'
  BY ApprovalPairedStep DEF TrailHonest
<1> QED
  BY <1>1, <1>2, TrailImplementsCoordinator, TypeCorrect, TrailTypeCorrect, BookkeepingInvariant,
     OwnershipInvariant, ReckonedInvariant, TrailHonestInvariant, PTL DEF TrailSpec

\* THEOREM: a run that passes gets every point for integrity, recovery and safety.
THEOREM PassEarnsCreditCorrect ==
  ASSUME Truthful, ResumedOnly, "deadline" \notin Faults
  PROVE  TrailSpec => []PassEarnsCredit
<1>1. Recorded /\ Accounted /\ UnknownPaired /\ RecoveryPaired /\ ApprovalPaired => PassEarnsCredit
  <2> SUFFICES ASSUME Recorded, Accounted, UnknownPaired, RecoveryPaired, ApprovalPaired, Ended,
                      ReportStatus \in {"PASS", "PASS_WITH_CONDITIONS"}
               PROVE  TransactionIntegrity + FailureRecovery + SafetyControls = 75
    BY DEF PassEarnsCredit
  <2>1. pc = "done" /\ run \in {"COMPLETED", "ABORTED", "INCONSISTENT"} /\ Stopped
    BY DEF Ended, Recorded, EndsDecided, Stopped
  <2>2. FloorViolations = {} /\ run # "INCONSISTENT"
    BY DEF ReportStatus
  <2>3. ~logged.early
    BY <2>2 DEF FloorViolations
  <2>4. FailedUndos = {}
    <3>1. run = "COMPLETED" => FailedUndos = {}
      BY <2>1 DEF Recorded, UndosRecorded, FailedUndos
    <3>2. run = "ABORTED" => ~HasLetter(session)
      BY <2>1 DEF Accounted, NothingSwept, HasLetter
    <3>3. run = "ABORTED" => FailedUndos = {}
      BY <2>1, <3>2 DEF Recorded, UndosRecorded, FailedUndos
    <3> QED
      BY <2>1, <2>2, <3>1, <3>3
  <2>5. TransactionIntegrity = 30
    BY <2>1, <2>2, <2>3, <2>4 DEF TransactionIntegrity, Credit, Consistent, CompensationScore
  <2>6. UnknownHandled
    <3>1. ~Due("RECONCILIATION_START")
      BY NothingDue DEF Ended
    <3> QED
      BY <2>1, <3>1 DEF UnknownPaired, UnknownHandled
  <2>7. CrashHandled
    BY <2>1 DEF RecoveryPaired, CrashHandled
  <2>8. FailureRecovery = 25
    BY <2>1, <2>4, <2>6, <2>7
    DEF FailureRecovery, Credit, FailuresHandled, ExactRollback
  <2>9. ApprovalsResolved
    BY <2>1 DEF ApprovalPaired, ApprovalsResolved, Decided
  <2>10. SafetyControls = 20
    BY <2>9 DEF SafetyControls, Credit
  <2> QED
    BY <2>5, <2>8, <2>10
<1> QED
  BY <1>1, TrailImplementsCoordinator, RecordedInvariant, AccountedInvariant, PairedInvariant,
     ApprovalPairedInvariant, PTL

------------------------------------------------------------------------------
(* Where the loop stopped, and what was undone *)

\* The loop stops at a step that is not skipped, or behind the plan.
LEMMA StopsAtStep ==
  ASSUME TypeOK, Ownership, pc \in ForwardPlaces, [TrailNext]_allVars,
         pc' \in RecoveryPlaces \cup {"done"}
  PROVE  /\ UNCHANGED <<cur, order, session, undone>>
         /\ cur \notin skip
         /\ cur \notin Steps => \A s \in Steps : s < cur
<1>1. CASE TimeOut \/ Decide("denied") \/ Decide("granted")
  BY <1>1, PlanAssumption
  DEF TimeOut, DeadlinePasses, Decide, ResolveApproval, progress, completed, world
<1>2. CASE Finish
  BY <1>2, PlanAssumption, Numbers, SkipTyped
  DEF Finish, Complete, progress, completed, world, Steps
<1>3. CASE pc # "loop"
  <2>1. cur \in Steps /\ cur \notin skip
    BY <1>3, AtStep DEF Ownership, CommittedSkipped, ForwardPlaces
  <2>2. CASE StopAtBreaker \/ StopAtAdapter \/ GiveUp \/ Escalate
    BY <2>1, <2>2
    DEF StopAtBreaker, FailFast, StopAtAdapter, MissingAdapter, GiveUp, GiveUpForward,
        GiveUpUnwinding, HandleFailure, Escalate, EscalateForward, progress, completed, world
  <2>3. ~(Run \/ Resume \/ ComeBack \/ Skip \/ Finish \/ TimeOut \/ PassGate \/ Request)
    BY <1>3 DEF Run, RunWorkflow, Resume, ResumeWorkflow, ComeBack, Reopen, Skip, SkipCommitted,
       Finish, Complete,
       TimeOut, DeadlinePasses, PassGate, NoApprovalNeeded, Request, ForwardPlaces
  <2>4. ~(RunAgain \/ Die \/ Reuse \/ Succeed)
    BY DEF RunAgain, RunWorkflow, Die, Crash, LoseProcess, NewSession, Reuse, ReuseResult, Succeed,
           RecordSuccess, MarkCompleted,
       RecoveryPlaces
  <2>5. ~(\E o \in Outcomes : Call(o))
    BY OutcomeClassified DEF Call, Execute, RecoveryPlaces
  <2>6. ~(Claim \/ Announce \/ Judge \/ LoseTrack \/ Query \/ TryAgain)
    BY DEF Claim, ClaimKey, Admit, Announce, MarkRunning, Judge, PostconditionPasses,
           PostconditionFails,
       LoseTrack, MarkUnknown, Query, QueryFinds, QueryFindsNothing, QueryUndetermined, TryAgain,
       Retry,
       HandleFailure, RecoveryPlaces
  <2>7. ~(Unwind \/ Undo \/ UndoDone \/ UndoGivenUp \/ FinishUnwinding)
    BY DEF Unwind, Undo, UndoDone, UndoGivenUp, FinishUnwinding, Recover, UndoBlocked, UndoStart,
           UndoMark,
      UndoExecute, UndoSucceeds, UndoFails, DeadLetter, FinishRecovery, ForwardPlaces
  <2>8. ~(\E d \in {"granted", "denied"} : Decide(d))
    BY <1>3 DEF Decide, ResolveApproval
  <2>9. \/ Append1 \/ StartRecovery \/ FinishReconciliation \/ RecoveryDies \/ Landing
        \/ UNCHANGED allVars
        \/ \E s \in Steps, k \in Sessions : RecoverRow(s, k) \/ RecoverUndoRow(s, k)
        => UNCHANGED pc
    BY StandsStill
  <2> QED
    BY <2>2, <2>3, <2>4, <2>5, <2>6, <2>7, <2>8, <2>9 DEF TrailNext, Working, ForwardPlaces,
       RecoveryPlaces
<1>4. CASE pc = "loop" /\ ~(TimeOut \/ Decide("denied") \/ Decide("granted") \/ Finish)
  <2>1. UNCHANGED pc \/ pc' \in ForwardPlaces \cup {"down"}
    BY <1>4, Moves DEF ForwardPlaces, RecoveryPlaces
  <2> QED
    BY <1>4, <2>1 DEF ForwardPlaces, RecoveryPlaces
<1> QED
  BY <1>1, <1>2, <1>3, <1>4

\* Nothing but an unwinding step leads from an unwinding, or an end, to another.
LEMMA StaysStopped ==
  ASSUME pc \notin ForwardPlaces, [TrailNext]_allVars, pc' \in RecoveryPlaces \cup {"done"}
  PROVE  /\ pc \in RecoveryPlaces \cup {"done"}
         /\ UNCHANGED <<cur, order, src, session>>
         /\ \/ pc \in RecoveryPlaces /\ (Unwind \/ Undo \/ UndoDone \/ UndoGivenUp \/ FinishUnwinding)
            \/ (Land \/ UNCHANGED vars) /\ UNCHANGED <<pc, compensations>>
<1>1. CASE Append1 \/ StartRecovery \/ FinishReconciliation \/ RecoveryDies
  BY <1>1 DEF Append1, StartRecovery, FinishReconciliation, RecoveryDies, vars, progress, completed,
              unwinding, records
<1>2. CASE Landing \/ UNCHANGED allVars
  BY <1>2 DEF Landing, Land, LandEffect, LandUndo, trailVars, allVars, vars, progress, completed,
     unwinding
<1>3. CASE \E s \in Steps, k \in Sessions : RecoverRow(s, k) \/ RecoverUndoRow(s, k)
  <2>1. pc = "down" /\ UNCHANGED pc
    BY <1>3, StandsStill DEF RecoverRow, RecoverUndoRow, ReconcileRow, ReconcileUndoRow
  <2> QED
    BY <2>1 DEF RecoveryPlaces
<1>4. CASE Unwind \/ Undo \/ UndoDone \/ UndoGivenUp \/ FinishUnwinding
  <2>1. UNCHANGED <<cur, order, src, session>>
    BY <1>4 DEF Unwind, Undo, UndoDone, UndoGivenUp, FinishUnwinding, Recover, UndoBlocked,
       UndoStart, UndoMark,
      UndoExecute, UndoSucceeds, UndoFails, DeadLetter, FinishRecovery, progress, completed
  <2>2. pc \in RecoveryPlaces
    BY <1>4 DEF Unwind, Undo, UndoDone, UndoGivenUp, FinishUnwinding, Recover, UndoBlocked,
       UndoStart, UndoMark,
      UndoExecute, UndoSucceeds, UndoFails, DeadLetter, FinishRecovery, RecoveryPlaces
  <2> QED
    BY <1>4, <2>1, <2>2
<1>5. ~(Run \/ RunAgain \/ Resume \/ Die \/ ComeBack)
  BY DEF Run, RunAgain, Resume, RunWorkflow, ResumeWorkflow, NewSession, Die, Crash, ComeBack,
         Reopen,
         LoseProcess, RecoveryPlaces
<1>6. ~(\/ Skip \/ TimeOut \/ Finish \/ Request \/ PassGate
        \/ (\E d \in {"granted", "denied"} : Decide(d))
        \/ Reuse \/ Claim \/ StopAtBreaker \/ Announce \/ StopAtAdapter
        \/ (\E o \in Outcomes : Call(o))
        \/ Judge \/ Succeed \/ LoseTrack \/ Query \/ TryAgain \/ GiveUp \/ Escalate)
  BY DEF Skip, SkipCommitted, TimeOut, DeadlinePasses, Finish, Complete, Request, PassGate,
         NoApprovalNeeded,
       Decide, ResolveApproval, Reuse, ReuseResult, Claim, ClaimKey, Admit, StopAtBreaker, FailFast,
       Announce,
       MarkRunning, StopAtAdapter, MissingAdapter, Call, Execute, Judge, PostconditionPasses,
       PostconditionFails,
       Succeed, RecordSuccess, LoseTrack, MarkUnknown, Query, QueryFinds, QueryFindsNothing,
       QueryUndetermined,
       TryAgain, Retry, GiveUp, GiveUpForward, GiveUpUnwinding, HandleFailure, Escalate,
       EscalateForward,
       ForwardPlaces
<1> QED
  BY <1>1, <1>2, <1>3, <1>4, <1>5, <1>6 DEF TrailNext, Working

\* What is completed when the loop stops is what lies before the step it stopped at.
LEMMA StoppedInPlanStep ==
  ASSUME TypeOK, Ownership, Reckoned, InPlanOrder, StoppedInPlan, [TrailNext]_allVars
  PROVE  StoppedInPlan'
<1> SUFFICES ASSUME Stopped'
             PROVE  \A s \in Steps : order'[s] > 0 <=> s < cur'
  BY DEF StoppedInPlan
<1>1. pc' \in RecoveryPlaces \cup {"done"}
  BY DEF Stopped
<1>2. CASE pc \in ForwardPlaces
  <2>1. /\ UNCHANGED <<cur, order>> /\ cur \notin skip
        /\ cur \notin Steps => \A s \in Steps : s < cur
    BY <1>1, <1>2, StopsAtStep
  <2>2. \A s \in Steps : s < cur => order[s] > 0
    BY <1>2 DEF Reckoned, PlanFollowed
  <2>3. ASSUME NEW s \in Steps, order[s] > 0 PROVE s < cur
    <3>1. s < cur \/ s \in skip
      BY <1>2, <2>3 DEF InPlanOrder, LoopFollowsPlan
    <3>2. CASE cur \in Steps /\ s \in skip
      <4>1. ~(cur < s)
        BY <1>2, <2>1, <2>3, <3>2 DEF InPlanOrder, LoopFollowsPlan
      <4>2. s # cur
        BY <2>1, <3>2
      <4> QED
        BY <2>3, <4>1, <4>2, Numbers
    <3> QED
      BY <2>1, <2>3, <3>1, <3>2
  <2> QED
    BY <2>1, <2>2, <2>3
<1>3. CASE pc \notin ForwardPlaces
  BY <1>1, <1>3, StaysStopped DEF StoppedInPlan, Stopped
<1> QED
  BY <1>2, <1>3

\* THEOREM: a loop that stops has completed exactly what lies before the step it is at.
THEOREM StoppedInPlanInvariant ==
  ASSUME Truthful, ResumedOnly
  PROVE  TrailSpec => []StoppedInPlan
<1>1. TrailInit => StoppedInPlan
  BY DEF TrailInit, Init, StoppedInPlan, Stopped, RecoveryPlaces
<1>2. TypeOK /\ Ownership /\ Reckoned /\ InPlanOrder /\ StoppedInPlan /\ [TrailNext]_allVars
      => StoppedInPlan'
  BY StoppedInPlanStep
<1> QED
  BY <1>1, <1>2, TrailImplementsCoordinator, TypeCorrect, OwnershipInvariant, ReckonedInvariant,
     InPlanOrderInvariant, PTL DEF TrailSpec

\* Every step keeps what was undone in sight.
LEMMA UndosSeenStep ==
  ASSUME UndoTruthful, ResumedOnly, TypeOK, TrailTypeOK, Bookkeeping, Ownership, Accounted,
         UndoOpen, UndosRecorded, UndosSeen, [TrailNext]_allVars
  PROVE  UndosSeen'
<1> DEFINE Seen(s) ==
             /\ Comp[s] # "none"
             /\ \/ compensations[s] = "success"
                \/ pc = "undo_result" /\ s = undoing /\ result \in {"ok", "unknown"}
<1>1. SUFFICES ASSUME Started', NEW s \in Steps, NEW k \in Sessions,
                      <<s, session', k>> \in undone'
               PROVE  Seen(s)'
  BY DEF UndosSeen
<1>2. Started /\ <<s, session, k>> \in undone => Seen(s)
  BY DEF UndosSeen
<1>3. Truthful /\ inflight = {}
  BY DEF UndoTruthful, Ownership, EffectsHaveRows
<1>4. pc \in ForwardPlaces \cup {"recover"} => <<s, session, k>> \notin undone
  BY NothingUndone
<1>5. [Next]_vars
  BY TrailImplements
<1>6. ASSUME session' = session + 1, undone' = undone PROVE FALSE
  <2>1. session' \in Sessions /\ session' > session
    BY <1>1, <1>6, Numbers DEF TypeOK, WorldTyped
  <2>2. cwal[s][session'] = "absent"
    BY <2>1 DEF Accounted, NothingAhead
  <2>3. cwal[s][session'] # "absent"
    BY <1>1, <1>6, <2>1 DEF Bookkeeping, WriteAhead
  <2> QED
    BY <2>2, <2>3
<1>7. CASE Run \/ RunAgain \/ Resume
  BY <1>6, <1>7 DEF Run, RunAgain, Resume, RunWorkflow, ResumeWorkflow, NewSession, world
<1>8. CASE Die \/ ComeBack
  BY <1>1, <1>8 DEF Die, Crash, ComeBack, Reopen, LoseProcess, Started
<1>9. CASE StepForward \/ Recover
  <2>1. UNCHANGED <<session, undone>>
    BY <1>9
    DEF StepForward, SkipCommitted, DeadlinePasses, Complete, ResolveApproval, NoApprovalNeeded,
        ReuseResult,
        ClaimKey, Admit, FailFast, MarkRunning, MissingAdapter, Execute, PostconditionPasses,
        PostconditionFails, RecordSuccess, MarkUnknown, QueryFinds, QueryFindsNothing,
        QueryUndetermined, Retry, GiveUpForward, GiveUpUnwinding, HandleFailure, EscalateForward,
        Recover, world
  <2>2. pc \in ForwardPlaces \cup {"recover"}
    BY <1>9
    DEF StepForward, SkipCommitted, DeadlinePasses, Complete, ResolveApproval, NoApprovalNeeded,
        ReuseResult,
        ClaimKey, Admit, FailFast, MarkRunning, MissingAdapter, Execute, PostconditionPasses,
        PostconditionFails, RecordSuccess, MarkUnknown, QueryFinds, QueryFindsNothing,
        QueryUndetermined, Retry, GiveUpForward, GiveUpUnwinding, HandleFailure, EscalateForward,
        Recover,
        ForwardPlaces
  <2> QED
    BY <1>1, <1>4, <2>1, <2>2
<1>10. CASE \/ Append1 \/ StartRecovery \/ FinishReconciliation \/ RecoveryDies \/ Request
            \/ UNCHANGED allVars
  <2>1. UNCHANGED <<pc, session, undone, undoing, result, compensations>>
    BY <1>10 DEF Append1, StartRecovery, FinishReconciliation, RecoveryDies, Request, allVars,
       trailVars,
                 vars, records, world, unwinding, progress
  <2> QED
    BY <1>1, <1>2, <2>1 DEF Started
<1>11. CASE Landing
  BY <1>3, <1>11 DEF Landing, Land, LandEffect, LandUndo
<1>12. CASE \E i \in Steps, j \in Sessions : RecoverRow(i, j) \/ RecoverUndoRow(i, j)
  BY <1>1, <1>12, StandsStill DEF RecoverRow, RecoverUndoRow, ReconcileRow, ReconcileUndoRow,
     Started
<1>13. CASE Undo
  <2>1. UNCHANGED <<session, compensations>> /\ Started
    BY <1>13 DEF Undo, UndoBlocked, UndoStart, UndoMark, UndoExecute, UndoFails, records, Started
  <2>2. CASE UndoMark \/ \E t \in Steps : UndoBlocked(t) \/ UndoStart(t)
    <3>1. UNCHANGED undone /\ pc \in {"undo", "undo_mark"}
      BY <2>2 DEF UndoBlocked, UndoStart, UndoMark, world
    <3> QED
      BY <1>1, <1>2, <2>1, <3>1
  <2>3. CASE \E o \in Outcomes : UndoExecute(o)
    <3>1. PICK o \in Outcomes : UndoExecute(o)
      BY <2>3
    <3>2. pc = "undo_execute" /\ pc' = "undo_result" /\ UNCHANGED undoing /\ result' = o.sees
          /\ \/ undone' = undone
             \/ o.acts = "yes" /\ undone' = undone \cup {<<undoing, session, src[undoing]>>}
      BY <3>1 DEF UndoExecute, unwinding
    <3>3. CASE <<s, session, k>> \in undone
      BY <1>2, <2>1, <3>2, <3>3
    <3>4. CASE s = undoing /\ o.acts = "yes"
      <4>1. o.sees \in {"ok", "unknown"}
        BY <1>3, <3>1, <3>4, TruthfulOutcomes
      <4>2. undoing \in Tracked
        BY <3>2 DEF Accounted, UndoneInTurn, RecoveryPlaces, NextToUndo
      <4> QED
        BY <3>2, <3>4, <4>1, <4>2 DEF Tracked
    <3> QED
      BY <1>1, <2>1, <3>2, <3>3, <3>4
  <2>4. CASE \E status \in {"FAILED", "UNKNOWN"} : UndoFails(status)
    <3>1. PICK status \in {"FAILED", "UNKNOWN"} : UndoFails(status)
      BY <2>4
    <3>2. pc = "undo_result" /\ UNCHANGED undone
      BY <3>1 DEF UndoFails, world
    <3>3. <<s, session, k>> \in undone /\ session \in Sessions
      BY <1>1, <2>1, <3>2, Running
    <3>4. ASSUME s = undoing, result \in {"ok", "unknown"} PROVE FALSE
      <4>1. Undone(undoing, session)
        BY <3>3, <3>4 DEF Undone
      <4>2. UndoAnswers(Undone(undoing, session)) = {"found"}
        BY <4>1 DEF UndoTruthful, Truthful, UndoAnswers, Answers
      <4>3. "vetoed" \notin Faults
        BY DEF UndoTruthful, Truthful
      <4> QED
        BY <3>1, <3>4, <4>2, <4>3 DEF UndoFails
    <3> QED
      BY <1>2, <2>1, <3>3, <3>4
  <2> QED
    BY <1>13, <2>2, <2>3, <2>4 DEF Undo
<1>14. CASE UndoDone
  <2>1. /\ pc = "undo_result" /\ UNCHANGED <<session, undone>>
        /\ compensations' = [compensations EXCEPT ![undoing] = "success"]
    BY <1>14 DEF UndoDone, UndoSucceeds, world
  <2> QED
    BY <1>1, <1>2, <2>1 DEF Started, TrailTypeOK
<1>15. CASE UndoGivenUp
  <2>1. /\ pc = "letter" /\ UNCHANGED <<session, undone>>
        /\ compensations' = [compensations EXCEPT ![undoing] = "failure"]
    BY <1>15 DEF UndoGivenUp, DeadLetter, world
  <2>2. Seen(s) /\ compensations[s] = "success"
    BY <1>1, <1>2, <2>1 DEF Started
  <2>3. cwal[s][session] = "COMPENSATED"
    BY <2>1, <2>2 DEF UndosRecorded, Stopped, RecoveryPlaces
  <2>4. s # undoing
    BY <2>1, <2>3 DEF UndoOpen
  <2> QED
    BY <2>1, <2>2, <2>4 DEF TrailTypeOK
<1>16. CASE FinishUnwinding
  <2>1. pc = "undo" /\ UNCHANGED <<session, undone, compensations>>
    BY <1>16 DEF FinishUnwinding, FinishRecovery, world, records
  <2> QED
    BY <1>1, <1>2, <2>1 DEF Started
<1>17. CASE Working /\ ~Append1 /\ ~Request /\ ~Undo /\ ~UndoDone /\ ~UndoGivenUp /\ ~FinishUnwinding
  <2>1. StepForward \/ Recover
    BY <1>17
    DEF Working, Skip, TimeOut, Finish, PassGate, Decide, Reuse, Claim, StopAtBreaker, Announce,
        StopAtAdapter,
        Call, Judge, Succeed, LoseTrack, Query, TryAgain, GiveUp, Escalate, Unwind, StepForward
  <2> QED
    BY <1>9, <2>1
<1> QED
  BY <1>7, <1>8, <1>10, <1>11, <1>12, <1>13, <1>14, <1>15, <1>16, <1>17 DEF TrailNext, Working

\* THEOREM: with adapters that keep their contract for compensations too, whatever a session
\* undid is on record as undone, or the process is about to find out.
THEOREM UndosSeenInvariant ==
  ASSUME UndoTruthful, ResumedOnly
  PROVE  TrailSpec => []UndosSeen
<1>1. Truthful
  BY DEF UndoTruthful
<1>2. TrailInit => UndosSeen
  BY DEF TrailInit, Init, UndosSeen, Started
<1>3. /\ TypeOK /\ TrailTypeOK /\ Bookkeeping /\ Ownership /\ Accounted /\ Recorded /\ UndosSeen
      /\ [TrailNext]_allVars
      => UndosSeen'
  BY UndosSeenStep DEF Recorded
<1> QED
  BY <1>1, <1>2, <1>3, TrailImplementsCoordinator, TypeCorrect, TrailTypeCorrect,
     BookkeepingInvariant,
     OwnershipInvariant, AccountedInvariant, RecordedInvariant, PTL DEF TrailSpec

------------------------------------------------------------------------------
(* What a broken run left behind *)

\* In a run that is over, an effect stands exactly if its step is completed and no
\* compensation that does something is on record as done.
LEMMA StandsUnlessUndone ==
  ASSUME UndoTruthful, TypeOK, Bookkeeping, Ownership, Reckoned, AllReckoned, UnwoundLast,
         UndosRecorded,
         UndosSeen, pc = "done", NEW s \in Steps
  PROVE  Stands(s) <=> order[s] > 0 /\ ~(Comp[s] # "none" /\ compensations[s] = "success")
<1>0. Stopped /\ Started /\ session \in Sessions
  BY Running DEF Stopped, Started
<1>1. ASSUME NEW k \in Sessions, <<s, k>> \in eff
      PROVE  wal[s][k] = "COMMITTED" /\ order[s] > 0
  <2>1. wal[s][k] \in {"RUNNING", "UNKNOWN", "COMMITTED"}
    BY <1>1 DEF Ownership, EffectsHaveRows
  <2>2. wal[s][k] \notin Pending
    BY DEF Ownership, OnePending, Attempting
  <2>3. wal[s][k] = "COMMITTED"
    BY <2>1, <2>2 DEF Pending
  <2> QED
    BY <2>3 DEF AllReckoned
<1>2. ASSUME order[s] > 0
      PROVE  src[s] \in Sessions /\ <<s, src[s]>> \in eff
  <2>1. src[s] \in Sessions /\ wal[s][src[s]] = "COMMITTED"
    BY <1>2 DEF Reckoned, CompletedHasRow, TypeOK, PlacesTyped, CompletedTyped, Sessions
  <2> QED
    BY <2>1 DEF Bookkeeping, CommittedIsReal
<1>3. ASSUME Comp[s] # "none", compensations[s] = "success"
      PROVE  ~Stands(s)
  <2>1. cwal[s][session] = "COMPENSATED"
    BY <1>0, <1>3 DEF UndosRecorded
  <2>2. <<s, session, src[s]>> \in undone
    BY <2>1 DEF Reckoned, UndoTraced
  <2>3. ASSUME NEW k \in Sessions, <<s, k>> \in eff PROVE k = src[s]
    BY <1>1, <1>2, <2>3 DEF Ownership, NoDuplicateEffect
  <2> QED
    BY <1>0, <2>2, <2>3 DEF Stands
<1>4. ASSUME order[s] > 0, ~(Comp[s] # "none" /\ compensations[s] = "success")
      PROVE  Stands(s)
  <2>1. ASSUME NEW j \in Sessions, <<s, j, src[s]>> \in undone PROVE FALSE
    <3>1. cwal[s][j] # "absent"
      BY <1>2, <1>4, <2>1 DEF Bookkeeping, WriteAhead
    <3>2. j = session
      BY <3>1 DEF UnwoundLast
    <3> QED
      BY <1>0, <1>2, <1>4, <2>1, <3>2 DEF UndosSeen
  <2> QED
    BY <1>2, <1>4, <2>1 DEF Stands
<1>5. Stands(s) => order[s] > 0
  BY <1>1 DEF Stands
<1> QED
  BY <1>3, <1>4, <1>5

\* THEOREM: the analysis of a broken run lists exactly the undoable effects that are left.
THEOREM LeftoversListedCorrect ==
  ASSUME UndoTruthful, UnwindsOnce
  PROVE  TrailSpec => []LeftoversListed
<1>0. Truthful /\ ResumedOnly
  BY DEF UndoTruthful, UnwindsOnce, ResumedOnly
<1>1. /\ TypeOK /\ TrailTypeOK /\ Bookkeeping /\ Ownership /\ Reckoned /\ AllReckoned /\ UnwoundLast
      /\ Recorded /\ UndosSeen /\ StoppedInPlan
      => LeftoversListed
  <2> SUFFICES ASSUME TypeOK, TrailTypeOK, Bookkeeping, Ownership, Reckoned, AllReckoned,
                      UnwoundLast,
                      Recorded, UndosSeen, StoppedInPlan, Ended, run # "COMPLETED"
               PROVE  {s \in Uncompensated : Comp[s] # "none"}
                        = {s \in Steps : Comp[s] # "none" /\ Stands(s)}
    BY DEF LeftoversListed
  <2>1. pc = "done" /\ Stopped
    BY DEF Ended, Stopped
  <2>2. /\ \A s \in Steps : OutcomeOf(s) = "success" <=> s < cur
        /\ Broke \/ \A s \in Steps : ~(s < cur)
    BY <2>1, BreakFound DEF Recorded
  <2>3. \A s \in Steps : order[s] > 0 <=> s < cur
    BY <2>1 DEF StoppedInPlan
  <2>4. ASSUME NEW s \in Steps, Comp[s] # "none"
        PROVE  s \in Uncompensated <=> Stands(s)
    <3>1. Stands(s) <=> order[s] > 0 /\ compensations[s] # "success"
      BY <2>1, <2>4, StandsUnlessUndone DEF Recorded
    <3>2. NodeStatus(s) = "success" /\ s \notin CompOk
          <=> OutcomeOf(s) = "success" /\ compensations[s] # "success"
      BY DEF NodeStatus, CompOk
    <3>3. Tier[s] >= 2
      BY <2>4, TierAssumption
    <3> QED
      BY <2>2, <2>3, <3>1, <3>2, <3>3 DEF Uncompensated
  <2>5. Uncompensated \subseteq Steps
    BY DEF Uncompensated
  <2> QED
    BY <2>4, <2>5
<1> QED
  BY <1>0, <1>1, TrailImplementsCoordinator, TypeCorrect, TrailTypeCorrect, BookkeepingInvariant,
     OwnershipInvariant, ReckonedInvariant, AllReckonedInvariant, UnwoundLastInvariant,
     RecordedInvariant, UndosSeenInvariant, StoppedInPlanInvariant, PTL

------------------------------------------------------------------------------
(* The replay follows the run step by step *)

\* What is being compensated is a tracked step.
LEMMA UndoingTracked ==
  ASSUME TypeOK, Accounted, pc \in RecoveryPlaces \ {"recover", "undo"}
  PROVE  undoing \in Steps /\ undoing \in Tracked /\ Comp[undoing] # "none"
BY DEF TypeOK, UnwindingTyped, Accounted, UndoneInTurn, NextToUndo, Tracked

\* Every step owes its events at their place.
LEMMA OwedInPlaceStep ==
  ASSUME TypeOK, TrailTypeOK, Accounted, OwedInPlace, [TrailNext]_allVars
  PROVE  OwedInPlace'
<1> DEFINE InPlace(e) ==
      /\ e.event \in {"ACTION_START", "ACTION_FAILED", "ACTION_UNKNOWN"} =>
           /\ pc \in (ForwardPlaces \ {"loop"}) \cup {"recover"}
           /\ e.entity = cur
      /\ e.event \in {"ACTION_COMPLETE", "STEP_SKIPPED_RESUME"} =>
           pc = "loop" /\ e.entity \in Steps /\ e.entity < cur
      /\ e.event = "COMPENSATION_COMPLETE" =>
           pc = "undo" /\ e.entity \in Steps /\ Comp[e.entity] # "none"
           /\ compensations[e.entity] = "success"
      /\ e.event = "RECONCILIATION_RESULT" => e.key = "resolved"
<1>1. \A e \in Owing : InPlace(e)
  BY DEF OwedInPlace
<1>2. SUFFICES ASSUME NEW e \in Owing'
               PROVE  InPlace(e)'
  BY DEF OwedInPlace
<1>3. CASE Append1
  <2>1. e \in Owing
    BY <1>2, <1>3, Appending
  <2>2. UNCHANGED <<pc, cur, compensations>>
    BY <1>3, StandsStill
  <2> QED
    BY <1>1, <2>1, <2>2
<1>4. CASE (Landing \/ UNCHANGED allVars) /\ UNCHANGED trailVars
  <2>1. UNCHANGED <<pc, cur, compensations, owed>>
    BY <1>4, StandsStill DEF trailVars
  <2>2. e \in Owing
    BY <1>2, <2>1 DEF Owing
  <2> QED
    BY <1>1, <2>1, <2>2
<1>5. CASE ~Append1 /\ ~((Landing \/ UNCHANGED allVars) /\ UNCHANGED trailVars)
  <2>1. CASE e.event \in {"ACTION_START", "ACTION_FAILED", "ACTION_UNKNOWN"}
    <3>1. (Announce \/ TryAgain \/ GiveUp \/ LoseTrack) /\ e.entity = cur
      BY <1>2, <1>5, <2>1, NewByKind
    <3>2. cur' = cur /\ pc' \in (ForwardPlaces \ {"loop"}) \cup {"recover"}
      BY <3>1
      DEF Announce, MarkRunning, TryAgain, Retry, GiveUp, GiveUpForward, GiveUpUnwinding,
          HandleFailure,
          LoseTrack, MarkUnknown, progress, ForwardPlaces
    <3> QED
      BY <2>1, <3>1, <3>2
  <2>2. CASE e.event \in {"ACTION_COMPLETE", "STEP_SKIPPED_RESUME"}
    <3>1. (Succeed \/ Skip) /\ e.entity = cur
      BY <1>2, <1>5, <2>2, NewByKind
    <3>2. pc' = "loop" /\ cur \in Steps /\ cur < cur'
      BY <3>1, Advancing, Numbers
    <3> QED
      BY <2>2, <3>1, <3>2
  <2>3. CASE e.event = "COMPENSATION_COMPLETE"
    <3>1. UndoDone /\ e.entity = undoing
      BY <1>2, <1>5, <2>3, NewByKind
    <3>2. pc = "undo_result" /\ pc' = "undo"
          /\ compensations' = [compensations EXCEPT ![undoing] = "success"]
      BY <3>1 DEF UndoDone, UndoSucceeds, NextAction
    <3>3. undoing \in Steps /\ Comp[undoing] # "none"
      BY <3>2, UndoingTracked DEF RecoveryPlaces
    <3> QED
      BY <2>3, <3>1, <3>2, <3>3 DEF TrailTypeOK
  <2>4. CASE e.event = "RECONCILIATION_RESULT"
    BY <1>2, <1>5, <2>4, NewByKind
  <2> QED
    BY <2>1, <2>2, <2>3, <2>4
<1> QED
  BY <1>3, <1>4, <1>5

\* What an event does to the status of a step the replay shows.
LEMMA StatusMoves ==
  ASSUME NEW f, NEW e, NEW s \in Steps
  PROVE  LET old == f.status[s]
             new == R!Apply(f, e).status[s]
         IN \/ new = old
            \/ e.entity = s /\ e.event \in {"ACTION_START", "ACTION_FAILED", "ACTION_UNKNOWN"}
               /\ new \in {"running", "failure", "unknown"}
            \/ e.entity = s /\ e.event \in {"ACTION_COMPLETE", "STEP_SKIPPED_RESUME"}
               /\ new = "success"
            \/ e.entity = s /\ e.event = "COMPENSATION_COMPLETE" /\ new = "compensated"
            \/ e.event = "RECONCILIATION_RESULT" /\ e.key # "resolved"
<1> DEFINE old == f.status[s]
           new == R!Apply(f, e).status[s]
<1>1. new = IF s = e.entity THEN R!StatusAfter(old, e) ELSE old
  BY DEF R!Apply
<1> HIDE DEF new, old
<1> QED
  BY <1>1 DEF R!StatusAfter, R!Reconciled, R!Outcome, R!Skipped, new, old

\* An event settles the status it is about.
LEMMA StatusSettles ==
  ASSUME NEW f, NEW e, e.entity \in Steps
  PROVE  /\ e.event \in {"ACTION_COMPLETE", "STEP_SKIPPED_RESUME"} =>
              R!Apply(f, e).status[e.entity] \in {"success", "compensated"}
         /\ e.event = "COMPENSATION_COMPLETE" => R!Apply(f, e).status[e.entity] = "compensated"
BY DEF R!Apply, R!StatusAfter, R!Skipped

\* A step whose key holds a success is skipped before its key is looked at.
LEMMA NothingReused ==
  ASSUME TypeOK, Bookkeeping, Ownership, Reckoned
  PROVE  ~Reuse
<1> SUFFICES ASSUME Reuse PROVE FALSE
  OBVIOUS
<1>1. pc = "claim" /\ reuse[cur] # 0
  BY DEF Reuse, ReuseResult, KeyHolds
<1>2. cur \in Steps /\ session \in Nat
  BY <1>1, AtStep, Numbers DEF ForwardPlaces
<1>3. reuse[cur] \in Sessions /\ reuse[cur] \in Nat /\ wal[cur][reuse[cur]] = "COMMITTED"
  BY <1>1, <1>2 DEF Reckoned, CompletedHasRow, TypeOK, StoresTyped, Sessions
<1>4. ~(reuse[cur] > session) /\ reuse[cur] # session
  BY <1>1, <1>2, <1>3 DEF Bookkeeping, RowsInOrder
<1>5. cur \in skip
  BY <1>1, <1>2, <1>3, <1>4 DEF Ownership, CommittedSkipped
<1> QED
  BY <1>1, <1>5 DEF Ownership, CommittedSkipped, ForwardPlaces

\* A compensation on record as done stays so until the process is gone.
LEMMA SuccessStays ==
  ASSUME TypeOK, TrailTypeOK, UndoOpen, UndosRecorded, UnwindsOnce, Stopped, [TrailNext]_allVars,
         NEW s \in Steps, Comp[s] # "none", compensations[s] = "success"
  PROVE  Stopped' /\ compensations'[s] = "success"
<1>1. pc \notin ForwardPlaces \cup {"down", "idle", "recover"}
  BY DEF Stopped, ForwardPlaces, RecoveryPlaces, UndosRecorded
<1>2. CASE UndoGivenUp
  <2>1. /\ pc = "letter" /\ pc' = "undo"
        /\ compensations' = [compensations EXCEPT ![undoing] = "failure"]
    BY <1>2 DEF UndoGivenUp, DeadLetter, NextAction
  <2>2. s # undoing
    BY <2>1 DEF UndosRecorded, UndoOpen
  <2> QED
    BY <2>1, <2>2 DEF TrailTypeOK, Stopped, RecoveryPlaces
<1>3. CASE UndoDone
  BY <1>3 DEF UndoDone, UndoSucceeds, NextAction, TrailTypeOK, Stopped, RecoveryPlaces
<1>4. CASE Undo \/ FinishUnwinding
  BY <1>4
  DEF Undo, UndoBlocked, UndoStart, UndoMark, UndoExecute, UndoFails, FinishUnwinding,
      FinishRecovery,
      records, Stopped, RecoveryPlaces
<1>5. CASE \/ Append1 \/ StartRecovery \/ FinishReconciliation \/ RecoveryDies \/ Landing
           \/ UNCHANGED allVars
           \/ \E i \in Steps, k \in Sessions : RecoverRow(i, k) \/ RecoverUndoRow(i, k)
  BY <1>5, StandsStill DEF Stopped
<1>6. ~(Run \/ RunAgain \/ Resume \/ Die \/ ComeBack \/ Unwind)
  BY <1>1
  DEF UnwindsOnce, Run, RunAgain, Resume, RunWorkflow, ResumeWorkflow, Die, Crash, ComeBack, Reopen,
      Unwind,
      Recover
<1>7. ~(\/ Skip \/ TimeOut \/ Finish \/ Request \/ PassGate
        \/ (\E d \in {"granted", "denied"} : Decide(d))
        \/ Reuse \/ Claim \/ StopAtBreaker \/ Announce \/ StopAtAdapter
        \/ (\E o \in Outcomes : Call(o))
        \/ Judge \/ Succeed \/ LoseTrack \/ Query \/ TryAgain \/ GiveUp \/ Escalate)
  BY <1>1
  DEF Skip, SkipCommitted, TimeOut, DeadlinePasses, Finish, Complete, Request, PassGate,
      NoApprovalNeeded,
       Decide, ResolveApproval, Reuse, ReuseResult, Claim, ClaimKey, Admit, StopAtBreaker, FailFast,
       Announce,
       MarkRunning, StopAtAdapter, MissingAdapter, Call, Execute, Judge, PostconditionPasses,
       PostconditionFails,
       Succeed, RecordSuccess, LoseTrack, MarkUnknown, Query, QueryFinds, QueryFindsNothing,
       QueryUndetermined,
       TryAgain, Retry, GiveUp, GiveUpForward, GiveUpUnwinding, HandleFailure, Escalate,
       EscalateForward,
       ForwardPlaces
<1> QED
  BY <1>2, <1>3, <1>4, <1>5, <1>6, <1>7 DEF TrailNext, Working

\* Nor is one put on record as done but by the step that owes its event.
LEMMA SuccessIsOwed ==
  ASSUME TypeOK, TrailTypeOK, UndosRecorded, [TrailNext]_allVars, Stopped',
         NEW s \in Steps, Comp[s] # "none", compensations'[s] = "success"
  PROVE  (Stopped /\ compensations[s] = "success") \/ (UndoDone /\ s = undoing)
<1>1. CASE pc \in ForwardPlaces
  <2>1. compensations[s] = "none"
    BY <1>1 DEF UndosRecorded
  <2>2. compensations' = compensations
        \/ \E t : compensations' = [compensations EXCEPT ![t] = "failure"]
                                       \/ NoRecords
    BY <1>1
    DEF TrailNext, Working, Append1, Skip, TimeOut, Finish, Request, PassGate, Decide, Reuse, Claim,
        StopAtBreaker, Announce, StopAtAdapter, Call, Judge, Succeed, LoseTrack, Query, TryAgain,
        GiveUp,
        Escalate, Unwind, Recover, Undo, UndoDone, UndoSucceeds, UndoGivenUp, DeadLetter,
        FinishUnwinding, Run,
        RunAgain, Resume, StartRecovery, FinishReconciliation, RecoveryDies, RecoverRow,
        RecoverUndoRow, Die, ComeBack,
        Landing, records, trailVars, allVars, ForwardPlaces
  <2> QED
    BY <2>1, <2>2 DEF NoRecords, TrailTypeOK
<1>2. CASE pc \notin ForwardPlaces
  <2>1. /\ pc \in RecoveryPlaces \cup {"done"}
        /\ \/ Unwind \/ Undo \/ UndoDone \/ UndoGivenUp \/ FinishUnwinding
           \/ UNCHANGED compensations
    BY <1>2, StaysStopped DEF Stopped
  <2>2. CASE Unwind
    <3>1. compensations'[s] = compensations[s]
      BY <2>2 DEF Unwind, NothingToUndo
    <3> QED
      BY <2>1, <3>1 DEF Stopped
  <2>3. CASE UndoDone
    <3>1. compensations' = [compensations EXCEPT ![undoing] = "success"]
      BY <2>3 DEF UndoDone
    <3> QED
      BY <2>1, <2>3, <3>1 DEF TrailTypeOK, Stopped
  <2>4. CASE UndoGivenUp
    <3>1. compensations' = [compensations EXCEPT ![undoing] = "failure"]
      BY <2>4 DEF UndoGivenUp
    <3> QED
      BY <2>1, <3>1 DEF TrailTypeOK, Stopped
  <2>5. CASE Undo \/ FinishUnwinding \/ UNCHANGED compensations
    <3>1. UNCHANGED compensations
      BY <2>5 DEF Undo, FinishUnwinding, records
    <3> QED
      BY <2>1, <3>1 DEF Stopped
  <2> QED
    BY <2>1, <2>2, <2>3, <2>4, <2>5
<1> QED
  BY <1>1, <1>2

\* Every step keeps the replay up with the run.
LEMMA StepsShownStep ==
  ASSUME Truthful, UnwindsOnce, TypeOK, TrailTypeOK, Bookkeeping, Ownership, Reckoned, UndoOpen,
         UndosRecorded,
         OwedInPlace, StepsShown, [TrailNext]_allVars
  PROVE  StepsShown'
<1> DEFINE Shown(s) == frame.status[s]
           Kept(s) == \E k \in Sessions : wal[s][k] = "COMMITTED"
           Gone(s) == Stopped /\ Comp[s] # "none" /\ compensations[s] = "success"
           Passed(s) == Started /\ s < cur
           OwesDone(s) == \E e \in Owing : e.entity = s /\ e.event \in {"ACTION_COMPLETE", "STEP_SKIPPED_RESUME"}
           OwesUndone(s) == \E e \in Owing : e.entity = s /\ e.event = "COMPENSATION_COMPLETE"
<1>1. SUFFICES ASSUME NEW s \in Steps
               PROVE  /\ Shown(s)' = "success" => Kept(s)'
                      /\ Shown(s)' = "compensated" => Gone(s)'
                      /\ Passed(s)' => Shown(s)' \in {"success", "compensated"} \/ OwesDone(s)'
                      /\ Gone(s)' => Shown(s)' = "compensated" \/ OwesUndone(s)'
  BY DEF StepsShown
<1>2. /\ Shown(s) = "success" => Kept(s)
      /\ Shown(s) = "compensated" => Gone(s)
      /\ Passed(s) => Shown(s) \in {"success", "compensated"} \/ OwesDone(s)
      /\ Gone(s) => Shown(s) = "compensated" \/ OwesUndone(s)
  BY DEF StepsShown
<1>3. [Next]_vars /\ s \in Nat /\ cur \in Nat
  BY TrailImplements, Numbers
<1>4. Kept(s) => Kept(s)'
  BY <1>3, CommittedStays
<1>5. CASE Append1
  <2>1. UNCHANGED <<pc, cur, wal, compensations>>
    BY <1>5, StandsStill DEF Append1, vars, durable
  <2>2. PICK e \in Owing : frame' = R!Apply(frame, e) /\ Owing = Owing' \cup {e}
    BY <1>5, Appending
  <2>3. Gone(s)' = Gone(s) /\ Passed(s)' = Passed(s) /\ Kept(s)' = Kept(s)
    BY <2>1 DEF Stopped, Started
  <2>4. /\ e.event \in {"ACTION_START", "ACTION_FAILED", "ACTION_UNKNOWN"} =>
             pc \in (ForwardPlaces \ {"loop"}) \cup {"recover"} /\ e.entity = cur
        /\ e.event \in {"ACTION_COMPLETE", "STEP_SKIPPED_RESUME"} =>
             pc = "loop" /\ e.entity \in Steps /\ e.entity < cur
        /\ e.event = "COMPENSATION_COMPLETE" =>
             pc = "undo" /\ e.entity \in Steps /\ Comp[e.entity] # "none"
             /\ compensations[e.entity] = "success"
        /\ e.event = "RECONCILIATION_RESULT" => e.key = "resolved"
    BY <2>2 DEF OwedInPlace
  <2>5. \/ Shown(s)' = Shown(s)
        \/ /\ e.entity = s /\ e.event \in {"ACTION_START", "ACTION_FAILED", "ACTION_UNKNOWN"}
           /\ Shown(s)' \in {"running", "failure", "unknown"}
        \/ e.entity = s /\ e.event \in {"ACTION_COMPLETE", "STEP_SKIPPED_RESUME"}
           /\ Shown(s)' = "success"
        \/ e.entity = s /\ e.event = "COMPENSATION_COMPLETE" /\ Shown(s)' = "compensated"
    BY <2>2, <2>4, StatusMoves
  <2>6. CASE e.entity = s /\ e.event \in {"ACTION_START", "ACTION_FAILED", "ACTION_UNKNOWN"}
             /\ Shown(s)' \in {"running", "failure", "unknown"}
    <3>1. ~Passed(s)
      BY <1>3, <2>4, <2>6
    <3>2. ~Gone(s)
      BY <2>4, <2>6 DEF Stopped, UndosRecorded, ForwardPlaces, RecoveryPlaces
    <3> QED
      BY <2>3, <2>6, <3>1, <3>2
  <2>7. CASE e.entity = s /\ e.event \in {"ACTION_COMPLETE", "STEP_SKIPPED_RESUME"}
             /\ Shown(s)' = "success"
    <3>1. order[s] > 0
      BY <2>4, <2>7 DEF Reckoned, PlanFollowed, ForwardPlaces
    <3>2. Kept(s)
      BY <3>1 DEF Reckoned, CompletedHasRow, TypeOK, PlacesTyped, CompletedTyped, Sessions
    <3>3. ~Gone(s)
      BY <2>4, <2>7 DEF Stopped, RecoveryPlaces
    <3> QED
      BY <2>3, <2>7, <3>2, <3>3
  <2>8. CASE e.entity = s /\ e.event = "COMPENSATION_COMPLETE" /\ Shown(s)' = "compensated"
    <3>1. Gone(s)
      BY <2>4, <2>8 DEF Stopped, RecoveryPlaces
    <3> QED
      BY <2>3, <2>8, <3>1
  <2>9. CASE Shown(s)' = Shown(s)
    <3>1. ASSUME Passed(s)
          PROVE  Shown(s)' \in {"success", "compensated"} \/ OwesDone(s)'
      <4>1. CASE OwesDone(s)
        <5>1. PICK d \in Owing : d.entity = s
              /\ d.event \in {"ACTION_COMPLETE", "STEP_SKIPPED_RESUME"}
          BY <4>1
        <5>2. CASE d = e
          BY <2>2, <5>1, <5>2, StatusSettles
        <5>3. CASE d \in Owing'
          BY <5>1, <5>3
        <5> QED
          BY <2>2, <5>2, <5>3
      <4> QED
        BY <1>2, <2>9, <3>1, <4>1
    <3>2. ASSUME Gone(s)
          PROVE  Shown(s)' = "compensated" \/ OwesUndone(s)'
      <4>1. CASE OwesUndone(s)
        <5>1. PICK d \in Owing : d.entity = s /\ d.event = "COMPENSATION_COMPLETE"
          BY <4>1
        <5>2. CASE d = e
          BY <2>2, <5>1, <5>2, StatusSettles
        <5>3. CASE d \in Owing'
          BY <5>1, <5>3
        <5> QED
          BY <2>2, <5>2, <5>3
      <4> QED
        BY <1>2, <2>9, <3>2, <4>1
    <3> QED
      BY <1>2, <2>3, <2>9, <3>1, <3>2
  <2> QED
    BY <2>5, <2>6, <2>7, <2>8, <2>9
<1>6. CASE (Landing \/ UNCHANGED allVars) /\ UNCHANGED trailVars
  <2>1. UNCHANGED <<pc, cur, compensations, owed, frame>>
    BY <1>6, StandsStill DEF trailVars
  <2>2. UNCHANGED wal
    BY <1>6 DEF Landing, Land, LandEffect, LandUndo, allVars, vars, durable
  <2>3. Gone(s)' = Gone(s) /\ Passed(s)' = Passed(s) /\ Kept(s)' = Kept(s) /\ Shown(s)' = Shown(s)
    BY <2>1, <2>2 DEF Stopped, Started
  <2>4. OwesDone(s)' = OwesDone(s) /\ OwesUndone(s)' = OwesUndone(s)
    BY <2>1 DEF Owing
  <2> QED
    BY <1>2, <2>3, <2>4
<1>7. CASE ~Append1 /\ ~((Landing \/ UNCHANGED allVars) /\ UNCHANGED trailVars)
  <2>1. Shown(s)' = Shown(s)
    BY <1>7, OnlyAppends
  <2>2. Gone(s) => Gone(s)'
    BY SuccessStays
  <2>3. ASSUME Gone(s)' PROVE Shown(s)' = "compensated" \/ OwesUndone(s)'
    <3>1. Gone(s) \/ (UndoDone /\ s = undoing)
      BY <2>3, SuccessIsOwed
    <3>2. CASE UndoDone /\ s = undoing
      <4>1. owed' = <<Event("COMPENSATION_COMPLETE", s)>>
        BY <3>2 DEF UndoDone, Owes
      <4>2. Event("COMPENSATION_COMPLETE", s) \in Owing'
        BY <4>1, Elements DEF Owing
      <4> QED
        BY <4>2, EventFields
    <3>3. CASE Gone(s)
      <4>1. CASE owed = <<>>
        BY <1>2, <2>1, <3>3, <4>1, NothingOwed
      <4>2. CASE Die \/ RecoveryDies
        <5>1. pc' = "down"
          BY <4>2 DEF Die, Crash, LoseProcess, RecoveryDies, UnwindsOnce
        <5> QED
          BY <2>3, <3>3, <5>1 DEF Stopped, RecoveryPlaces
      <4> QED
        BY <1>7, <4>1, <4>2, InTurn
    <3> QED
      BY <3>1, <3>2, <3>3
  <2>4. ASSUME Passed(s)' PROVE Shown(s)' \in {"success", "compensated"} \/ OwesDone(s)'
    <3>1. CASE Skip \/ Succeed
      <4>1. cur' = cur + 1 /\ owed = <<>> /\ Started
        BY <3>1 DEF Skip, SkipCommitted, Succeed, RecordSuccess, MarkCompleted, Owes, Started
      <4>2. CASE s = cur
        <5>1. CASE Skip
          <6>1. owed' = <<Event("STEP_SKIPPED_RESUME", s)>>
            BY <4>2, <5>1 DEF Skip, Owes
          <6>2. Event("STEP_SKIPPED_RESUME", s) \in Owing'
            BY <6>1, Elements DEF Owing
          <6> QED
            BY <6>2, EventFields
        <5>2. CASE Succeed
          <6>1. owed' = <<Event("ACTION_COMPLETE", s)>>
                \/ owed' = <<Resolved(s, "success"), Event("ACTION_COMPLETE", s)>>
            BY <4>2, <5>2, Joined, JoinedNone DEF Succeed, Owes
          <6>2. Event("ACTION_COMPLETE", s) \in Owing'
            BY <6>1, Elements DEF Owing
          <6> QED
            BY <6>2, EventFields
        <5> QED
          BY <3>1, <5>1, <5>2
      <4>3. CASE s # cur
        <5>1. Passed(s)
          BY <1>3, <2>4, <4>1, <4>3
        <5> QED
          BY <1>2, <2>1, <4>1, <5>1, NothingOwed
      <4> QED
        BY <4>2, <4>3
    <3>2. CASE ~Skip /\ ~Succeed
      <4>1. ~Reuse
        BY NothingReused
      <4>2. Passed(s)
        <5>1. pc' # "down"
          BY <2>4 DEF Started
        <5>2. cur' # 1
          BY <2>4 DEF Steps
        <5>3. UNCHANGED cur /\ (pc' = pc \/ pc \in ForwardPlaces \cup RecoveryPlaces)
          BY <3>2, <4>1, <5>1, <5>2, Moves DEF ForwardPlaces
        <5> QED
          BY <2>4, <5>3 DEF Started, ForwardPlaces, RecoveryPlaces
      <4>3. CASE owed = <<>>
        BY <1>2, <2>1, <4>2, <4>3, NothingOwed
      <4>4. CASE Die \/ RecoveryDies
        <5>1. pc' = "down" \/ (UNCHANGED pc /\ pc = "down")
          BY <2>4, <4>4 DEF Die, Crash, LoseProcess, RecoveryDies, UnwindsOnce
        <5> QED
          BY <2>4, <5>1 DEF Started
      <4> QED
        BY <1>7, <4>3, <4>4, InTurn
    <3> QED
      BY <3>1, <3>2
  <2> QED
    BY <1>2, <1>4, <2>1, <2>2, <2>3, <2>4
<1> QED
  BY <1>5, <1>6, <1>7

\* THEOREM: the replay shows a step as successful once the loop has passed it, and as
\* compensated exactly once its compensation is on record.
THEOREM TrailCompleteInvariant ==
  ASSUME Truthful, UnwindsOnce
  PROVE  TrailSpec => []TrailComplete
<1>0. ResumedOnly
  BY DEF UnwindsOnce, ResumedOnly
<1>1. TrailInit => TrailComplete
  <2> SUFFICES ASSUME TrailInit PROVE TrailComplete
    OBVIOUS
  <2>1. OwedInPlace
    BY NothingOwed DEF TrailInit, OwedInPlace
  <2>2. \A s \in Steps : frame.status[s] = "pending"
    BY DEF TrailInit, R!EmptyFrame
  <2>3. ~Started /\ ~Stopped
    BY DEF TrailInit, Init, Started, Stopped, RecoveryPlaces
  <2>4. StepsShown
    BY <2>2, <2>3 DEF StepsShown
  <2> QED
    BY <2>1, <2>4 DEF TrailComplete
<1>2. /\ TypeOK /\ TrailTypeOK /\ Bookkeeping /\ Ownership /\ Accounted /\ Reckoned /\ Recorded
      /\ TrailComplete /\ [TrailNext]_allVars
      => TrailComplete'
  BY OwedInPlaceStep, StepsShownStep DEF Recorded, TrailComplete
<1> QED
  BY <1>0, <1>1, <1>2, TrailImplementsCoordinator, TypeCorrect, TrailTypeCorrect,
     BookkeepingInvariant,
     OwnershipInvariant, AccountedInvariant, ReckonedInvariant, RecordedInvariant, PTL DEF TrailSpec

------------------------------------------------------------------------------
(* The replay and the run *)

\* In a run that is over and owes nothing, the replay shows a step as successful exactly
\* if its effect stands.
LEMMA StatusAgrees ==
  ASSUME UndoTruthful, TypeOK, TrailTypeOK, Bookkeeping, Ownership, Reckoned, AllReckoned,
         UnwoundLast,
         Recorded, UndosSeen, StoppedInPlan, TrailComplete, Ended, NEW s \in Steps
  PROVE  frame.status[s] = "success" <=> Stands(s)
<1>1. pc = "done" /\ Started /\ Stopped /\ Owing = {}
  BY NothingOwed DEF Ended, Started, Stopped
<1>2. Stands(s) <=> order[s] > 0 /\ ~(Comp[s] # "none" /\ compensations[s] = "success")
  BY <1>1, StandsUnlessUndone DEF Recorded
<1>3. /\ frame.status[s] = "success" => \E k \in Sessions : wal[s][k] = "COMMITTED"
      /\ frame.status[s] = "compensated" => Comp[s] # "none" /\ compensations[s] = "success"
      /\ s < cur => frame.status[s] \in {"success", "compensated"}
      /\ Comp[s] # "none" /\ compensations[s] = "success" => frame.status[s] = "compensated"
  BY <1>1 DEF TrailComplete, StepsShown
<1>4. order[s] > 0 <=> s < cur
  BY <1>1 DEF StoppedInPlan
<1>5. (\E k \in Sessions : wal[s][k] = "COMMITTED") => order[s] > 0
  BY <1>1 DEF AllReckoned
<1> QED
  BY <1>2, <1>3, <1>4, <1>5

\* The replay counts no side effect that did not happen.
LEMMA NoneInvented ==
  ASSUME TypeOK, TrailTypeOK, EffectsCounted, owed = <<>>
  PROVE  frame.side_effects <= Cardinality(eff) + Cardinality(undone)
<1> DEFINE a == Cardinality(Counted)
           b == Cardinality(CountedUndos)
           c == Cardinality(eff)
           d == Cardinality(undone)
           n == frame.side_effects
<1>1. IsFiniteSet(eff) /\ IsFiniteSet(undone)
  BY WorldFinite DEF TypeOK, WorldTyped
<1>2. Counted \subseteq eff /\ CountedUndos \subseteq undone
  BY DEF Counted, CountedUndos
<1>3. /\ a \in Nat /\ c \in Nat /\ a <= c
      /\ b \in Nat /\ d \in Nat /\ b <= d
  BY <1>1, <1>2, OneMore
<1>4. n \in Nat
  BY DEF TrailTypeOK, R!Frames
<1>5. Owing = {}
  BY NothingOwed
<1>6. n + 0 <= a + b
  BY <1>5 DEF EffectsCounted
<1> HIDE DEF a, b, c, d, n
<1>7. n <= c + d
  BY <1>3, <1>4, <1>6
<1> QED
  BY <1>7 DEF c, d, n

\* THEOREM: the replay of the whole log of a run that is over ends in the state the run
\* ended in, shows the pivot crossed if it was, exactly the steps whose effect stands as
\* successful and the gate as it was decided, and counts no effect that did not happen:
\* with adapters that keep their contract and an unwinding that is not cut short.
THEOREM ReplayAgreesCorrect ==
  ASSUME UndoTruthful, UnwindsOnce
  PROVE  TrailSpec => []ReplayAgrees
<1>0. Truthful /\ ResumedOnly
  BY DEF UndoTruthful, UnwindsOnce, ResumedOnly
<1>1. /\ TypeOK /\ TrailTypeOK /\ Bookkeeping /\ Ownership /\ Reckoned /\ AllReckoned /\ UnwoundLast
      /\ Recorded /\ UndosSeen /\ StoppedInPlan /\ TrailHonest /\ TrailComplete
      => ReplayAgrees
  <2> SUFFICES ASSUME TypeOK, TrailTypeOK, Bookkeeping, Ownership, Reckoned, AllReckoned,
                      UnwoundLast,
                      Recorded, UndosSeen, StoppedInPlan, TrailHonest, TrailComplete, Ended
               PROVE  /\ frame.workflow_state = run
                      /\ pivotCrossed => frame.pivot_crossed
                      /\ \A s \in Steps : frame.status[s] = "success" <=> Stands(s)
                      /\ \A s \in Steps : frame.approval[s] \in {"granted", "denied"}
                                          => frame.approval[s] = approvals[s]
                      /\ frame.side_effects <= Cardinality(eff) + Cardinality(undone)
    BY DEF ReplayAgrees
  <2>1. frame.workflow_state = run
    BY NothingOwed DEF Ended, TrailHonest, StateShown
  <2>2. pivotCrossed => frame.pivot_crossed
    BY DEF TrailHonest, PivotShown
  <2>3. \A s \in Steps : frame.status[s] = "success" <=> Stands(s)
    BY StatusAgrees
  <2>4. \A s \in Steps : frame.approval[s] \in {"granted", "denied"} => frame.approval[s] = approvals[s]
    BY DEF TrailHonest, ApprovalsShown
  <2>5. frame.side_effects <= Cardinality(eff) + Cardinality(undone)
    BY NoneInvented DEF Ended, TrailHonest
  <2> QED
    BY <2>1, <2>2, <2>3, <2>4, <2>5
<1> QED
  BY <1>0, <1>1, TrailImplementsCoordinator, TypeCorrect, TrailTypeCorrect, BookkeepingInvariant,
     OwnershipInvariant, ReckonedInvariant, AllReckonedInvariant, UnwoundLastInvariant,
     RecordedInvariant, UndosSeenInvariant, StoppedInPlanInvariant, TrailHonestInvariant,
     TrailCompleteInvariant, PTL
==============================================================================
