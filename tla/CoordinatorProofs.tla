-------------------------- MODULE CoordinatorProofs --------------------------
(***************************************************************************)
(* Proofs about Coordinator, for every plan, every number of sessions and   *)
(* every environment the assumptions allow.                                *)
(*                                                                         *)
(*   TypeCorrect           types, and what each place of the program has    *)
(*   BookkeepingInvariant  rows before acts, successes real - whatever the  *)
(*                         tools, crashes and callers do                   *)
(*   OwnershipInvariant    one effect per step, over crashes and resumes -  *)
(*                         for adapters that keep their contract           *)
(*   AccountedInvariant    compensation newest first, each action settled   *)
(*                         or in the dead-letter queue - always            *)
(*   ReckonedInvariant     what the coordinator takes for done, or for      *)
(*                         undone, is - always                             *)
(*   UnwoundLastInvariant  only the last session compensates - where an     *)
(*                         unwinding is not cut short                      *)
(***************************************************************************)
EXTENDS CoordinatorInvariants, FiniteSetTheorems, TLAPS

------------------------------------------------------------------------------
(* The circuit breaker's record *)

\* allow() leaves a record of a tool behind.
LEMMA AllowTyped ==
  ASSUME NEW b \in ToolState, NEW cooled \in BOOLEAN, Allows(b, cooled)
  PROVE  AfterAllow(b) \in ToolState
<1>1. CASE b.state = "closed"
  BY <1>1 DEF ToolState, BreakerStates, AfterAllow
<1>2. CASE b.state = "open"
  BY <1>2 DEF ToolState, BreakerStates, AfterAllow
<1>3. CASE b.state = "half_open"
  BY <1>3 DEF ToolState, BreakerStates, AfterAllow
<1> QED
  BY <1>1, <1>2, <1>3 DEF ToolState, BreakerStates

\* So does record_failure().
LEMMA FailureTyped == \A b \in ToolState : AfterFailure(b) \in ToolState
BY BreakerAssumption DEF ToolState, BreakerStates, AfterFailure, Trips

\* The record a process starts with is one.
LEMMA FreshTyped == FreshToolState \in ToolState
BY DEF ToolState, BreakerStates, FreshToolState

------------------------------------------------------------------------------
(* Type correctness *)

\* Sets of steps are finite, so completion orders are numbers.
LEMMA CountTyped ==
  ASSUME NEW S \in SUBSET Steps
  PROVE  Cardinality(S) \in Nat
<1>1. IsFiniteSet(Steps)
  BY PlanAssumption, FS_Interval DEF Steps
<1> QED
  BY <1>1, FS_Subset, FS_CardinalityType

\* A step on record as committed counts itself: its rebuilt order is not 0.
LEMMA CountPositive ==
  ASSUME NEW S \in SUBSET Steps, NEW s \in S
  PROVE  Cardinality(S) \in Nat \ {0}
<1>1. IsFiniteSet(Steps)
  BY PlanAssumption, FS_Interval DEF Steps
<1>2. IsFiniteSet(S)
  BY <1>1, FS_Subset
<1>3. S # {}
  OBVIOUS
<1> QED
  BY <1>2, <1>3, FS_CardinalityType, FS_EmptySet

\* What a place of the forward loop, or of the unwinding, has at hand.
LEMMA AtStep ==
  ASSUME TypeOK, pc \in ForwardPlaces \ {"loop"}
  PROVE  cur \in Steps /\ session \in Sessions
BY PlanAssumption DEF TypeOK, PlacesTyped, StoresTyped, ForwardPlaces, Sessions

\* A process that was started has a session.
LEMMA Running ==
  ASSUME TypeOK, pc # "idle"
  PROVE  session \in Sessions
BY PlanAssumption DEF TypeOK, PlacesTyped, StoresTyped, Sessions

\* While an action is being compensated it is a completed step with a result.
LEMMA Unwinding ==
  ASSUME TypeOK, pc \in {"undo_mark", "undo_execute", "undo_result", "letter"}
  PROVE  /\ undoing \in Steps /\ session \in Sessions
         /\ src[undoing] \in Sessions
<1>1. undoing \in Steps /\ session \in Sessions /\ order[undoing] > 0
  BY PlanAssumption
  DEF TypeOK, PlacesTyped, StoresTyped, UnwindingTyped, RecoveryPlaces, Steps, Sessions
<1> QED
  BY <1>1, PlanAssumption DEF TypeOK, PlacesTyped, CompletedTyped, Sessions

\* Rewriting the status of a row keeps the log's type.
LEMMA RowTyped ==
  ASSUME LogTyped, NEW s \in Steps, NEW k \in Sessions, NEW status \in Statuses
  PROVE  /\ UNCHANGED cwal /\ SetRow(s, k, status) => LogTyped'
         /\ UNCHANGED cwal /\ WriteIntent(s, k) => LogTyped'
         /\ UNCHANGED wal /\ SetUndoRow(s, k, status) => LogTyped'
         /\ UNCHANGED wal /\ WriteUndoIntent(s, k) => LogTyped'
<1>1. \A row \in Statuses : /\ [wal EXCEPT ![s][k] = row] \in [Steps -> [Sessions -> Statuses]]
                            /\ [cwal EXCEPT ![s][k] = row] \in [Steps -> [Sessions -> Statuses]]
  BY DEF LogTyped
<1>2. "PENDING" \in Statuses
  BY DEF Statuses, Pending
<1>3. UNCHANGED cwal /\ SetRow(s, k, status) => LogTyped'
  BY <1>1 DEF LogTyped, SetRow
<1>4. UNCHANGED cwal /\ WriteIntent(s, k) => LogTyped'
  BY <1>1, <1>2 DEF LogTyped, WriteIntent
<1>5. UNCHANGED wal /\ SetUndoRow(s, k, status) => LogTyped'
  BY <1>1 DEF LogTyped, SetUndoRow
<1>6. UNCHANGED wal /\ WriteUndoIntent(s, k) => LogTyped'
  BY <1>1, <1>2 DEF LogTyped, WriteUndoIntent
<1> QED
  BY <1>3, <1>4, <1>5, <1>6

\* The values a new session resets its fields to.
LEMMA ZeroTyped == 0 \in Nat /\ 0 \in 0..MaxSessions /\ 0 \in 0..N
BY PlanAssumption

\* The initial state is typed.
LEMMA TypeInit == Init => TypeOK
<1> SUFFICES ASSUME Init PROVE TypeOK
  OBVIOUS
<1> USE PlanAssumption DEF Init
<1>1. LogTyped
  BY DEF LogTyped, Statuses
<1>2. StoresTyped
  BY DEF StoresTyped, Letters
<1>3. WorldTyped
  BY DEF WorldTyped
<1>4. ProgressTyped
  BY DEF ProgressTyped
<1>5. CompletedTyped
  BY ZeroTyped DEF CompletedTyped
<1>6. BreakerTyped
  BY FreshTyped DEF BreakerTyped
<1>7. UnwindingTyped
  BY DEF UnwindingTyped
<1>8. PlacesTyped
  BY DEF PlacesTyped, ForwardPlaces, RecoveryPlaces
<1> QED
  BY <1>1, <1>2, <1>3, <1>4, <1>5, <1>6, <1>7, <1>8 DEF TypeOK

\* Parts of the type invariant whose variables a step leaves alone.
LEMMA Frames ==
  /\ LogTyped /\ UNCHANGED <<wal, cwal>> => LogTyped'
  /\ StoresTyped /\ UNCHANGED <<approvals, reuse, dlq, session>> => StoresTyped'
  /\ WorldTyped /\ UNCHANGED world => WorldTyped'
  /\ CompletedTyped /\ UNCHANGED completed => CompletedTyped'
  /\ BreakerTyped /\ UNCHANGED breaker => BreakerTyped'
  /\ UnwindingTyped /\ UNCHANGED unwinding => UnwindingTyped'
BY DEF LogTyped, StoresTyped, WorldTyped, CompletedTyped, BreakerTyped, UnwindingTyped,
       world, completed, unwinding

\* What _seed_from_durable_state rebuilds.
LEMMA RebuiltTyped ==
  /\ Rebuilt \in [Steps -> Nat]
  /\ [s \in Steps |-> IF s \in CommittedSteps THEN CommittedIn(s) ELSE 0]
       \in [Steps -> 0..MaxSessions]
  /\ \A s \in CommittedSteps : CommittedIn(s) # 0
  /\ \A s \in Steps \ CommittedSteps : Rebuilt[s] = 0
<1>1. \A s \in Steps : Cardinality({t \in CommittedSteps : t <= s}) \in Nat
  <2>1. \A s \in Steps : {t \in CommittedSteps : t <= s} \subseteq Steps
    BY DEF CommittedSteps
  <2> QED
    BY <2>1, CountTyped
<1>2. \A s \in CommittedSteps : CommittedIn(s) \in Sessions
  BY DEF CommittedSteps, CommittedIn
<1> QED
  BY <1>1, <1>2, PlanAssumption DEF Rebuilt, Sessions

\* Every step of the forward loop keeps the types.
LEMMA TypeForward == TypeOK /\ StepForward => TypeOK'
<1> SUFFICES ASSUME TypeOK, StepForward PROVE TypeOK'
  OBVIOUS
<1> USE DEF TypeOK, ForwardPlaces, RecoveryPlaces, durable, progress, completed, unwinding
<1>1. CASE SkipCommitted
  <2>1. ProgressTyped'
    BY <1>1, PlanAssumption
    DEF SkipCommitted, ProgressTyped, Steps
  <2>2. PlacesTyped'
    BY <1>1
    DEF SkipCommitted, PlacesTyped
  <2> QED
    BY <1>1, <2>1, <2>2, Frames
    DEF SkipCommitted
<1>2. CASE DeadlinePasses
  <2>1. ProgressTyped'
    BY <1>2
    DEF DeadlinePasses, ProgressTyped
  <2>2. PlacesTyped'
    BY <1>2
    DEF DeadlinePasses, PlacesTyped
  <2> QED
    BY <1>2, <2>1, <2>2, Frames
    DEF DeadlinePasses
<1>3. CASE Complete
  <2>1. ProgressTyped'
    BY <1>3
    DEF Complete, ProgressTyped
  <2>2. PlacesTyped'
    BY <1>3
    DEF Complete, PlacesTyped
  <2> QED
    BY <1>3, <2>1, <2>2, Frames
    DEF Complete
<1>4. CASE \E d \in {"granted", "denied"} : ResolveApproval(d)
  <2>1. StoresTyped'
    BY <1>4
    DEF ResolveApproval, StoresTyped
  <2>2. ProgressTyped'
    BY <1>4
    DEF ResolveApproval, ProgressTyped
  <2>3. PlacesTyped'
    BY <1>4, PlanAssumption
    DEF ResolveApproval, PlacesTyped, Granted
  <2> QED
    BY <1>4, <2>1, <2>2, <2>3, Frames
    DEF ResolveApproval
<1>5. CASE NoApprovalNeeded
  <2>1. ProgressTyped'
    BY <1>5
    DEF NoApprovalNeeded, ProgressTyped
  <2>2. PlacesTyped'
    BY <1>5
    DEF NoApprovalNeeded, PlacesTyped
  <2> QED
    BY <1>5, <2>1, <2>2, Frames
    DEF NoApprovalNeeded
<1>6. CASE ReuseResult
  <2>1. ProgressTyped'
    BY <1>6, AtStep, PlanAssumption
    DEF ReuseResult, ProgressTyped, MarkCompleted, Steps
  <2>2. CompletedTyped'
    BY <1>6, AtStep, CountTyped, PlanAssumption
    DEF ReuseResult, CompletedTyped, MarkCompleted, Sessions, StoresTyped
  <2>3. PlacesTyped'
    BY <1>6, AtStep, CountTyped
    DEF ReuseResult, PlacesTyped, MarkCompleted, CompletedTyped, Sessions, KeyHolds
  <2> QED
    BY <1>6, <2>1, <2>2, <2>3, Frames
    DEF ReuseResult
<1>7. CASE ClaimKey
  <2>1. ProgressTyped'
    BY <1>7
    DEF ClaimKey, ProgressTyped
  <2>2. PlacesTyped'
    BY <1>7
    DEF ClaimKey, PlacesTyped
  <2> QED
    BY <1>7, <2>1, <2>2, Frames
    DEF ClaimKey
<1>8. CASE Admit
  <2>1. LogTyped'
    BY <1>8, AtStep, RowTyped, Frames
    DEF Admit, WriteAtFirst, Statuses, Pending
  <2>2. BreakerTyped'
    BY <1>8, AllowTyped, AtStep, PlanAssumption
    DEF Admit, BreakerTyped
  <2>3. ProgressTyped'
    BY <1>8
    DEF Admit, ProgressTyped
  <2>4. PlacesTyped'
    BY <1>8
    DEF Admit, PlacesTyped
  <2> QED
    BY <1>8, <2>1, <2>2, <2>3, <2>4, Frames
    DEF Admit
<1>9. CASE FailFast
  <2>1. LogTyped'
    BY <1>9, AtStep
    DEF FailFast, LogTyped, Statuses
  <2>2. ProgressTyped'
    BY <1>9
    DEF FailFast, ProgressTyped
  <2>3. PlacesTyped'
    BY <1>9
    DEF FailFast, PlacesTyped
  <2> QED
    BY <1>9, <2>1, <2>2, <2>3, Frames
    DEF FailFast
<1>10. CASE MarkRunning
  <2>1. LogTyped'
    BY <1>10, AtStep, RowTyped
    DEF MarkRunning, Statuses, Pending
  <2>2. ProgressTyped'
    BY <1>10
    DEF MarkRunning, ProgressTyped
  <2>3. PlacesTyped'
    BY <1>10
    DEF MarkRunning, PlacesTyped
  <2> QED
    BY <1>10, <2>1, <2>2, <2>3, Frames
    DEF MarkRunning
<1>11. CASE MissingAdapter
  <2>1. LogTyped'
    BY <1>11, AtStep, RowTyped
    DEF MissingAdapter, Statuses, Pending
  <2>2. ProgressTyped'
    BY <1>11
    DEF MissingAdapter, ProgressTyped
  <2>3. PlacesTyped'
    BY <1>11
    DEF MissingAdapter, PlacesTyped
  <2> QED
    BY <1>11, <2>1, <2>2, <2>3, Frames
    DEF MissingAdapter
<1>12. CASE \E o \in Outcomes : Execute(o)
  <2>1. WorldTyped'
    BY <1>12, AtStep
    DEF Execute, WorldTyped
  <2>2. ProgressTyped'
    BY <1>12
    DEF Execute, ProgressTyped, Outcomes, Classified
  <2>3. CompletedTyped'
    BY <1>12
    DEF Execute, CompletedTyped
  <2>4. PlacesTyped'
    BY <1>12
    DEF Execute, PlacesTyped, Outcomes, Classified
  <2> QED
    BY <1>12, <2>1, <2>2, <2>3, <2>4, Frames
    DEF Execute
<1>13. CASE PostconditionPasses
  <2>1. LogTyped'
    BY <1>13, AtStep, RowTyped
    DEF PostconditionPasses, Statuses, Pending
  <2>2. ProgressTyped'
    BY <1>13
    DEF PostconditionPasses, ProgressTyped
  <2>3. PlacesTyped'
    BY <1>13
    DEF PostconditionPasses, PlacesTyped
  <2> QED
    BY <1>13, <2>1, <2>2, <2>3, Frames
    DEF PostconditionPasses
<1>14. CASE PostconditionFails
  <2>1. ProgressTyped'
    BY <1>14
    DEF PostconditionFails, ProgressTyped
  <2>2. PlacesTyped'
    BY <1>14
    DEF PostconditionFails, PlacesTyped
  <2> QED
    BY <1>14, <2>1, <2>2, Frames
    DEF PostconditionFails
<1>15. CASE RecordSuccess
  <2>1. StoresTyped'
    BY <1>15, AtStep, PlanAssumption
    DEF RecordSuccess, StoresTyped, Sessions
  <2>2. BreakerTyped'
    BY <1>15, AtStep, FreshTyped, PlanAssumption
    DEF RecordSuccess, BreakerTyped, AfterSuccess
  <2>3. ProgressTyped'
    BY <1>15, AtStep, PlanAssumption
    DEF RecordSuccess, ProgressTyped, MarkCompleted, Steps
  <2>4. CompletedTyped'
    BY <1>15, AtStep, CountTyped, PlanAssumption
    DEF RecordSuccess, CompletedTyped, MarkCompleted, Sessions, StoresTyped
  <2>5. PlacesTyped'
    BY <1>15, AtStep, CountTyped
    DEF RecordSuccess, PlacesTyped, MarkCompleted, CompletedTyped, Sessions, KeyHolds
  <2> QED
    BY <1>15, <2>1, <2>2, <2>3, <2>4, <2>5, Frames
    DEF RecordSuccess
<1>16. CASE MarkUnknown
  <2>1. LogTyped'
    BY <1>16, AtStep, RowTyped
    DEF MarkUnknown, Statuses, Pending
  <2>2. ProgressTyped'
    BY <1>16
    DEF MarkUnknown, ProgressTyped
  <2>3. PlacesTyped'
    BY <1>16
    DEF MarkUnknown, PlacesTyped
  <2> QED
    BY <1>16, <2>1, <2>2, <2>3, Frames
    DEF MarkUnknown
<1>17. CASE QueryFinds
  <2>1. LogTyped'
    BY <1>17, AtStep, RowTyped
    DEF QueryFinds, Statuses, Pending
  <2>2. ProgressTyped'
    BY <1>17
    DEF QueryFinds, ProgressTyped
  <2>3. CompletedTyped'
    BY <1>17
    DEF QueryFinds, CompletedTyped
  <2>4. PlacesTyped'
    BY <1>17
    DEF QueryFinds, PlacesTyped
  <2> QED
    BY <1>17, <2>1, <2>2, <2>3, <2>4, Frames
    DEF QueryFinds
<1>18. CASE QueryFindsNothing
  <2>1. LogTyped'
    BY <1>18, AtStep, RowTyped
    DEF QueryFindsNothing, Statuses, Pending
  <2>2. ProgressTyped'
    BY <1>18
    DEF QueryFindsNothing, ProgressTyped
  <2>3. PlacesTyped'
    BY <1>18
    DEF QueryFindsNothing, PlacesTyped
  <2> QED
    BY <1>18, <2>1, <2>2, <2>3, Frames
    DEF QueryFindsNothing
<1>19. CASE QueryUndetermined
  <2>1. ProgressTyped'
    BY <1>19
    DEF QueryUndetermined, ProgressTyped
  <2>2. PlacesTyped'
    BY <1>19
    DEF QueryUndetermined, PlacesTyped
  <2> QED
    BY <1>19, <2>1, <2>2, Frames
    DEF QueryUndetermined
<1>20. CASE Retry \/ GiveUpForward \/ GiveUpUnwinding
  <2>1. LogTyped'
    BY <1>20, AtStep, RowTyped, Frames
    DEF Retry, GiveUpForward, GiveUpUnwinding, HandleFailure, Statuses
  <2>2. BreakerTyped'
    BY <1>20, AtStep, FailureTyped, PlanAssumption
    DEF Retry, GiveUpForward, GiveUpUnwinding, HandleFailure, BreakerTyped
  <2>3. ProgressTyped'
    BY <1>20
    DEF Retry, GiveUpForward, GiveUpUnwinding, HandleFailure, ProgressTyped
  <2>4. PlacesTyped'
    BY <1>20
    DEF Retry, GiveUpForward, GiveUpUnwinding, HandleFailure, PlacesTyped
  <2> QED
    BY <1>20, <2>1, <2>2, <2>3, <2>4, Frames
    DEF Retry, GiveUpForward, GiveUpUnwinding, HandleFailure
<1>21. CASE EscalateForward
  <2>1. StoresTyped'
    BY <1>21, AtStep
    DEF EscalateForward, StoresTyped, Letters
  <2>2. ProgressTyped'
    BY <1>21
    DEF EscalateForward, ProgressTyped
  <2>3. PlacesTyped'
    BY <1>21
    DEF EscalateForward, PlacesTyped
  <2> QED
    BY <1>21, <2>1, <2>2, <2>3, Frames
    DEF EscalateForward
<1> QED
  BY <1>1, <1>2, <1>3, <1>4, <1>5, <1>6, <1>7, <1>8, <1>9, <1>10, <1>11, <1>12, <1>13,
     <1>14, <1>15, <1>16, <1>17, <1>18, <1>19, <1>20, <1>21 DEF StepForward


\* Every step of the unwinding keeps the types.
LEMMA TypeBackward == TypeOK /\ StepBackward => TypeOK'
<1> SUFFICES ASSUME TypeOK, StepBackward PROVE TypeOK'
  OBVIOUS
<1> USE DEF TypeOK, ForwardPlaces, RecoveryPlaces, durable, progress, completed, unwinding
<1>1. CASE Recover
  <2>1. ProgressTyped'
    BY <1>1
    DEF Recover, ProgressTyped
  <2>2. UnwindingTyped'
    BY <1>1
    DEF Recover, UnwindingTyped, Tracked
  <2>3. PlacesTyped'
    BY <1>1
    DEF Recover, PlacesTyped, Tracked
  <2> QED
    BY <1>1, <2>1, <2>2, <2>3, Frames
    DEF Recover
<1>2. CASE \E s \in Steps : UndoBlocked(s)
  <2>1. ProgressTyped'
    BY <1>2
    DEF UndoBlocked, ProgressTyped
  <2>2. UnwindingTyped'
    BY <1>2
    DEF UndoBlocked, UnwindingTyped, Steps
  <2>3. PlacesTyped'
    BY <1>2, PlanAssumption
    DEF UndoBlocked, PlacesTyped, NextToUndo, Steps
  <2> QED
    BY <1>2, <2>1, <2>2, <2>3, Frames
    DEF UndoBlocked
<1>3. CASE \E s \in Steps : UndoStart(s)
  <2>1. LogTyped'
    BY <1>3, RowTyped, PlanAssumption
    DEF UndoStart, PlacesTyped, StoresTyped, Sessions, Statuses, Pending
  <2>2. ProgressTyped'
    BY <1>3
    DEF UndoStart, ProgressTyped
  <2>3. UnwindingTyped'
    BY <1>3
    DEF UndoStart, UnwindingTyped, Steps
  <2>4. PlacesTyped'
    BY <1>3, PlanAssumption
    DEF UndoStart, PlacesTyped, NextToUndo, Steps
  <2> QED
    BY <1>3, <2>1, <2>2, <2>3, <2>4, Frames
    DEF UndoStart
<1>4. CASE UndoMark
  <2>1. LogTyped'
    BY <1>4, Unwinding, RowTyped
    DEF UndoMark, Statuses, Pending
  <2>2. ProgressTyped'
    BY <1>4
    DEF UndoMark, ProgressTyped
  <2>3. UnwindingTyped'
    BY <1>4
    DEF UndoMark, UnwindingTyped
  <2>4. PlacesTyped'
    BY <1>4
    DEF UndoMark, PlacesTyped
  <2> QED
    BY <1>4, <2>1, <2>2, <2>3, <2>4, Frames
    DEF UndoMark
<1>5. CASE \E o \in Outcomes : UndoExecute(o)
  <2>1. WorldTyped'
    BY <1>5, Unwinding
    DEF UndoExecute, WorldTyped
  <2>2. ProgressTyped'
    BY <1>5
    DEF UndoExecute, ProgressTyped, Outcomes
  <2>3. PlacesTyped'
    BY <1>5
    DEF UndoExecute, PlacesTyped
  <2> QED
    BY <1>5, <2>1, <2>2, <2>3, Frames
    DEF UndoExecute
<1>6. CASE UndoSucceeds
  <2>1. LogTyped'
    BY <1>6, Unwinding, RowTyped
    DEF UndoSucceeds, Statuses, Pending
  <2>2. ProgressTyped'
    BY <1>6
    DEF UndoSucceeds, ProgressTyped, NextAction
  <2>3. UnwindingTyped'
    BY <1>6, PlanAssumption
    DEF UndoSucceeds, UnwindingTyped, NextAction
  <2>4. PlacesTyped'
    BY <1>6
    DEF UndoSucceeds, PlacesTyped, NextAction
  <2> QED
    BY <1>6, <2>1, <2>2, <2>3, <2>4, Frames
    DEF UndoSucceeds
<1>7. CASE \E status \in {"FAILED", "UNKNOWN"} : UndoFails(status)
  <2>1. LogTyped'
    BY <1>7, Unwinding, RowTyped
    DEF UndoFails, Statuses, Pending
  <2>2. ProgressTyped'
    BY <1>7
    DEF UndoFails, ProgressTyped
  <2>3. PlacesTyped'
    BY <1>7
    DEF UndoFails, PlacesTyped
  <2> QED
    BY <1>7, <2>1, <2>2, <2>3, Frames
    DEF UndoFails
<1>8. CASE DeadLetter
  <2>1. StoresTyped'
    BY <1>8, Unwinding
    DEF DeadLetter, StoresTyped, UndoLetters, Letters
  <2>2. ProgressTyped'
    BY <1>8
    DEF DeadLetter, ProgressTyped, NextAction
  <2>3. UnwindingTyped'
    BY <1>8, ZeroTyped
    DEF DeadLetter, UnwindingTyped, NextAction
  <2>4. PlacesTyped'
    BY <1>8
    DEF DeadLetter, PlacesTyped, NextAction
  <2> QED
    BY <1>8, <2>1, <2>2, <2>3, <2>4, Frames
    DEF DeadLetter
<1>9. CASE FinishRecovery
  <2>1. ProgressTyped'
    BY <1>9
    DEF FinishRecovery, ProgressTyped, FinalState
  <2>2. PlacesTyped'
    BY <1>9
    DEF FinishRecovery, PlacesTyped
  <2> QED
    BY <1>9, <2>1, <2>2, Frames
    DEF FinishRecovery
<1> QED
  BY <1>1, <1>2, <1>3, <1>4, <1>5, <1>6, <1>7, <1>8, <1>9 DEF StepBackward


\* Starting, resuming, losing and reopening a process keep the types.
LEMMA TypeSessions == TypeOK /\ (RunWorkflow \/ ResumeWorkflow \/ Crash \/ Reopen) => TypeOK'
<1> SUFFICES ASSUME TypeOK, (RunWorkflow \/ ResumeWorkflow \/ Crash \/ Reopen) PROVE TypeOK'
  OBVIOUS
<1> USE DEF TypeOK, ForwardPlaces, RecoveryPlaces, durable, progress, completed, unwinding
<1>1. CASE RunWorkflow
  <2>1. StoresTyped'
    BY <1>1, PlanAssumption
    DEF RunWorkflow, NewSession, StoresTyped
  <2>2. ProgressTyped'
    BY <1>1, PlanAssumption
    DEF RunWorkflow, NewSession, ProgressTyped
  <2>3. CompletedTyped'
    BY <1>1, ZeroTyped
    DEF RunWorkflow, NewSession, CompletedTyped
  <2>4. BreakerTyped'
    BY <1>1, FreshTyped
    DEF RunWorkflow, NewSession, BreakerTyped
  <2>5. UnwindingTyped'
    BY <1>1, PlanAssumption
    DEF RunWorkflow, NewSession, UnwindingTyped
  <2>6. PlacesTyped'
    BY <1>1
    DEF RunWorkflow, NewSession, PlacesTyped, StoresTyped
  <2> QED
    BY <1>1, <2>1, <2>2, <2>3, <2>4, <2>5, <2>6, Frames
    DEF RunWorkflow, NewSession
<1>2. CASE ResumeWorkflow
  <2>1. StoresTyped'
    BY <1>2, PlanAssumption
    DEF ResumeWorkflow, NewSession, StoresTyped
  <2>2. ProgressTyped'
    BY <1>2, PlanAssumption
    DEF ResumeWorkflow, NewSession, ProgressTyped, CommittedSteps
  <2>3. CompletedTyped'
    BY <1>2, RebuiltTyped
    DEF ResumeWorkflow, NewSession, CompletedTyped, PivotCommitted
  <2>4. BreakerTyped'
    BY <1>2, FreshTyped
    DEF ResumeWorkflow, NewSession, BreakerTyped
  <2>5. UnwindingTyped'
    BY <1>2, PlanAssumption
    DEF ResumeWorkflow, NewSession, UnwindingTyped
  <2>6. PlacesTyped'
    BY <1>2, RebuiltTyped
    DEF ResumeWorkflow, NewSession, PlacesTyped, StoresTyped
  <2> QED
    BY <1>2, <2>1, <2>2, <2>3, <2>4, <2>5, <2>6, Frames
    DEF ResumeWorkflow, NewSession
<1>3. CASE Crash
  <2>1. ProgressTyped'
    BY <1>3, PlanAssumption
    DEF Crash, LoseProcess, ProgressTyped
  <2>2. CompletedTyped'
    BY <1>3, ZeroTyped
    DEF Crash, LoseProcess, CompletedTyped
  <2>3. BreakerTyped'
    BY <1>3, FreshTyped
    DEF Crash, LoseProcess, BreakerTyped
  <2>4. UnwindingTyped'
    BY <1>3, PlanAssumption
    DEF Crash, LoseProcess, UnwindingTyped
  <2>5. PlacesTyped'
    BY <1>3
    DEF Crash, LoseProcess, PlacesTyped
  <2> QED
    BY <1>3, <2>1, <2>2, <2>3, <2>4, <2>5, Frames
    DEF Crash, LoseProcess
<1>4. CASE Reopen
  <2>1. ProgressTyped'
    BY <1>4, PlanAssumption
    DEF Reopen, LoseProcess, ProgressTyped
  <2>2. CompletedTyped'
    BY <1>4, ZeroTyped
    DEF Reopen, LoseProcess, CompletedTyped
  <2>3. BreakerTyped'
    BY <1>4, FreshTyped
    DEF Reopen, LoseProcess, BreakerTyped
  <2>4. UnwindingTyped'
    BY <1>4, PlanAssumption
    DEF Reopen, LoseProcess, UnwindingTyped
  <2>5. PlacesTyped'
    BY <1>4
    DEF Reopen, LoseProcess, PlacesTyped
  <2> QED
    BY <1>4, <2>1, <2>2, <2>3, <2>4, <2>5, Frames
    DEF Reopen, LoseProcess
<1> QED
  BY <1>1, <1>2, <1>3, <1>4


\* Reconciliation and late requests keep the types.
LEMMA TypeWorld == TypeOK /\ (Reconcile \/ Land) => TypeOK'
<1> SUFFICES ASSUME TypeOK, (Reconcile \/ Land) PROVE TypeOK'
  OBVIOUS
<1> USE DEF TypeOK, ForwardPlaces, RecoveryPlaces, durable, progress, completed, unwinding
<1>1. CASE \E s \in Steps, k \in Sessions : ReconcileRow(s, k)
  <2>1. LogTyped'
    BY <1>1, RowTyped
    DEF ReconcileRow, Statuses
  <2>2. ProgressTyped'
    BY <1>1
    DEF ReconcileRow, ProgressTyped
  <2>3. PlacesTyped'
    BY <1>1
    DEF ReconcileRow, PlacesTyped
  <2> QED
    BY <1>1, <2>1, <2>2, <2>3, Frames
    DEF ReconcileRow
<1>2. CASE \E s \in Steps, k \in Sessions : ReconcileUndoRow(s, k)
  <2>1. LogTyped'
    BY <1>2, RowTyped
    DEF ReconcileUndoRow, Statuses
  <2>2. ProgressTyped'
    BY <1>2
    DEF ReconcileUndoRow, ProgressTyped
  <2>3. PlacesTyped'
    BY <1>2
    DEF ReconcileUndoRow, PlacesTyped
  <2> QED
    BY <1>2, <2>1, <2>2, <2>3, Frames
    DEF ReconcileUndoRow
<1>3. CASE \E s \in Steps, k \in Sessions : LandEffect(s, k)
  <2>1. WorldTyped'
    BY <1>3
    DEF LandEffect, WorldTyped
  <2>2. ProgressTyped'
    BY <1>3
    DEF LandEffect, ProgressTyped
  <2>3. PlacesTyped'
    BY <1>3
    DEF LandEffect, PlacesTyped
  <2> QED
    BY <1>3, <2>1, <2>2, <2>3, Frames
    DEF LandEffect
<1>4. CASE \E s \in Steps, j \in Sessions, k \in Sessions : LandUndo(s, j, k)
  <2>1. WorldTyped'
    BY <1>4
    DEF LandUndo, WorldTyped
  <2>2. ProgressTyped'
    BY <1>4
    DEF LandUndo, ProgressTyped
  <2>3. PlacesTyped'
    BY <1>4
    DEF LandUndo, PlacesTyped
  <2> QED
    BY <1>4, <2>1, <2>2, <2>3, Frames
    DEF LandUndo
<1> QED
  BY <1>1, <1>2, <1>3, <1>4 DEF Reconcile, Land


\* THEOREM: every variable keeps its type, and every place of the program has the
\* step, the session and the completed action it works on.
THEOREM TypeCorrect == Spec => []TypeOK
<1>1. TypeOK /\ [Next]_vars => TypeOK'
  <2> SUFFICES ASSUME TypeOK, [Next]_vars PROVE TypeOK'
    OBVIOUS
  <2>1. CASE RunWorkflow \/ ResumeWorkflow \/ Crash \/ Reopen
    BY <2>1, TypeSessions
  <2>2. CASE CoordinatorStep
    BY <2>2, TypeForward, TypeBackward DEF CoordinatorStep
  <2>3. CASE Reconcile \/ Land
    BY <2>3, TypeWorld
  <2>4. CASE UNCHANGED vars
    <3>1. ProgressTyped'
      BY <2>4 DEF TypeOK, ProgressTyped, vars, progress
    <3>2. PlacesTyped'
      BY <2>4 DEF TypeOK, PlacesTyped, vars, progress, completed, unwinding
    <3> QED
      BY <2>4, <3>1, <3>2, Frames DEF TypeOK, vars, durable
  <2> QED
    BY <2>1, <2>2, <2>3, <2>4 DEF Next
<1> QED
  BY TypeInit, <1>1, PTL DEF Spec

------------------------------------------------------------------------------
(* Rows *)

OtherRowsStay(s, k) ==
  \A i \in Steps, j \in Sessions : ~(i = s /\ j = k) => wal'[i][j] = wal[i][j]
OtherUndoRowsStay(s, k) ==
  \A i \in Steps, j \in Sessions : ~(i = s /\ j = k) => cwal'[i][j] = cwal[i][j]

\* What update_status does to every row of a forward intent.
LEMMA SetRowIs ==
  ASSUME LogTyped, NEW s \in Steps, NEW k \in Sessions, NEW status, SetRow(s, k, status)
  PROVE  /\ wal'[s][k] = IF wal[s][k] = "absent" THEN "absent" ELSE status
         /\ OtherRowsStay(s, k)
BY DEF LogTyped, SetRow, OtherRowsStay

\* What write_intent does to every row of a forward intent.
LEMMA WriteIntentIs ==
  ASSUME LogTyped, NEW s \in Steps, NEW k \in Sessions, WriteIntent(s, k)
  PROVE  wal'[s][k] = "PENDING" /\ OtherRowsStay(s, k)
BY DEF LogTyped, WriteIntent, OtherRowsStay

\* What update_status does to every row of a compensating intent.
LEMMA SetUndoRowIs ==
  ASSUME LogTyped, NEW s \in Steps, NEW k \in Sessions, NEW status, SetUndoRow(s, k, status)
  PROVE  /\ cwal'[s][k] = IF cwal[s][k] = "absent" THEN "absent" ELSE status
         /\ OtherUndoRowsStay(s, k)
BY DEF LogTyped, SetUndoRow, OtherUndoRowsStay

\* What write_intent does to every row of a compensating intent.
LEMMA WriteUndoIntentIs ==
  ASSUME LogTyped, NEW s \in Steps, NEW k \in Sessions, WriteUndoIntent(s, k)
  PROVE  cwal'[s][k] = "PENDING" /\ OtherUndoRowsStay(s, k)
BY DEF LogTyped, WriteUndoIntent, OtherUndoRowsStay

\* The counters are numbers, as the arithmetic backend needs to be told.
LEMMA Numbers ==
  ASSUME TypeOK
  PROVE  /\ cur \in Nat /\ session \in Nat /\ attempt \in Nat
         /\ \A s \in Steps : s \in Nat
         /\ \A k \in Sessions : k \in Nat
BY PlanAssumption DEF TypeOK, StoresTyped, ProgressTyped, Steps, Sessions

------------------------------------------------------------------------------
(* Bookkeeping *)

\* What a step that leaves the log and the world alone keeps.
LEMMA BookkeepingFrames ==
  /\ WriteAhead /\ UNCHANGED <<wal, cwal, eff, undone>> => WriteAhead'
  /\ CommittedIsReal /\ UNCHANGED <<wal, eff>> => CommittedIsReal'
  /\ LateIsTracked /\ UNCHANGED <<wal, cwal, inflight>> => LateIsTracked'
BY DEF WriteAhead, CommittedIsReal, LateIsTracked

\* Rows are never removed, so what they track stays tracked.
RowsPersist ==
  \A s \in Steps, k \in Sessions :
    /\ wal[s][k] # "absent" => wal'[s][k] # "absent"
    /\ cwal[s][k] # "absent" => cwal'[s][k] # "absent"

\* As long as no row disappears and nothing acts, the log stays ahead of the world.
LEMMA Persistence ==
  ASSUME WriteAhead, LateIsTracked, RowsPersist, UNCHANGED <<eff, undone, inflight>>
  PROVE  LateIsTracked' /\ WriteAhead'
BY DEF WriteAhead, LateIsTracked, RowsPersist

\* A tool that reports success, verifiably, has acted.
LEMMA OkActs == \A o \in Outcomes : o.sees = "ok" => o.acts = "yes"
BY DEF Outcomes

\* Every step of the forward loop keeps the log ahead of the world.
LEMMA BookkeepingForward == TypeOK /\ Bookkeeping /\ StepForward => Bookkeeping'
<1> SUFFICES ASSUME TypeOK, Bookkeeping, StepForward PROVE Bookkeeping'
  OBVIOUS
<1> USE DEF Bookkeeping, ForwardPlaces, RecoveryPlaces, durable, world, progress, completed, unwinding
<1>1. CASE SkipCommitted
  <2>1. RowsInOrder'
    BY <1>1, Numbers
    DEF SkipCommitted, RowsInOrder
  <2>2. AttemptTracked'
    BY <1>1, Numbers
    DEF SkipCommitted, AttemptTracked, Attempting
  <2>3. SuccessIsReal'
    BY <1>1
    DEF SkipCommitted, SuccessIsReal
  <2> QED
    BY <1>1, <2>1, <2>2, <2>3, BookkeepingFrames
    DEF SkipCommitted
<1>2. CASE DeadlinePasses
  <2>1. RowsInOrder'
    BY <1>2
    DEF DeadlinePasses, RowsInOrder
  <2>2. AttemptTracked'
    BY <1>2
    DEF DeadlinePasses, AttemptTracked, Attempting
  <2>3. SuccessIsReal'
    BY <1>2
    DEF DeadlinePasses, SuccessIsReal
  <2> QED
    BY <1>2, <2>1, <2>2, <2>3, BookkeepingFrames
    DEF DeadlinePasses
<1>3. CASE Complete
  <2>1. RowsInOrder'
    BY <1>3
    DEF Complete, RowsInOrder
  <2>2. AttemptTracked'
    BY <1>3
    DEF Complete, AttemptTracked, Attempting
  <2>3. SuccessIsReal'
    BY <1>3
    DEF Complete, SuccessIsReal
  <2> QED
    BY <1>3, <2>1, <2>2, <2>3, BookkeepingFrames
    DEF Complete
<1>4. CASE \E d \in {"granted", "denied"} : ResolveApproval(d)
  <2>1. RowsInOrder'
    BY <1>4
    DEF ResolveApproval, RowsInOrder, Granted
  <2>2. AttemptTracked'
    BY <1>4
    DEF ResolveApproval, AttemptTracked, Attempting, Granted
  <2>3. SuccessIsReal'
    BY <1>4
    DEF ResolveApproval, SuccessIsReal, Granted
  <2> QED
    BY <1>4, <2>1, <2>2, <2>3, BookkeepingFrames
    DEF ResolveApproval
<1>5. CASE NoApprovalNeeded
  <2>1. RowsInOrder'
    BY <1>5
    DEF NoApprovalNeeded, RowsInOrder
  <2>2. AttemptTracked'
    BY <1>5
    DEF NoApprovalNeeded, AttemptTracked, Attempting
  <2>3. SuccessIsReal'
    BY <1>5
    DEF NoApprovalNeeded, SuccessIsReal
  <2> QED
    BY <1>5, <2>1, <2>2, <2>3, BookkeepingFrames
    DEF NoApprovalNeeded
<1>6. CASE ReuseResult
  <2>1. RowsInOrder'
    BY <1>6, Numbers
    DEF ReuseResult, MarkCompleted, RowsInOrder
  <2>2. AttemptTracked'
    BY <1>6
    DEF ReuseResult, MarkCompleted, AttemptTracked, Attempting
  <2>3. SuccessIsReal'
    BY <1>6
    DEF ReuseResult, MarkCompleted, SuccessIsReal
  <2> QED
    BY <1>6, <2>1, <2>2, <2>3, BookkeepingFrames
    DEF ReuseResult, MarkCompleted
<1>7. CASE ClaimKey
  <2>1. RowsInOrder'
    BY <1>7, Numbers
    DEF ClaimKey, RowsInOrder
  <2>2. AttemptTracked'
    BY <1>7
    DEF ClaimKey, AttemptTracked, Attempting
  <2>3. SuccessIsReal'
    BY <1>7
    DEF ClaimKey, SuccessIsReal
  <2> QED
    BY <1>7, <2>1, <2>2, <2>3, BookkeepingFrames
    DEF ClaimKey
<1>8. CASE Admit
  <2>1. cur \in Steps /\ session \in Sessions
    BY <1>8, AtStep
    DEF Admit
  <2>2. /\ wal'[cur][session] \notin {"absent", "COMMITTED"}
        /\ OtherRowsStay(cur, session)
    BY <1>8, AtStep, Numbers, WriteIntentIs, <2>1
    DEF Admit, WriteAtFirst, TypeOK, AttemptTracked, OtherRowsStay
  <2>3. RowsPersist
    BY <1>8, <2>1, <2>2
    DEF Admit, RowsPersist, OtherRowsStay
  <2>4. LateIsTracked' /\ WriteAhead'
    BY <1>8, <2>3, Persistence
    DEF Admit
  <2>5. RowsInOrder'
    BY <1>8, <2>1, <2>2, Numbers
    DEF Admit, RowsInOrder, OtherRowsStay
  <2>6. AttemptTracked'
    BY <1>8, <2>1, <2>2, Numbers
    DEF Admit, AttemptTracked, Attempting, OtherRowsStay
  <2>7. SuccessIsReal'
    BY <1>8, <2>1, <2>2
    DEF Admit, SuccessIsReal
  <2>8. CommittedIsReal'
    BY <1>8, <2>1, <2>2
    DEF Admit, CommittedIsReal, OtherRowsStay
  <2> QED
    BY <1>8, <2>4, <2>5, <2>6, <2>7, <2>8, BookkeepingFrames
    DEF Admit
<1>9. CASE FailFast
  <2>1. cur \in Steps /\ session \in Sessions
    BY <1>9, AtStep
    DEF FailFast
  <2>2. /\ wal'[cur][session] = "FAILED"
        /\ OtherRowsStay(cur, session)
    BY <1>9, AtStep, <2>1
    DEF FailFast, TypeOK, LogTyped, OtherRowsStay
  <2>3. RowsPersist
    BY <1>9, <2>1, <2>2
    DEF FailFast, RowsPersist, OtherRowsStay
  <2>4. LateIsTracked' /\ WriteAhead'
    BY <1>9, <2>3, Persistence
    DEF FailFast
  <2>5. RowsInOrder'
    BY <1>9, <2>1, <2>2, Numbers
    DEF FailFast, RowsInOrder, OtherRowsStay
  <2>6. AttemptTracked'
    BY <1>9, <2>1, <2>2, Numbers
    DEF FailFast, AttemptTracked, Attempting, OtherRowsStay
  <2>7. SuccessIsReal'
    BY <1>9, <2>1, <2>2
    DEF FailFast, SuccessIsReal
  <2>8. CommittedIsReal'
    BY <1>9, <2>1, <2>2
    DEF FailFast, CommittedIsReal, OtherRowsStay
  <2> QED
    BY <1>9, <2>4, <2>5, <2>6, <2>7, <2>8, BookkeepingFrames
    DEF FailFast
<1>10. CASE MarkRunning
  <2>1. cur \in Steps /\ session \in Sessions
    BY <1>10, AtStep
    DEF MarkRunning
  <2>2. wal'[cur][session] = "RUNNING" /\ OtherRowsStay(cur, session)
    BY <1>10, AtStep, SetRowIs, <2>1
    DEF MarkRunning, TypeOK, AttemptTracked, Attempting
  <2>3. RowsPersist
    BY <1>10, <2>1, <2>2
    DEF MarkRunning, RowsPersist, OtherRowsStay
  <2>4. LateIsTracked' /\ WriteAhead'
    BY <1>10, <2>3, Persistence
    DEF MarkRunning
  <2>5. RowsInOrder'
    BY <1>10, <2>1, <2>2, Numbers
    DEF MarkRunning, RowsInOrder, OtherRowsStay
  <2>6. AttemptTracked'
    BY <1>10, <2>1, <2>2, Numbers
    DEF MarkRunning, AttemptTracked, Attempting, OtherRowsStay
  <2>7. SuccessIsReal'
    BY <1>10, <2>1, <2>2
    DEF MarkRunning, SuccessIsReal
  <2>8. CommittedIsReal'
    BY <1>10, <2>1, <2>2
    DEF MarkRunning, CommittedIsReal, OtherRowsStay
  <2> QED
    BY <1>10, <2>4, <2>5, <2>6, <2>7, <2>8, BookkeepingFrames
    DEF MarkRunning
<1>11. CASE MissingAdapter
  <2>1. cur \in Steps /\ session \in Sessions
    BY <1>11, AtStep
    DEF MissingAdapter
  <2>2. wal'[cur][session] = "FAILED" /\ OtherRowsStay(cur, session)
    BY <1>11, AtStep, SetRowIs, <2>1
    DEF MissingAdapter, TypeOK, AttemptTracked, Attempting
  <2>3. RowsPersist
    BY <1>11, <2>1, <2>2
    DEF MissingAdapter, RowsPersist, OtherRowsStay
  <2>4. LateIsTracked' /\ WriteAhead'
    BY <1>11, <2>3, Persistence
    DEF MissingAdapter
  <2>5. RowsInOrder'
    BY <1>11, <2>1, <2>2, Numbers
    DEF MissingAdapter, RowsInOrder, OtherRowsStay
  <2>6. AttemptTracked'
    BY <1>11, <2>1, <2>2, Numbers
    DEF MissingAdapter, AttemptTracked, Attempting, OtherRowsStay
  <2>7. SuccessIsReal'
    BY <1>11, <2>1, <2>2
    DEF MissingAdapter, SuccessIsReal
  <2>8. CommittedIsReal'
    BY <1>11, <2>1, <2>2
    DEF MissingAdapter, CommittedIsReal, OtherRowsStay
  <2> QED
    BY <1>11, <2>4, <2>5, <2>6, <2>7, <2>8, BookkeepingFrames
    DEF MissingAdapter
<1>12. CASE \E o \in Outcomes : Execute(o)
  <2>1. cur \in Steps /\ session \in Sessions
    BY <1>12, AtStep
    DEF Execute
  <2>2. RowsInOrder'
    BY <1>12, <2>1
    DEF Execute, RowsInOrder, Outcomes, Classified, Attempting, AttemptTracked
  <2>3. AttemptTracked'
    BY <1>12, <2>1
    DEF Execute, AttemptTracked, Attempting, Outcomes, Classified
  <2>4. LateIsTracked'
    BY <1>12, <2>1
    DEF Execute, LateIsTracked, Outcomes, Classified, Attempting, AttemptTracked
  <2>5. SuccessIsReal'
    BY <1>12, <2>1, OkActs
    DEF Execute, SuccessIsReal, Classified
  <2>6. WriteAhead'
    BY <1>12, <2>1
    DEF Execute, WriteAhead, Outcomes, Classified, Attempting, AttemptTracked
  <2>7. CommittedIsReal'
    BY <1>12, <2>1
    DEF Execute, CommittedIsReal, Outcomes, Classified, Attempting, AttemptTracked
  <2> QED
    BY <1>12, <2>2, <2>3, <2>4, <2>5, <2>6, <2>7, BookkeepingFrames
    DEF Execute
<1>13. CASE PostconditionPasses
  <2>1. cur \in Steps /\ session \in Sessions
    BY <1>13, AtStep
    DEF PostconditionPasses
  <2>2. wal'[cur][session] = "COMMITTED" /\ OtherRowsStay(cur, session)
    BY <1>13, AtStep, SetRowIs, <2>1
    DEF PostconditionPasses, TypeOK, AttemptTracked, Attempting
  <2>3. RowsPersist
    BY <1>13, <2>1, <2>2
    DEF PostconditionPasses, RowsPersist, OtherRowsStay
  <2>4. LateIsTracked' /\ WriteAhead'
    BY <1>13, <2>3, Persistence
    DEF PostconditionPasses
  <2>5. RowsInOrder'
    BY <1>13, <2>1, <2>2, Numbers
    DEF PostconditionPasses, RowsInOrder, OtherRowsStay
  <2>6. AttemptTracked'
    BY <1>13, <2>1, <2>2, Numbers
    DEF PostconditionPasses, AttemptTracked, Attempting, OtherRowsStay
  <2>7. SuccessIsReal'
    BY <1>13, <2>1, <2>2
    DEF PostconditionPasses, SuccessIsReal
  <2>8. CommittedIsReal'
    BY <1>13, <2>1, <2>2
    DEF PostconditionPasses, CommittedIsReal, OtherRowsStay, SuccessIsReal, Verified
  <2> QED
    BY <1>13, <2>4, <2>5, <2>6, <2>7, <2>8, BookkeepingFrames
    DEF PostconditionPasses
<1>14. CASE PostconditionFails
  <2>1. RowsInOrder'
    BY <1>14
    DEF PostconditionFails, RowsInOrder
  <2>2. AttemptTracked'
    BY <1>14
    DEF PostconditionFails, AttemptTracked, Attempting
  <2>3. SuccessIsReal'
    BY <1>14
    DEF PostconditionFails, SuccessIsReal
  <2> QED
    BY <1>14, <2>1, <2>2, <2>3, BookkeepingFrames
    DEF PostconditionFails
<1>15. CASE RecordSuccess
  <2>1. RowsInOrder'
    BY <1>15, Numbers
    DEF RecordSuccess, MarkCompleted, RowsInOrder
  <2>2. AttemptTracked'
    BY <1>15
    DEF RecordSuccess, MarkCompleted, AttemptTracked, Attempting
  <2>3. SuccessIsReal'
    BY <1>15
    DEF RecordSuccess, MarkCompleted, SuccessIsReal
  <2> QED
    BY <1>15, <2>1, <2>2, <2>3, BookkeepingFrames
    DEF RecordSuccess, MarkCompleted
<1>16. CASE MarkUnknown
  <2>1. cur \in Steps /\ session \in Sessions
    BY <1>16, AtStep
    DEF MarkUnknown
  <2>2. wal'[cur][session] = "UNKNOWN" /\ OtherRowsStay(cur, session)
    BY <1>16, AtStep, SetRowIs, <2>1
    DEF MarkUnknown, TypeOK, AttemptTracked, Attempting
  <2>3. RowsPersist
    BY <1>16, <2>1, <2>2
    DEF MarkUnknown, RowsPersist, OtherRowsStay
  <2>4. LateIsTracked' /\ WriteAhead'
    BY <1>16, <2>3, Persistence
    DEF MarkUnknown
  <2>5. RowsInOrder'
    BY <1>16, <2>1, <2>2, Numbers
    DEF MarkUnknown, RowsInOrder, OtherRowsStay
  <2>6. AttemptTracked'
    BY <1>16, <2>1, <2>2, Numbers
    DEF MarkUnknown, AttemptTracked, Attempting, OtherRowsStay
  <2>7. SuccessIsReal'
    BY <1>16, <2>1, <2>2
    DEF MarkUnknown, SuccessIsReal
  <2>8. CommittedIsReal'
    BY <1>16, <2>1, <2>2
    DEF MarkUnknown, CommittedIsReal, OtherRowsStay
  <2> QED
    BY <1>16, <2>4, <2>5, <2>6, <2>7, <2>8, BookkeepingFrames
    DEF MarkUnknown
<1>17. CASE QueryFinds
  <2>1. cur \in Steps /\ session \in Sessions
    BY <1>17, AtStep
    DEF QueryFinds
  <2>2. wal'[cur][session] = "COMMITTED" /\ OtherRowsStay(cur, session)
    BY <1>17, AtStep, SetRowIs, <2>1
    DEF QueryFinds, TypeOK, AttemptTracked, Attempting
  <2>3. RowsPersist
    BY <1>17, <2>1, <2>2
    DEF QueryFinds, RowsPersist, OtherRowsStay
  <2>4. LateIsTracked' /\ WriteAhead'
    BY <1>17, <2>3, Persistence
    DEF QueryFinds
  <2>5. RowsInOrder'
    BY <1>17, <2>1, <2>2, Numbers
    DEF QueryFinds, RowsInOrder, OtherRowsStay
  <2>6. AttemptTracked'
    BY <1>17, <2>1, <2>2, Numbers
    DEF QueryFinds, AttemptTracked, Attempting, OtherRowsStay
  <2>7. SuccessIsReal'
    BY <1>17, <2>1, <2>2
    DEF QueryFinds, SuccessIsReal
  <2>8. CommittedIsReal'
    BY <1>17, <2>1, <2>2
    DEF QueryFinds, CommittedIsReal, OtherRowsStay, Answers
  <2> QED
    BY <1>17, <2>4, <2>5, <2>6, <2>7, <2>8, BookkeepingFrames
    DEF QueryFinds
<1>18. CASE QueryFindsNothing
  <2>1. cur \in Steps /\ session \in Sessions
    BY <1>18, AtStep
    DEF QueryFindsNothing
  <2>2. wal'[cur][session] = "FAILED" /\ OtherRowsStay(cur, session)
    BY <1>18, AtStep, SetRowIs, <2>1
    DEF QueryFindsNothing, TypeOK, AttemptTracked, Attempting
  <2>3. RowsPersist
    BY <1>18, <2>1, <2>2
    DEF QueryFindsNothing, RowsPersist, OtherRowsStay
  <2>4. LateIsTracked' /\ WriteAhead'
    BY <1>18, <2>3, Persistence
    DEF QueryFindsNothing
  <2>5. RowsInOrder'
    BY <1>18, <2>1, <2>2, Numbers
    DEF QueryFindsNothing, RowsInOrder, OtherRowsStay, AttemptTracked, Attempting
  <2>6. AttemptTracked'
    BY <1>18, <2>1, <2>2, Numbers
    DEF QueryFindsNothing, AttemptTracked, Attempting, OtherRowsStay
  <2>7. SuccessIsReal'
    BY <1>18, <2>1, <2>2
    DEF QueryFindsNothing, SuccessIsReal
  <2>8. CommittedIsReal'
    BY <1>18, <2>1, <2>2
    DEF QueryFindsNothing, CommittedIsReal, OtherRowsStay
  <2> QED
    BY <1>18, <2>4, <2>5, <2>6, <2>7, <2>8, BookkeepingFrames
    DEF QueryFindsNothing
<1>19. CASE QueryUndetermined
  <2>1. RowsInOrder'
    BY <1>19
    DEF QueryUndetermined, RowsInOrder
  <2>2. AttemptTracked'
    BY <1>19
    DEF QueryUndetermined, AttemptTracked, Attempting
  <2>3. SuccessIsReal'
    BY <1>19
    DEF QueryUndetermined, SuccessIsReal
  <2> QED
    BY <1>19, <2>1, <2>2, <2>3, BookkeepingFrames
    DEF QueryUndetermined
<1>20. CASE Retry \/ GiveUpForward \/ GiveUpUnwinding
  <2>1. cur \in Steps /\ session \in Sessions
    BY <1>20, AtStep
    DEF Retry, GiveUpForward, GiveUpUnwinding, HandleFailure
  <2>2. /\ wal'[cur][session] \notin {"absent", "COMMITTED"}
        /\ OtherRowsStay(cur, session)
    BY <1>20, AtStep, SetRowIs, <2>1
    DEF Retry, GiveUpForward, GiveUpUnwinding, HandleFailure, TypeOK, AttemptTracked,
        Attempting, OtherRowsStay
  <2>3. RowsPersist
    BY <1>20, <2>1, <2>2
    DEF Retry, GiveUpForward, GiveUpUnwinding, HandleFailure, RowsPersist,
        OtherRowsStay
  <2>4. LateIsTracked' /\ WriteAhead'
    BY <1>20, <2>3, Persistence
    DEF Retry, GiveUpForward, GiveUpUnwinding, HandleFailure
  <2>5. RowsInOrder'
    BY <1>20, <2>1, <2>2, Numbers
    DEF Retry, GiveUpForward, GiveUpUnwinding, HandleFailure, RowsInOrder,
        OtherRowsStay, AttemptTracked, Attempting
  <2>6. AttemptTracked'
    BY <1>20, <2>1, <2>2, Numbers
    DEF Retry, GiveUpForward, GiveUpUnwinding, HandleFailure, AttemptTracked,
        Attempting, OtherRowsStay
  <2>7. SuccessIsReal'
    BY <1>20, <2>1, <2>2
    DEF Retry, GiveUpForward, GiveUpUnwinding, HandleFailure, SuccessIsReal
  <2>8. CommittedIsReal'
    BY <1>20, <2>1, <2>2
    DEF Retry, GiveUpForward, GiveUpUnwinding, HandleFailure, CommittedIsReal,
        OtherRowsStay
  <2> QED
    BY <1>20, <2>4, <2>5, <2>6, <2>7, <2>8, BookkeepingFrames
    DEF Retry, GiveUpForward, GiveUpUnwinding, HandleFailure
<1>21. CASE EscalateForward
  <2>1. RowsInOrder'
    BY <1>21
    DEF EscalateForward, RowsInOrder
  <2>2. AttemptTracked'
    BY <1>21
    DEF EscalateForward, AttemptTracked, Attempting
  <2>3. SuccessIsReal'
    BY <1>21
    DEF EscalateForward, SuccessIsReal
  <2> QED
    BY <1>21, <2>1, <2>2, <2>3, BookkeepingFrames
    DEF EscalateForward
<1> QED
  BY <1>1, <1>2, <1>3, <1>4, <1>5, <1>6, <1>7, <1>8, <1>9, <1>10, <1>11, <1>12, <1>13,
     <1>14, <1>15, <1>16, <1>17, <1>18, <1>19, <1>20, <1>21 DEF StepForward


\* Every step of the unwinding keeps the log ahead of the world.
LEMMA BookkeepingBackward == TypeOK /\ Bookkeeping /\ StepBackward => Bookkeeping'
<1> SUFFICES ASSUME TypeOK, Bookkeeping, StepBackward PROVE Bookkeeping'
  OBVIOUS
<1> USE DEF Bookkeeping, ForwardPlaces, RecoveryPlaces, durable, world, progress, completed, unwinding
<1>1. CASE Recover
  <2>1. RowsInOrder'
    BY <1>1
    DEF Recover, RowsInOrder
  <2>2. AttemptTracked'
    BY <1>1
    DEF Recover, AttemptTracked, Attempting
  <2>3. SuccessIsReal'
    BY <1>1
    DEF Recover, SuccessIsReal
  <2> QED
    BY <1>1, <2>1, <2>2, <2>3, BookkeepingFrames
    DEF Recover
<1>2. ASSUME NEW s \in Steps, UndoBlocked(s)
      PROVE  Bookkeeping'
  <2>1. RowsInOrder'
    BY <1>2
    DEF UndoBlocked, RowsInOrder
  <2>2. AttemptTracked'
    BY <1>2
    DEF UndoBlocked, AttemptTracked, Attempting
  <2>3. SuccessIsReal'
    BY <1>2
    DEF UndoBlocked, SuccessIsReal
  <2> QED
    BY <1>2, <2>1, <2>2, <2>3, BookkeepingFrames
    DEF UndoBlocked
<1>3. ASSUME NEW s \in Steps, UndoStart(s)
      PROVE  Bookkeeping'
  <2>1. session \in Sessions
    BY <1>3, Running
    DEF UndoStart
  <2>2. cwal'[s][session] = "PENDING" /\ OtherUndoRowsStay(s, session)
    BY <1>3, WriteUndoIntentIs, <2>1
    DEF UndoStart, TypeOK
  <2>3. RowsPersist
    BY <1>3, <2>1, <2>2
    DEF UndoStart, RowsPersist, OtherUndoRowsStay
  <2>4. LateIsTracked' /\ WriteAhead'
    BY <1>3, <2>3, Persistence
    DEF UndoStart
  <2>5. RowsInOrder'
    BY <1>3, <2>1, <2>2, Numbers
    DEF UndoStart, RowsInOrder, OtherUndoRowsStay
  <2>6. AttemptTracked'
    BY <1>3, <2>1, <2>2
    DEF UndoStart, AttemptTracked, Attempting, OtherUndoRowsStay
  <2>7. SuccessIsReal'
    BY <1>3, <2>1, <2>2
    DEF UndoStart, SuccessIsReal
  <2>8. CommittedIsReal'
    BY <1>3, <2>1, <2>2
    DEF UndoStart, CommittedIsReal, OtherUndoRowsStay
  <2> QED
    BY <1>3, <2>4, <2>5, <2>6, <2>7, <2>8, BookkeepingFrames
    DEF UndoStart
<1>4. CASE UndoMark
  <2>1. undoing \in Steps /\ session \in Sessions
    BY <1>4, Unwinding
    DEF UndoMark
  <2>2. cwal'[undoing][session] = "COMPENSATING" /\ OtherUndoRowsStay(undoing, session)
    BY <1>4, Unwinding, SetUndoRowIs, <2>1
    DEF UndoMark, TypeOK, AttemptTracked
  <2>3. RowsPersist
    BY <1>4, <2>1, <2>2
    DEF UndoMark, RowsPersist, OtherUndoRowsStay
  <2>4. LateIsTracked' /\ WriteAhead'
    BY <1>4, <2>3, Persistence
    DEF UndoMark
  <2>5. RowsInOrder'
    BY <1>4, <2>1, <2>2, Numbers
    DEF UndoMark, RowsInOrder, OtherUndoRowsStay
  <2>6. AttemptTracked'
    BY <1>4, <2>1, <2>2
    DEF UndoMark, AttemptTracked, Attempting, OtherUndoRowsStay
  <2>7. SuccessIsReal'
    BY <1>4, <2>1, <2>2
    DEF UndoMark, SuccessIsReal
  <2>8. CommittedIsReal'
    BY <1>4, <2>1, <2>2
    DEF UndoMark, CommittedIsReal, OtherUndoRowsStay
  <2> QED
    BY <1>4, <2>4, <2>5, <2>6, <2>7, <2>8, BookkeepingFrames
    DEF UndoMark
<1>5. ASSUME NEW o \in Outcomes, UndoExecute(o)
      PROVE  Bookkeeping'
  <2>1. undoing \in Steps /\ session \in Sessions /\ src[undoing] \in Sessions
    BY <1>5, Unwinding
    DEF UndoExecute
  <2>2. RowsInOrder'
    BY <1>5, <2>1
    DEF UndoExecute, RowsInOrder
  <2>3. AttemptTracked'
    BY <1>5, <2>1
    DEF UndoExecute, AttemptTracked, Attempting
  <2>4. LateIsTracked'
    BY <1>5, <2>1
    DEF UndoExecute, LateIsTracked, AttemptTracked
  <2>5. SuccessIsReal'
    BY <1>5, <2>1
    DEF UndoExecute, SuccessIsReal
  <2>6. WriteAhead'
    BY <1>5, <2>1
    DEF UndoExecute, WriteAhead, AttemptTracked
  <2>7. CommittedIsReal'
    BY <1>5, <2>1
    DEF UndoExecute, CommittedIsReal
  <2> QED
    BY <1>5, <2>2, <2>3, <2>4, <2>5, <2>6, <2>7, BookkeepingFrames
    DEF UndoExecute
<1>6. CASE UndoSucceeds
  <2>1. undoing \in Steps /\ session \in Sessions
    BY <1>6, Unwinding
    DEF UndoSucceeds, NextAction
  <2>2. cwal'[undoing][session] = "COMPENSATED" /\ OtherUndoRowsStay(undoing, session)
    BY <1>6, Unwinding, SetUndoRowIs, <2>1
    DEF UndoSucceeds, NextAction, TypeOK, AttemptTracked
  <2>3. RowsPersist
    BY <1>6, <2>1, <2>2
    DEF UndoSucceeds, NextAction, RowsPersist, OtherUndoRowsStay
  <2>4. LateIsTracked' /\ WriteAhead'
    BY <1>6, <2>3, Persistence
    DEF UndoSucceeds, NextAction
  <2>5. RowsInOrder'
    BY <1>6, <2>1, <2>2, Numbers
    DEF UndoSucceeds, NextAction, RowsInOrder, OtherUndoRowsStay
  <2>6. AttemptTracked'
    BY <1>6, <2>1, <2>2
    DEF UndoSucceeds, NextAction, AttemptTracked, Attempting, OtherUndoRowsStay
  <2>7. SuccessIsReal'
    BY <1>6, <2>1, <2>2
    DEF UndoSucceeds, NextAction, SuccessIsReal
  <2>8. CommittedIsReal'
    BY <1>6, <2>1, <2>2
    DEF UndoSucceeds, NextAction, CommittedIsReal, OtherUndoRowsStay
  <2> QED
    BY <1>6, <2>4, <2>5, <2>6, <2>7, <2>8, BookkeepingFrames
    DEF UndoSucceeds, NextAction
<1>7. ASSUME NEW status \in {"FAILED", "UNKNOWN"}, UndoFails(status)
      PROVE  Bookkeeping'
  <2>1. undoing \in Steps /\ session \in Sessions
    BY <1>7, Unwinding
    DEF UndoFails
  <2>2. cwal'[undoing][session] = status /\ OtherUndoRowsStay(undoing, session)
    BY <1>7, Unwinding, SetUndoRowIs, <2>1
    DEF UndoFails, TypeOK, AttemptTracked
  <2>3. RowsPersist
    BY <1>7, <2>1, <2>2
    DEF UndoFails, RowsPersist, OtherUndoRowsStay
  <2>4. LateIsTracked' /\ WriteAhead'
    BY <1>7, <2>3, Persistence
    DEF UndoFails
  <2>5. RowsInOrder'
    BY <1>7, <2>1, <2>2, Numbers
    DEF UndoFails, RowsInOrder, OtherUndoRowsStay
  <2>6. AttemptTracked'
    BY <1>7, <2>1, <2>2
    DEF UndoFails, AttemptTracked, Attempting, OtherUndoRowsStay
  <2>7. SuccessIsReal'
    BY <1>7, <2>1, <2>2
    DEF UndoFails, SuccessIsReal
  <2>8. CommittedIsReal'
    BY <1>7, <2>1, <2>2
    DEF UndoFails, CommittedIsReal, OtherUndoRowsStay
  <2> QED
    BY <1>7, <2>4, <2>5, <2>6, <2>7, <2>8, BookkeepingFrames
    DEF UndoFails
<1>8. CASE DeadLetter
  <2>1. RowsInOrder'
    BY <1>8
    DEF DeadLetter, NextAction, RowsInOrder
  <2>2. AttemptTracked'
    BY <1>8
    DEF DeadLetter, NextAction, AttemptTracked, Attempting
  <2>3. SuccessIsReal'
    BY <1>8
    DEF DeadLetter, NextAction, SuccessIsReal
  <2> QED
    BY <1>8, <2>1, <2>2, <2>3, BookkeepingFrames
    DEF DeadLetter, NextAction
<1>9. CASE FinishRecovery
  <2>1. RowsInOrder'
    BY <1>9
    DEF FinishRecovery, RowsInOrder
  <2>2. AttemptTracked'
    BY <1>9
    DEF FinishRecovery, AttemptTracked, Attempting
  <2>3. SuccessIsReal'
    BY <1>9
    DEF FinishRecovery, SuccessIsReal
  <2> QED
    BY <1>9, <2>1, <2>2, <2>3, BookkeepingFrames
    DEF FinishRecovery
<1> QED
  BY <1>1, <1>2, <1>3, <1>4, <1>5, <1>6, <1>7, <1>8, <1>9 DEF StepBackward


\* A new, resumed, lost or reopened process finds the log in order.
LEMMA BookkeepingSessions == TypeOK /\ Bookkeeping /\ (RunWorkflow \/ ResumeWorkflow \/ Crash \/ Reopen) => Bookkeeping'
<1> SUFFICES ASSUME TypeOK, Bookkeeping, (RunWorkflow \/ ResumeWorkflow \/ Crash \/ Reopen) PROVE Bookkeeping'
  OBVIOUS
<1> USE DEF Bookkeeping, ForwardPlaces, RecoveryPlaces, durable, world, progress, completed, unwinding
<1>1. CASE RunWorkflow
  <2>1. RowsInOrder'
    BY <1>1, Numbers, PlanAssumption
    DEF RunWorkflow, NewSession, RowsInOrder, Steps, Sessions
  <2>2. AttemptTracked'
    BY <1>1
    DEF RunWorkflow, NewSession, AttemptTracked, Attempting
  <2>3. SuccessIsReal'
    BY <1>1
    DEF RunWorkflow, NewSession, SuccessIsReal
  <2> QED
    BY <1>1, <2>1, <2>2, <2>3, BookkeepingFrames
    DEF RunWorkflow, NewSession
<1>2. CASE ResumeWorkflow
  <2>1. RowsInOrder'
    BY <1>2, Numbers, PlanAssumption
    DEF ResumeWorkflow, NewSession, RowsInOrder, Steps, Sessions
  <2>2. AttemptTracked'
    BY <1>2
    DEF ResumeWorkflow, NewSession, AttemptTracked, Attempting
  <2>3. SuccessIsReal'
    BY <1>2
    DEF ResumeWorkflow, NewSession, SuccessIsReal
  <2> QED
    BY <1>2, <2>1, <2>2, <2>3, BookkeepingFrames
    DEF ResumeWorkflow, NewSession
<1>3. CASE Crash
  <2>1. RowsInOrder'
    BY <1>3
    DEF Crash, LoseProcess, RowsInOrder
  <2>2. AttemptTracked'
    BY <1>3
    DEF Crash, LoseProcess, AttemptTracked, Attempting
  <2>3. SuccessIsReal'
    BY <1>3
    DEF Crash, LoseProcess, SuccessIsReal
  <2> QED
    BY <1>3, <2>1, <2>2, <2>3, BookkeepingFrames
    DEF Crash, LoseProcess
<1>4. CASE Reopen
  <2>1. RowsInOrder'
    BY <1>4
    DEF Reopen, LoseProcess, RowsInOrder
  <2>2. AttemptTracked'
    BY <1>4
    DEF Reopen, LoseProcess, AttemptTracked, Attempting
  <2>3. SuccessIsReal'
    BY <1>4
    DEF Reopen, LoseProcess, SuccessIsReal
  <2> QED
    BY <1>4, <2>1, <2>2, <2>3, BookkeepingFrames
    DEF Reopen, LoseProcess
<1> QED
  BY <1>1, <1>2, <1>3, <1>4


\* Reconciliation and late requests keep the log ahead of the world.
LEMMA BookkeepingWorld == TypeOK /\ Bookkeeping /\ (Reconcile \/ Land) => Bookkeeping'
<1> SUFFICES ASSUME TypeOK, Bookkeeping, (Reconcile \/ Land) PROVE Bookkeeping'
  OBVIOUS
<1> USE DEF Bookkeeping, ForwardPlaces, RecoveryPlaces, durable, world, progress, completed, unwinding
<1>1. ASSUME NEW s \in Steps, NEW k \in Sessions, ReconcileRow(s, k)
      PROVE  Bookkeeping'
  <2>1. /\ wal[s][k] \in Pending
        /\ wal'[s][k] \in {"ESCALATED", "COMMITTED", "FAILED"}
        /\ wal'[s][k] = "COMMITTED" => <<s, k>> \in eff
        /\ OtherRowsStay(s, k)
    BY <1>1, SetRowIs
    DEF ReconcileRow, TypeOK, PendingRows, Answers, Pending
  <2>2. RowsPersist
    BY <1>1, <2>1
    DEF ReconcileRow, RowsPersist, OtherRowsStay, Pending
  <2>3. LateIsTracked' /\ WriteAhead'
    BY <1>1, <2>2, Persistence
    DEF ReconcileRow
  <2>4. RowsInOrder'
    BY <1>1, <2>1, Numbers
    DEF ReconcileRow, RowsInOrder, OtherRowsStay, Pending
  <2>5. AttemptTracked'
    BY <1>1, <2>1
    DEF ReconcileRow, AttemptTracked, Attempting, OtherRowsStay, Pending
  <2>6. SuccessIsReal'
    BY <1>1, <2>1
    DEF ReconcileRow, SuccessIsReal, Pending
  <2>7. CommittedIsReal'
    BY <1>1, <2>1
    DEF ReconcileRow, CommittedIsReal, OtherRowsStay, Pending
  <2> QED
    BY <1>1, <2>3, <2>4, <2>5, <2>6, <2>7, BookkeepingFrames
    DEF ReconcileRow
<1>2. ASSUME NEW s \in Steps, NEW k \in Sessions, ReconcileUndoRow(s, k)
      PROVE  Bookkeeping'
  <2>1. /\ cwal[s][k] \in Pending
        /\ cwal'[s][k] \in {"COMMITTED", "FAILED"}
        /\ OtherUndoRowsStay(s, k)
    BY <1>2, SetUndoRowIs
    DEF ReconcileUndoRow, TypeOK, PendingUndoRows, Pending
  <2>2. RowsPersist
    BY <1>2, <2>1
    DEF ReconcileUndoRow, RowsPersist, OtherUndoRowsStay, Pending
  <2>3. LateIsTracked' /\ WriteAhead'
    BY <1>2, <2>2, Persistence
    DEF ReconcileUndoRow
  <2>4. RowsInOrder'
    BY <1>2, <2>1, Numbers
    DEF ReconcileUndoRow, RowsInOrder, OtherUndoRowsStay, Pending
  <2>5. AttemptTracked'
    BY <1>2, <2>1
    DEF ReconcileUndoRow, AttemptTracked, Attempting, OtherUndoRowsStay, Pending
  <2>6. SuccessIsReal'
    BY <1>2, <2>1
    DEF ReconcileUndoRow, SuccessIsReal, Pending
  <2>7. CommittedIsReal'
    BY <1>2, <2>1
    DEF ReconcileUndoRow, CommittedIsReal, OtherUndoRowsStay, Pending
  <2> QED
    BY <1>2, <2>3, <2>4, <2>5, <2>6, <2>7, BookkeepingFrames
    DEF ReconcileUndoRow
<1>3. ASSUME NEW s \in Steps, NEW k \in Sessions, LandEffect(s, k)
      PROVE  Bookkeeping'
  <2>1. RowsInOrder'
    BY <1>3
    DEF LandEffect, RowsInOrder
  <2>2. AttemptTracked'
    BY <1>3
    DEF LandEffect, AttemptTracked, Attempting
  <2>3. LateIsTracked'
    BY <1>3
    DEF LandEffect, LateIsTracked
  <2>4. SuccessIsReal'
    BY <1>3
    DEF LandEffect, SuccessIsReal
  <2>5. WriteAhead'
    BY <1>3
    DEF LandEffect, WriteAhead, LateIsTracked
  <2>6. CommittedIsReal'
    BY <1>3
    DEF LandEffect, CommittedIsReal
  <2> QED
    BY <1>3, <2>1, <2>2, <2>3, <2>4, <2>5, <2>6, BookkeepingFrames
    DEF LandEffect
<1>4. ASSUME NEW s \in Steps, NEW j \in Sessions, NEW k \in Sessions, LandUndo(s, j, k)
      PROVE  Bookkeeping'
  <2>1. RowsInOrder'
    BY <1>4
    DEF LandUndo, RowsInOrder
  <2>2. AttemptTracked'
    BY <1>4
    DEF LandUndo, AttemptTracked, Attempting
  <2>3. LateIsTracked'
    BY <1>4
    DEF LandUndo, LateIsTracked
  <2>4. SuccessIsReal'
    BY <1>4
    DEF LandUndo, SuccessIsReal
  <2>5. WriteAhead'
    BY <1>4
    DEF LandUndo, WriteAhead, LateIsTracked
  <2>6. CommittedIsReal'
    BY <1>4
    DEF LandUndo, CommittedIsReal
  <2> QED
    BY <1>4, <2>1, <2>2, <2>3, <2>4, <2>5, <2>6, BookkeepingFrames
    DEF LandUndo
<1> QED
  BY <1>1, <1>2, <1>3, <1>4 DEF Reconcile, Land

\* The empty log is in order.
LEMMA BookkeepingInit == Init => Bookkeeping
BY PlanAssumption DEF Init, Bookkeeping, RowsInOrder, AttemptTracked, Attempting, LateIsTracked,
   SuccessIsReal, WriteAhead, CommittedIsReal, ForwardPlaces

\* Bookkeeping is inductive.
LEMMA BookkeepingStep == TypeOK /\ Bookkeeping /\ [Next]_vars => Bookkeeping'
<1> SUFFICES ASSUME TypeOK, Bookkeeping, [Next]_vars PROVE Bookkeeping'
  OBVIOUS
<1>1. CASE RunWorkflow \/ ResumeWorkflow \/ Crash \/ Reopen
  BY <1>1, BookkeepingSessions
<1>2. CASE CoordinatorStep
  BY <1>2, BookkeepingForward, BookkeepingBackward DEF CoordinatorStep
<1>3. CASE Reconcile \/ Land
  BY <1>3, BookkeepingWorld
<1>4. CASE UNCHANGED vars
  <2>1. RowsInOrder' /\ AttemptTracked' /\ SuccessIsReal'
    BY <1>4
    DEF vars, durable, world, progress, completed, unwinding, Bookkeeping, RowsInOrder,
        AttemptTracked, SuccessIsReal
  <2> QED
    BY <1>4, <2>1, BookkeepingFrames DEF vars, durable, world, Bookkeeping
<1> QED
  BY <1>1, <1>2, <1>3, <1>4 DEF Next

\* THEOREM: rows come before acts and in order, the row of a running attempt exists
\* and is not final, and what passed verification happened.
THEOREM BookkeepingInvariant == Spec => []Bookkeeping
<1> QED
  BY TypeCorrect, BookkeepingInit, BookkeepingStep, PTL DEF Spec

\* THEOREM: no tool ever acts, or undoes, for an intent the log does not hold.
THEOREM WriteAheadCorrect == Spec => []WriteAhead
<1>1. Bookkeeping => WriteAhead
  BY DEF Bookkeeping
<1> QED
  BY BookkeepingInvariant, <1>1, PTL

\* THEOREM: a row is COMMITTED only if its tool acted.
THEOREM CommittedIsRealCorrect == Spec => []CommittedIsReal
<1>1. Bookkeeping => CommittedIsReal
  BY DEF Bookkeeping
<1> QED
  BY BookkeepingInvariant, <1>1, PTL

------------------------------------------------------------------------------
(* Ownership *)

\* What a step that leaves the forward rows and effects alone keeps.
LEMMA OwnershipFrames ==
  /\ EffectsHaveRows /\ UNCHANGED <<wal, eff, inflight>> => EffectsHaveRows'
  /\ CommittedIsLast /\ UNCHANGED wal => CommittedIsLast'
  /\ NoDuplicateEffect /\ UNCHANGED eff => NoDuplicateEffect'
BY DEF EffectsHaveRows, CommittedIsLast, NoDuplicateEffect

\* Truthful tools act or do not, and own up to it.
LEMMA TruthfulOutcomes ==
  ASSUME Truthful
  PROVE  \A o \in Outcomes : /\ o.acts \in {"yes", "no"}
                             /\ o.acts = "yes" => o.sees \in {"ok", "unknown"}
BY DEF Truthful, Outcomes

\* A truthful query finds an effect exactly when it took place.
LEMMA TruthfulAnswers ==
  ASSUME Truthful
  PROVE  \A happened \in BOOLEAN : Answers(happened) = {IF happened THEN "found" ELSE "absent"}
BY DEF Truthful, Answers

\* Every outcome of a call leads to verification, reconciliation or failure.
LEMMA OutcomeClassified ==
  \A o \in Outcomes : Classified(o.sees) \in {"verify", "unknown", "failed"}
BY DEF Outcomes, Classified

\* Skipped steps are steps of the plan.
LEMMA SkipTyped == TypeOK => skip \subseteq Steps
BY DEF TypeOK, ProgressTyped

\* A truthful query is never undetermined.
LEMMA NeverUndetermined ==
  ASSUME Truthful
  PROVE  \A s, k : "undetermined" \notin Answers(<<s, k>> \in eff)
BY DEF Truthful, Answers

\* What PendingRows collects, row by row.
LEMMA PendingRowsAre ==
  \A s \in Steps, k \in Sessions : wal[s][k] \in Pending <=> <<s, k>> \in PendingRows
BY DEF PendingRows

\* If the pivot acted, the plan has one.
LEMMA PivotTyped ==
  ASSUME TypeOK
  PROVE  \A k : <<Pivot, k>> \in eff => Pivot \in Steps /\ k \in Sessions
BY DEF TypeOK, WorldTyped

\* Every step of the forward loop leaves each effect with its one owner.
LEMMA OwnershipForward ==
  ASSUME Truthful, ResumedOnly
  PROVE  TypeOK /\ Bookkeeping /\ Ownership /\ StepForward => Ownership'
<1> SUFFICES ASSUME TypeOK, Bookkeeping, Ownership, StepForward
             PROVE  Ownership'
  OBVIOUS
<1> USE DEF Bookkeeping, Ownership, ForwardPlaces, RecoveryPlaces, durable, world, progress, completed, unwinding
<1>1. CASE SkipCommitted
  <2>1. OnePending'
    BY <1>1
    DEF SkipCommitted, OnePending, Attempting, Pending
  <2>2. CommittedSkipped'
    BY <1>1
    DEF SkipCommitted, CommittedSkipped
  <2>3. NotYetActed'
    BY <1>1
    DEF SkipCommitted, NotYetActed
  <2>4. PivotKnown'
    BY <1>1
    DEF SkipCommitted, PivotKnown
  <2> QED
    BY <1>1, <2>1, <2>2, <2>3, <2>4, OwnershipFrames
    DEF SkipCommitted
<1>2. CASE DeadlinePasses
  <2>1. OnePending'
    BY <1>2
    DEF DeadlinePasses, OnePending, Attempting, Pending
  <2>2. CommittedSkipped'
    BY <1>2
    DEF DeadlinePasses, CommittedSkipped
  <2>3. NotYetActed'
    BY <1>2
    DEF DeadlinePasses, NotYetActed
  <2>4. PivotKnown'
    BY <1>2
    DEF DeadlinePasses, PivotKnown
  <2> QED
    BY <1>2, <2>1, <2>2, <2>3, <2>4, OwnershipFrames
    DEF DeadlinePasses
<1>3. CASE Complete
  <2>1. OnePending'
    BY <1>3
    DEF Complete, OnePending, Attempting, Pending
  <2>2. CommittedSkipped'
    BY <1>3
    DEF Complete, CommittedSkipped
  <2>3. NotYetActed'
    BY <1>3
    DEF Complete, NotYetActed
  <2>4. PivotKnown'
    BY <1>3
    DEF Complete, PivotKnown
  <2> QED
    BY <1>3, <2>1, <2>2, <2>3, <2>4, OwnershipFrames
    DEF Complete
<1>4. CASE \E d \in {"granted", "denied"} : ResolveApproval(d)
  <2>1. OnePending'
    BY <1>4
    DEF ResolveApproval, OnePending, Attempting, Pending, Granted
  <2>2. CommittedSkipped'
    BY <1>4
    DEF ResolveApproval, CommittedSkipped, Granted
  <2>3. NotYetActed'
    BY <1>4
    DEF ResolveApproval, NotYetActed, Granted
  <2>4. PivotKnown'
    BY <1>4
    DEF ResolveApproval, PivotKnown, Granted
  <2> QED
    BY <1>4, <2>1, <2>2, <2>3, <2>4, OwnershipFrames
    DEF ResolveApproval
<1>5. CASE NoApprovalNeeded
  <2>1. OnePending'
    BY <1>5
    DEF NoApprovalNeeded, OnePending, Attempting, Pending
  <2>2. CommittedSkipped'
    BY <1>5
    DEF NoApprovalNeeded, CommittedSkipped
  <2>3. NotYetActed'
    BY <1>5
    DEF NoApprovalNeeded, NotYetActed
  <2>4. PivotKnown'
    BY <1>5
    DEF NoApprovalNeeded, PivotKnown
  <2> QED
    BY <1>5, <2>1, <2>2, <2>3, <2>4, OwnershipFrames
    DEF NoApprovalNeeded
<1>6. CASE ReuseResult
  <2>1. OnePending'
    BY <1>6
    DEF ReuseResult, MarkCompleted, OnePending, Attempting, Pending
  <2>2. CommittedSkipped'
    BY <1>6
    DEF ReuseResult, MarkCompleted, CommittedSkipped
  <2>3. NotYetActed'
    BY <1>6
    DEF ReuseResult, MarkCompleted, NotYetActed
  <2>4. PivotKnown'
    BY <1>6
    DEF ReuseResult, MarkCompleted, PivotKnown
  <2> QED
    BY <1>6, <2>1, <2>2, <2>3, <2>4, OwnershipFrames
    DEF ReuseResult, MarkCompleted
<1>7. CASE ClaimKey
  <2>1. cur \in Steps /\ session \in Sessions
    BY <1>7, AtStep
    DEF ClaimKey
  <2>2. OnePending'
    BY <1>7, <2>1
    DEF ClaimKey, OnePending, Attempting, Pending
  <2>3. CommittedSkipped'
    BY <1>7, <2>1
    DEF ClaimKey, CommittedSkipped
  <2>4. NotYetActed'
    BY <1>7, <2>1
    DEF ClaimKey, NotYetActed, RowsInOrder, EffectsHaveRows
  <2>5. PivotKnown'
    BY <1>7, <2>1
    DEF ClaimKey, PivotKnown
  <2> QED
    BY <1>7, <2>2, <2>3, <2>4, <2>5, OwnershipFrames
    DEF ClaimKey
<1>8. CASE Admit
  <2>1. cur \in Steps /\ session \in Sessions
    BY <1>8, AtStep
    DEF Admit
  <2>2. cur \notin skip /\ <<cur, session>> \notin eff
    BY <1>8, <2>1
    DEF Admit, CommittedSkipped, NotYetActed
  <2>3. /\ wal'[cur][session] \in {"PENDING", wal[cur][session]}
        /\ OtherRowsStay(cur, session)
    BY <1>8, AtStep, WriteIntentIs, <2>1, <2>2
    DEF Admit, WriteAtFirst, TypeOK, OtherRowsStay
  <2>4. EffectsHaveRows'
    BY <1>8, <2>1, <2>2, <2>3
    DEF Admit, EffectsHaveRows, OtherRowsStay
  <2>5. OnePending'
    BY <1>8, <2>1, <2>2, <2>3
    DEF Admit, OnePending, Attempting, Pending, OtherRowsStay
  <2>6. CommittedSkipped'
    BY <1>8, <2>1, <2>2, <2>3, Numbers, SkipTyped
    DEF Admit, CommittedSkipped, OtherRowsStay
  <2>7. CommittedIsLast'
    BY <1>8, <2>1, <2>2, <2>3, Numbers
    DEF Admit, CommittedIsLast, OtherRowsStay, CommittedSkipped, RowsInOrder,
        AttemptTracked
  <2>8. NotYetActed'
    BY <1>8, <2>1, <2>2, <2>3
    DEF Admit, NotYetActed
  <2>9. PivotKnown'
    BY <1>8, <2>1, <2>2, <2>3
    DEF Admit, PivotKnown
  <2> QED
    BY <1>8, <2>4, <2>5, <2>6, <2>7, <2>8, <2>9, OwnershipFrames
    DEF Admit
<1>9. CASE FailFast
  <2>1. cur \in Steps /\ session \in Sessions
    BY <1>9, AtStep
    DEF FailFast
  <2>2. cur \notin skip /\ <<cur, session>> \notin eff
    BY <1>9, <2>1
    DEF FailFast, CommittedSkipped, NotYetActed
  <2>3. /\ wal'[cur][session] = "FAILED"
        /\ OtherRowsStay(cur, session)
    BY <1>9, AtStep, <2>1, <2>2
    DEF FailFast, TypeOK, LogTyped, OtherRowsStay
  <2>4. EffectsHaveRows'
    BY <1>9, <2>1, <2>2, <2>3
    DEF FailFast, EffectsHaveRows, OtherRowsStay
  <2>5. OnePending'
    BY <1>9, <2>1, <2>2, <2>3
    DEF FailFast, OnePending, Attempting, Pending, OtherRowsStay
  <2>6. CommittedSkipped'
    BY <1>9, <2>1, <2>2, <2>3, Numbers, SkipTyped
    DEF FailFast, CommittedSkipped, OtherRowsStay
  <2>7. CommittedIsLast'
    BY <1>9, <2>1, <2>2, <2>3, Numbers
    DEF FailFast, CommittedIsLast, OtherRowsStay, CommittedSkipped, RowsInOrder
  <2>8. NotYetActed'
    BY <1>9, <2>1, <2>2, <2>3
    DEF FailFast, NotYetActed
  <2>9. PivotKnown'
    BY <1>9, <2>1, <2>2, <2>3
    DEF FailFast, PivotKnown
  <2> QED
    BY <1>9, <2>4, <2>5, <2>6, <2>7, <2>8, <2>9, OwnershipFrames
    DEF FailFast
<1>10. CASE MarkRunning
  <2>1. cur \in Steps /\ session \in Sessions
    BY <1>10, AtStep
    DEF MarkRunning
  <2>2. cur \notin skip
    BY <1>10, <2>1
    DEF MarkRunning, CommittedSkipped
  <2>3. wal'[cur][session] = "RUNNING" /\ OtherRowsStay(cur, session)
    BY <1>10, AtStep, SetRowIs, <2>1, <2>2
    DEF MarkRunning, TypeOK, AttemptTracked, Attempting
  <2>4. EffectsHaveRows'
    BY <1>10, <2>1, <2>2, <2>3
    DEF MarkRunning, EffectsHaveRows, OtherRowsStay, NotYetActed
  <2>5. OnePending'
    BY <1>10, <2>1, <2>2, <2>3
    DEF MarkRunning, OnePending, Attempting, Pending, OtherRowsStay
  <2>6. CommittedSkipped'
    BY <1>10, <2>1, <2>2, <2>3, Numbers, SkipTyped
    DEF MarkRunning, CommittedSkipped, OtherRowsStay
  <2>7. CommittedIsLast'
    BY <1>10, <2>1, <2>2, <2>3, Numbers
    DEF MarkRunning, CommittedIsLast, OtherRowsStay, CommittedSkipped, RowsInOrder
  <2>8. NotYetActed'
    BY <1>10, <2>1, <2>2, <2>3
    DEF MarkRunning, NotYetActed
  <2>9. PivotKnown'
    BY <1>10, <2>1, <2>2, <2>3
    DEF MarkRunning, PivotKnown
  <2> QED
    BY <1>10, <2>4, <2>5, <2>6, <2>7, <2>8, <2>9, OwnershipFrames
    DEF MarkRunning
<1>11. CASE MissingAdapter
  <2>1. cur \in Steps /\ session \in Sessions
    BY <1>11, AtStep
    DEF MissingAdapter
  <2>2. cur \notin skip
    BY <1>11, <2>1
    DEF MissingAdapter, CommittedSkipped
  <2>3. wal'[cur][session] = "FAILED" /\ OtherRowsStay(cur, session)
    BY <1>11, AtStep, SetRowIs, <2>1, <2>2
    DEF MissingAdapter, TypeOK, AttemptTracked, Attempting
  <2>4. EffectsHaveRows'
    BY <1>11, <2>1, <2>2, <2>3
    DEF MissingAdapter, EffectsHaveRows, OtherRowsStay, NotYetActed
  <2>5. OnePending'
    BY <1>11, <2>1, <2>2, <2>3
    DEF MissingAdapter, OnePending, Attempting, Pending, OtherRowsStay
  <2>6. CommittedSkipped'
    BY <1>11, <2>1, <2>2, <2>3, Numbers, SkipTyped
    DEF MissingAdapter, CommittedSkipped, OtherRowsStay
  <2>7. CommittedIsLast'
    BY <1>11, <2>1, <2>2, <2>3, Numbers
    DEF MissingAdapter, CommittedIsLast, OtherRowsStay, CommittedSkipped, RowsInOrder
  <2>8. NotYetActed'
    BY <1>11, <2>1, <2>2, <2>3
    DEF MissingAdapter, NotYetActed
  <2>9. PivotKnown'
    BY <1>11, <2>1, <2>2, <2>3
    DEF MissingAdapter, PivotKnown
  <2> QED
    BY <1>11, <2>4, <2>5, <2>6, <2>7, <2>8, <2>9, OwnershipFrames
    DEF MissingAdapter
<1>12. ASSUME NEW o \in Outcomes, Execute(o)
       PROVE  Ownership'
  <2>1. cur \in Steps /\ session \in Sessions
    BY <1>12, AtStep
    DEF Execute
  <2>2. cur \notin skip
    BY <1>12, <2>1
    DEF Execute, CommittedSkipped
  <2>3. \A k \in Sessions : <<cur, k>> \notin eff
    BY <1>12, Numbers, <2>1, <2>2
    DEF Execute, NotYetActed, EffectsHaveRows, OnePending, CommittedSkipped,
        RowsInOrder, Pending
  <2>4. /\ o.acts \in {"yes", "no"}
        /\ o.acts = "yes" => o.sees \in {"ok", "unknown"}
    BY <1>12, TruthfulOutcomes, <2>1, <2>2, <2>3
    DEF Execute
  <2>5. pc' \in {"verify", "unknown", "failed"}
    BY <1>12, OutcomeClassified, <2>1, <2>2, <2>3, <2>4
    DEF Execute, Classified
  <2>6. wal[cur][session] = "RUNNING"
    BY <1>12, <2>1, <2>2, <2>3, <2>4, <2>5
    DEF Execute, OnePending
  <2>7. EffectsHaveRows'
    BY <1>12, <2>1, <2>2, <2>3, <2>4, <2>5, <2>6
    DEF Execute, EffectsHaveRows
  <2>8. OnePending'
    BY <1>12, <2>1, <2>2, <2>3, <2>4, <2>5, <2>6
    DEF Execute, OnePending, Attempting, Pending
  <2>9. CommittedSkipped'
    BY <1>12, <2>1, <2>2, <2>3, <2>4, <2>5, <2>6
    DEF Execute, CommittedSkipped
  <2>10. NotYetActed'
    BY <1>12, <2>1, <2>2, <2>3, <2>4, <2>5, <2>6
    DEF Execute, NotYetActed, Classified
  <2>11. PivotKnown'
    BY <1>12, <2>1, <2>2, <2>3, <2>4, <2>5, <2>6
    DEF Execute, PivotKnown, Classified
  <2>12. NoDuplicateEffect'
    BY <1>12, <2>1, <2>2, <2>3, <2>4, <2>5, <2>6
    DEF Execute, NoDuplicateEffect
  <2> QED
    BY <1>12, <2>7, <2>8, <2>9, <2>10, <2>11, <2>12, OwnershipFrames
    DEF Execute
<1>13. CASE PostconditionPasses
  <2>1. cur \in Steps /\ session \in Sessions
    BY <1>13, AtStep
    DEF PostconditionPasses
  <2>2. cur \notin skip
    BY <1>13, <2>1
    DEF PostconditionPasses, CommittedSkipped
  <2>3. wal'[cur][session] = "COMMITTED" /\ OtherRowsStay(cur, session)
    BY <1>13, AtStep, SetRowIs, <2>1, <2>2
    DEF PostconditionPasses, TypeOK, AttemptTracked, Attempting
  <2>4. EffectsHaveRows'
    BY <1>13, <2>1, <2>2, <2>3
    DEF PostconditionPasses, EffectsHaveRows, OtherRowsStay, NotYetActed
  <2>5. OnePending'
    BY <1>13, <2>1, <2>2, <2>3
    DEF PostconditionPasses, OnePending, Attempting, Pending, OtherRowsStay
  <2>6. CommittedSkipped'
    BY <1>13, <2>1, <2>2, <2>3, Numbers, SkipTyped
    DEF PostconditionPasses, CommittedSkipped, OtherRowsStay
  <2>7. CommittedIsLast'
    BY <1>13, <2>1, <2>2, <2>3, Numbers
    DEF PostconditionPasses, CommittedIsLast, OtherRowsStay, CommittedSkipped,
        RowsInOrder
  <2>8. NotYetActed'
    BY <1>13, <2>1, <2>2, <2>3
    DEF PostconditionPasses, NotYetActed
  <2>9. PivotKnown'
    BY <1>13, <2>1, <2>2, <2>3
    DEF PostconditionPasses, PivotKnown
  <2> QED
    BY <1>13, <2>4, <2>5, <2>6, <2>7, <2>8, <2>9, OwnershipFrames
    DEF PostconditionPasses
<1>14. CASE PostconditionFails
  <2>1. OnePending'
    BY <1>14
    DEF PostconditionFails, OnePending, Attempting, Pending
  <2>2. CommittedSkipped'
    BY <1>14
    DEF PostconditionFails, CommittedSkipped
  <2>3. NotYetActed'
    BY <1>14
    DEF PostconditionFails, NotYetActed, Verified
  <2>4. PivotKnown'
    BY <1>14
    DEF PostconditionFails, PivotKnown
  <2> QED
    BY <1>14, <2>1, <2>2, <2>3, <2>4, OwnershipFrames
    DEF PostconditionFails
<1>15. CASE RecordSuccess
  <2>1. OnePending'
    BY <1>15
    DEF RecordSuccess, MarkCompleted, OnePending, Attempting, Pending
  <2>2. CommittedSkipped'
    BY <1>15
    DEF RecordSuccess, MarkCompleted, CommittedSkipped
  <2>3. NotYetActed'
    BY <1>15
    DEF RecordSuccess, MarkCompleted, NotYetActed
  <2>4. PivotKnown'
    BY <1>15
    DEF RecordSuccess, MarkCompleted, PivotKnown
  <2> QED
    BY <1>15, <2>1, <2>2, <2>3, <2>4, OwnershipFrames
    DEF RecordSuccess, MarkCompleted
<1>16. CASE MarkUnknown
  <2>1. cur \in Steps /\ session \in Sessions
    BY <1>16, AtStep
    DEF MarkUnknown
  <2>2. cur \notin skip
    BY <1>16, <2>1
    DEF MarkUnknown, CommittedSkipped
  <2>3. wal'[cur][session] = "UNKNOWN" /\ OtherRowsStay(cur, session)
    BY <1>16, AtStep, SetRowIs, <2>1, <2>2
    DEF MarkUnknown, TypeOK, AttemptTracked, Attempting
  <2>4. EffectsHaveRows'
    BY <1>16, <2>1, <2>2, <2>3
    DEF MarkUnknown, EffectsHaveRows, OtherRowsStay, NotYetActed
  <2>5. OnePending'
    BY <1>16, <2>1, <2>2, <2>3
    DEF MarkUnknown, OnePending, Attempting, Pending, OtherRowsStay
  <2>6. CommittedSkipped'
    BY <1>16, <2>1, <2>2, <2>3, Numbers, SkipTyped
    DEF MarkUnknown, CommittedSkipped, OtherRowsStay
  <2>7. CommittedIsLast'
    BY <1>16, <2>1, <2>2, <2>3, Numbers
    DEF MarkUnknown, CommittedIsLast, OtherRowsStay, CommittedSkipped, RowsInOrder
  <2>8. NotYetActed'
    BY <1>16, <2>1, <2>2, <2>3
    DEF MarkUnknown, NotYetActed
  <2>9. PivotKnown'
    BY <1>16, <2>1, <2>2, <2>3
    DEF MarkUnknown, PivotKnown
  <2> QED
    BY <1>16, <2>4, <2>5, <2>6, <2>7, <2>8, <2>9, OwnershipFrames
    DEF MarkUnknown
<1>17. CASE QueryFinds
  <2>1. cur \in Steps /\ session \in Sessions
    BY <1>17, AtStep
    DEF QueryFinds
  <2>2. cur \notin skip
    BY <1>17, <2>1
    DEF QueryFinds, CommittedSkipped
  <2>3. wal'[cur][session] = "COMMITTED" /\ OtherRowsStay(cur, session)
    BY <1>17, AtStep, SetRowIs, <2>1, <2>2
    DEF QueryFinds, TypeOK, AttemptTracked, Attempting
  <2>4. EffectsHaveRows'
    BY <1>17, <2>1, <2>2, <2>3
    DEF QueryFinds, EffectsHaveRows, OtherRowsStay, NotYetActed
  <2>5. OnePending'
    BY <1>17, <2>1, <2>2, <2>3
    DEF QueryFinds, OnePending, Attempting, Pending, OtherRowsStay
  <2>6. CommittedSkipped'
    BY <1>17, <2>1, <2>2, <2>3, Numbers, SkipTyped
    DEF QueryFinds, CommittedSkipped, OtherRowsStay
  <2>7. CommittedIsLast'
    BY <1>17, <2>1, <2>2, <2>3, Numbers
    DEF QueryFinds, CommittedIsLast, OtherRowsStay, CommittedSkipped, RowsInOrder
  <2>8. NotYetActed'
    BY <1>17, <2>1, <2>2, <2>3
    DEF QueryFinds, NotYetActed
  <2>9. PivotKnown'
    BY <1>17, <2>1, <2>2, <2>3
    DEF QueryFinds, PivotKnown
  <2> QED
    BY <1>17, <2>4, <2>5, <2>6, <2>7, <2>8, <2>9, OwnershipFrames
    DEF QueryFinds
<1>18. CASE QueryFindsNothing
  <2>1. cur \in Steps /\ session \in Sessions
    BY <1>18, AtStep
    DEF QueryFindsNothing
  <2>2. cur \notin skip
    BY <1>18, <2>1
    DEF QueryFindsNothing, CommittedSkipped
  <2>3. <<cur, session>> \notin eff
    BY <1>18, TruthfulAnswers, <2>1, <2>2
    DEF QueryFindsNothing
  <2>4. wal'[cur][session] = "FAILED" /\ OtherRowsStay(cur, session)
    BY <1>18, AtStep, SetRowIs, <2>1, <2>2, <2>3
    DEF QueryFindsNothing, TypeOK, AttemptTracked, Attempting
  <2>5. EffectsHaveRows'
    BY <1>18, <2>1, <2>2, <2>3, <2>4
    DEF QueryFindsNothing, EffectsHaveRows, OtherRowsStay, NotYetActed
  <2>6. OnePending'
    BY <1>18, <2>1, <2>2, <2>3, <2>4
    DEF QueryFindsNothing, OnePending, Attempting, Pending, OtherRowsStay
  <2>7. CommittedSkipped'
    BY <1>18, <2>1, <2>2, <2>3, <2>4, Numbers, SkipTyped
    DEF QueryFindsNothing, CommittedSkipped, OtherRowsStay
  <2>8. CommittedIsLast'
    BY <1>18, <2>1, <2>2, <2>3, <2>4, Numbers
    DEF QueryFindsNothing, CommittedIsLast, OtherRowsStay, CommittedSkipped,
        RowsInOrder
  <2>9. NotYetActed'
    BY <1>18, <2>1, <2>2, <2>3, <2>4
    DEF QueryFindsNothing, NotYetActed
  <2>10. PivotKnown'
    BY <1>18, <2>1, <2>2, <2>3, <2>4
    DEF QueryFindsNothing, PivotKnown
  <2> QED
    BY <1>18, <2>5, <2>6, <2>7, <2>8, <2>9, <2>10, OwnershipFrames
    DEF QueryFindsNothing
<1>19. CASE QueryUndetermined
  <2>1. FALSE
    BY <1>19, NeverUndetermined
    DEF QueryUndetermined
  <2> QED
    BY <1>19, <2>1
    DEF QueryUndetermined
<1>20. CASE Retry \/ GiveUpForward \/ GiveUpUnwinding
  <2>1. cur \in Steps /\ session \in Sessions
    BY <1>20, AtStep
    DEF Retry, GiveUpForward, GiveUpUnwinding, HandleFailure
  <2>2. cur \notin skip
    BY <1>20, <2>1
    DEF Retry, GiveUpForward, GiveUpUnwinding, HandleFailure, CommittedSkipped
  <2>3. <<cur, session>> \notin eff
    BY <1>20, <2>1, <2>2
    DEF Retry, GiveUpForward, GiveUpUnwinding, HandleFailure, NotYetActed
  <2>4. /\ wal'[cur][session] \in {"FAILED", wal[cur][session]}
        /\ wal'[cur][session] \notin Pending
        /\ OtherRowsStay(cur, session)
    BY <1>20, AtStep, SetRowIs, <2>1, <2>2, <2>3
    DEF Retry, GiveUpForward, GiveUpUnwinding, HandleFailure, TypeOK, AttemptTracked,
        Attempting, OtherRowsStay, OnePending, Pending
  <2>5. EffectsHaveRows'
    BY <1>20, <2>1, <2>2, <2>3, <2>4
    DEF Retry, GiveUpForward, GiveUpUnwinding, HandleFailure, EffectsHaveRows,
        OtherRowsStay
  <2>6. OnePending'
    BY <1>20, <2>1, <2>2, <2>3, <2>4
    DEF Retry, GiveUpForward, GiveUpUnwinding, HandleFailure, OnePending, Attempting,
        Pending, OtherRowsStay
  <2>7. CommittedSkipped'
    BY <1>20, <2>1, <2>2, <2>3, <2>4, Numbers, SkipTyped
    DEF Retry, GiveUpForward, GiveUpUnwinding, HandleFailure, CommittedSkipped,
        OtherRowsStay
  <2>8. CommittedIsLast'
    BY <1>20, <2>1, <2>2, <2>3, <2>4, Numbers
    DEF Retry, GiveUpForward, GiveUpUnwinding, HandleFailure, CommittedIsLast,
        OtherRowsStay, CommittedSkipped, RowsInOrder
  <2>9. NotYetActed'
    BY <1>20, <2>1, <2>2, <2>3, <2>4
    DEF Retry, GiveUpForward, GiveUpUnwinding, HandleFailure, NotYetActed
  <2>10. PivotKnown'
    BY <1>20, <2>1, <2>2, <2>3, <2>4
    DEF Retry, GiveUpForward, GiveUpUnwinding, HandleFailure, PivotKnown
  <2> QED
    BY <1>20, <2>5, <2>6, <2>7, <2>8, <2>9, <2>10, OwnershipFrames
    DEF Retry, GiveUpForward, GiveUpUnwinding, HandleFailure
<1>21. CASE EscalateForward
  <2>1. OnePending'
    BY <1>21
    DEF EscalateForward, OnePending, Attempting, Pending
  <2>2. CommittedSkipped'
    BY <1>21
    DEF EscalateForward, CommittedSkipped
  <2>3. NotYetActed'
    BY <1>21
    DEF EscalateForward, NotYetActed
  <2>4. PivotKnown'
    BY <1>21
    DEF EscalateForward, PivotKnown
  <2> QED
    BY <1>21, <2>1, <2>2, <2>3, <2>4, OwnershipFrames
    DEF EscalateForward
<1> QED
  BY <1>1, <1>2, <1>3, <1>4, <1>5, <1>6, <1>7, <1>8, <1>9, <1>10, <1>11, <1>12, <1>13,
     <1>14, <1>15, <1>16, <1>17, <1>18, <1>19, <1>20, <1>21 DEF StepForward


\* The unwinding does not touch forward rows and effects.
LEMMA OwnershipBackward ==
  ASSUME Truthful, ResumedOnly
  PROVE  TypeOK /\ Bookkeeping /\ Ownership /\ StepBackward => Ownership'
<1> SUFFICES ASSUME TypeOK, Bookkeeping, Ownership, StepBackward
             PROVE  Ownership'
  OBVIOUS
<1> USE DEF Bookkeeping, Ownership, ForwardPlaces, RecoveryPlaces, durable, world, progress, completed, unwinding
<1>1. CASE Recover
  <2>1. OnePending'
    BY <1>1
    DEF Recover, OnePending, Attempting, Pending
  <2>2. CommittedSkipped'
    BY <1>1
    DEF Recover, CommittedSkipped
  <2>3. NotYetActed'
    BY <1>1
    DEF Recover, NotYetActed
  <2>4. PivotKnown'
    BY <1>1
    DEF Recover, PivotKnown
  <2> QED
    BY <1>1, <2>1, <2>2, <2>3, <2>4, OwnershipFrames
    DEF Recover
<1>2. ASSUME NEW s \in Steps, UndoBlocked(s)
      PROVE  Ownership'
  <2>1. OnePending'
    BY <1>2
    DEF UndoBlocked, OnePending, Attempting, Pending
  <2>2. CommittedSkipped'
    BY <1>2
    DEF UndoBlocked, CommittedSkipped
  <2>3. NotYetActed'
    BY <1>2
    DEF UndoBlocked, NotYetActed
  <2>4. PivotKnown'
    BY <1>2
    DEF UndoBlocked, PivotKnown
  <2> QED
    BY <1>2, <2>1, <2>2, <2>3, <2>4, OwnershipFrames
    DEF UndoBlocked
<1>3. ASSUME NEW s \in Steps, UndoStart(s)
      PROVE  Ownership'
  <2>1. OnePending'
    BY <1>3
    DEF UndoStart, OnePending, Attempting, Pending
  <2>2. CommittedSkipped'
    BY <1>3
    DEF UndoStart, CommittedSkipped
  <2>3. NotYetActed'
    BY <1>3
    DEF UndoStart, NotYetActed
  <2>4. PivotKnown'
    BY <1>3
    DEF UndoStart, PivotKnown
  <2> QED
    BY <1>3, <2>1, <2>2, <2>3, <2>4, OwnershipFrames
    DEF UndoStart
<1>4. CASE UndoMark
  <2>1. OnePending'
    BY <1>4
    DEF UndoMark, OnePending, Attempting, Pending
  <2>2. CommittedSkipped'
    BY <1>4
    DEF UndoMark, CommittedSkipped
  <2>3. NotYetActed'
    BY <1>4
    DEF UndoMark, NotYetActed
  <2>4. PivotKnown'
    BY <1>4
    DEF UndoMark, PivotKnown
  <2> QED
    BY <1>4, <2>1, <2>2, <2>3, <2>4, OwnershipFrames
    DEF UndoMark
<1>5. ASSUME NEW o \in Outcomes, UndoExecute(o)
      PROVE  Ownership'
  <2>1. EffectsHaveRows'
    BY <1>5, TruthfulOutcomes
    DEF UndoExecute, EffectsHaveRows
  <2>2. OnePending'
    BY <1>5
    DEF UndoExecute, OnePending, Attempting, Pending
  <2>3. CommittedSkipped'
    BY <1>5
    DEF UndoExecute, CommittedSkipped
  <2>4. NotYetActed'
    BY <1>5
    DEF UndoExecute, NotYetActed
  <2>5. PivotKnown'
    BY <1>5
    DEF UndoExecute, PivotKnown
  <2> QED
    BY <1>5, <2>1, <2>2, <2>3, <2>4, <2>5, OwnershipFrames
    DEF UndoExecute
<1>6. CASE UndoSucceeds
  <2>1. OnePending'
    BY <1>6
    DEF UndoSucceeds, NextAction, OnePending, Attempting, Pending
  <2>2. CommittedSkipped'
    BY <1>6
    DEF UndoSucceeds, NextAction, CommittedSkipped
  <2>3. NotYetActed'
    BY <1>6
    DEF UndoSucceeds, NextAction, NotYetActed
  <2>4. PivotKnown'
    BY <1>6
    DEF UndoSucceeds, NextAction, PivotKnown
  <2> QED
    BY <1>6, <2>1, <2>2, <2>3, <2>4, OwnershipFrames
    DEF UndoSucceeds, NextAction
<1>7. ASSUME NEW status \in {"FAILED", "UNKNOWN"}, UndoFails(status)
      PROVE  Ownership'
  <2>1. OnePending'
    BY <1>7
    DEF UndoFails, OnePending, Attempting, Pending
  <2>2. CommittedSkipped'
    BY <1>7
    DEF UndoFails, CommittedSkipped
  <2>3. NotYetActed'
    BY <1>7
    DEF UndoFails, NotYetActed
  <2>4. PivotKnown'
    BY <1>7
    DEF UndoFails, PivotKnown
  <2> QED
    BY <1>7, <2>1, <2>2, <2>3, <2>4, OwnershipFrames
    DEF UndoFails
<1>8. CASE DeadLetter
  <2>1. OnePending'
    BY <1>8
    DEF DeadLetter, NextAction, OnePending, Attempting, Pending
  <2>2. CommittedSkipped'
    BY <1>8
    DEF DeadLetter, NextAction, CommittedSkipped
  <2>3. NotYetActed'
    BY <1>8
    DEF DeadLetter, NextAction, NotYetActed
  <2>4. PivotKnown'
    BY <1>8
    DEF DeadLetter, NextAction, PivotKnown
  <2> QED
    BY <1>8, <2>1, <2>2, <2>3, <2>4, OwnershipFrames
    DEF DeadLetter, NextAction
<1>9. CASE FinishRecovery
  <2>1. OnePending'
    BY <1>9
    DEF FinishRecovery, OnePending, Attempting, Pending
  <2>2. CommittedSkipped'
    BY <1>9
    DEF FinishRecovery, CommittedSkipped
  <2>3. NotYetActed'
    BY <1>9
    DEF FinishRecovery, NotYetActed
  <2>4. PivotKnown'
    BY <1>9
    DEF FinishRecovery, PivotKnown
  <2> QED
    BY <1>9, <2>1, <2>2, <2>3, <2>4, OwnershipFrames
    DEF FinishRecovery
<1> QED
  BY <1>1, <1>2, <1>3, <1>4, <1>5, <1>6, <1>7, <1>8, <1>9 DEF StepBackward


\* A resumed session takes over exactly the committed steps.
LEMMA OwnershipSessions ==
  ASSUME Truthful, ResumedOnly
  PROVE  TypeOK /\ Bookkeeping /\ Ownership /\ (RunWorkflow \/ ResumeWorkflow \/ Crash \/ Reopen) => Ownership'
<1> SUFFICES ASSUME TypeOK, Bookkeeping, Ownership, (RunWorkflow \/ ResumeWorkflow \/ Crash \/ Reopen)
             PROVE  Ownership'
  OBVIOUS
<1> USE DEF Bookkeeping, Ownership, ForwardPlaces, RecoveryPlaces, durable, world, progress, completed, unwinding
<1>1. CASE RunWorkflow
  <2>1. session = 0
    BY <1>1, Numbers
    DEF RunWorkflow, NewSession, ResumedOnly, RowsInOrder
  <2>2. \A s \in Steps, k \in Sessions : wal[s][k] = "absent"
    BY <1>1, Numbers, PlanAssumption, <2>1
    DEF RunWorkflow, NewSession, RowsInOrder, Sessions
  <2>3. OnePending'
    BY <1>1, <2>1, <2>2
    DEF RunWorkflow, NewSession, OnePending, Attempting, Pending
  <2>4. CommittedSkipped'
    BY <1>1, <2>1, <2>2
    DEF RunWorkflow, NewSession, CommittedSkipped
  <2>5. NotYetActed'
    BY <1>1, <2>1, <2>2
    DEF RunWorkflow, NewSession, NotYetActed
  <2>6. PivotKnown'
    BY <1>1, <2>1, <2>2, PivotTyped
    DEF RunWorkflow, NewSession, PivotKnown, EffectsHaveRows
  <2> QED
    BY <1>1, <2>3, <2>4, <2>5, <2>6, OwnershipFrames
    DEF RunWorkflow, NewSession
<1>2. CASE ResumeWorkflow
  <2>1. <<Pivot, session + 1>> \notin eff
    BY <1>2, Numbers, PivotTyped
    DEF ResumeWorkflow, NewSession, EffectsHaveRows, RowsInOrder
  <2>2. OnePending'
    BY <1>2, <2>1, PendingRowsAre
    DEF ResumeWorkflow, NewSession, OnePending, Attempting, Pending
  <2>3. CommittedSkipped'
    BY <1>2, <2>1, Numbers, PlanAssumption
    DEF ResumeWorkflow, NewSession, CommittedSkipped, CommittedSteps, LastRow,
        CommittedIsLast, RowsInOrder, Sessions
  <2>4. NotYetActed'
    BY <1>2, <2>1
    DEF ResumeWorkflow, NewSession, NotYetActed
  <2>5. PivotKnown'
    BY <1>2, <2>1
    DEF ResumeWorkflow, NewSession, PivotKnown, PivotCommitted
  <2> QED
    BY <1>2, <2>2, <2>3, <2>4, <2>5, OwnershipFrames
    DEF ResumeWorkflow, NewSession
<1>3. CASE Crash
  <2>1. OnePending'
    BY <1>3
    DEF Crash, LoseProcess, OnePending, Attempting, Pending
  <2>2. CommittedSkipped'
    BY <1>3
    DEF Crash, LoseProcess, CommittedSkipped
  <2>3. NotYetActed'
    BY <1>3
    DEF Crash, LoseProcess, NotYetActed
  <2>4. PivotKnown'
    BY <1>3
    DEF Crash, LoseProcess, PivotKnown
  <2> QED
    BY <1>3, <2>1, <2>2, <2>3, <2>4, OwnershipFrames
    DEF Crash, LoseProcess
<1>4. CASE Reopen
  <2>1. OnePending'
    BY <1>4
    DEF Reopen, LoseProcess, OnePending, Attempting, Pending
  <2>2. CommittedSkipped'
    BY <1>4
    DEF Reopen, LoseProcess, CommittedSkipped
  <2>3. NotYetActed'
    BY <1>4
    DEF Reopen, LoseProcess, NotYetActed
  <2>4. PivotKnown'
    BY <1>4
    DEF Reopen, LoseProcess, PivotKnown
  <2> QED
    BY <1>4, <2>1, <2>2, <2>3, <2>4, OwnershipFrames
    DEF Reopen, LoseProcess
<1> QED
  BY <1>1, <1>2, <1>3, <1>4


\* Reconciliation gives every effect a crash cut off its owner.
LEMMA OwnershipWorld ==
  ASSUME Truthful, ResumedOnly
  PROVE  TypeOK /\ Bookkeeping /\ Ownership /\ (Reconcile \/ Land) => Ownership'
<1> SUFFICES ASSUME TypeOK, Bookkeeping, Ownership, (Reconcile \/ Land)
             PROVE  Ownership'
  OBVIOUS
<1> USE DEF Bookkeeping, Ownership, ForwardPlaces, RecoveryPlaces, durable, world, progress, completed, unwinding
<1>1. ASSUME NEW s \in Steps, NEW k \in Sessions, ReconcileRow(s, k)
      PROVE  Ownership'
  <2>1. /\ wal[s][k] \in Pending /\ k = session
        /\ wal'[s][k] \in {"ESCALATED", "COMMITTED", "FAILED"}
        /\ s \notin Adapterless /\ <<s, k>> \in eff => wal'[s][k] = "COMMITTED"
        /\ OtherRowsStay(s, k)
    BY <1>1, SetRowIs, TruthfulAnswers
    DEF ReconcileRow, TypeOK, PendingRows, Pending, OnePending
  <2>2. EffectsHaveRows'
    BY <1>1, <2>1
    DEF ReconcileRow, EffectsHaveRows, OtherRowsStay
  <2>3. OnePending'
    BY <1>1, <2>1
    DEF ReconcileRow, OnePending, Attempting, Pending, OtherRowsStay
  <2>4. CommittedSkipped'
    BY <1>1, <2>1, SkipTyped
    DEF ReconcileRow, CommittedSkipped, OtherRowsStay
  <2>5. CommittedIsLast'
    BY <1>1, <2>1, Numbers
    DEF ReconcileRow, CommittedIsLast, OtherRowsStay, RowsInOrder, Pending
  <2>6. NotYetActed'
    BY <1>1, <2>1
    DEF ReconcileRow, NotYetActed
  <2>7. PivotKnown'
    BY <1>1, <2>1
    DEF ReconcileRow, PivotKnown
  <2> QED
    BY <1>1, <2>2, <2>3, <2>4, <2>5, <2>6, <2>7, OwnershipFrames
    DEF ReconcileRow
<1>2. ASSUME NEW s \in Steps, NEW k \in Sessions, ReconcileUndoRow(s, k)
      PROVE  Ownership'
  <2>1. OnePending'
    BY <1>2
    DEF ReconcileUndoRow, OnePending, Attempting, Pending
  <2>2. CommittedSkipped'
    BY <1>2
    DEF ReconcileUndoRow, CommittedSkipped
  <2>3. NotYetActed'
    BY <1>2
    DEF ReconcileUndoRow, NotYetActed
  <2>4. PivotKnown'
    BY <1>2
    DEF ReconcileUndoRow, PivotKnown
  <2> QED
    BY <1>2, <2>1, <2>2, <2>3, <2>4, OwnershipFrames
    DEF ReconcileUndoRow
<1>3. ASSUME NEW s \in Steps, NEW k \in Sessions, LandEffect(s, k)
      PROVE  Ownership'
  <2>1. FALSE
    BY <1>3
    DEF LandEffect, EffectsHaveRows
  <2> QED
    BY <1>3, <2>1
    DEF LandEffect
<1>4. ASSUME NEW s \in Steps, NEW j \in Sessions, NEW k \in Sessions, LandUndo(s, j, k)
      PROVE  Ownership'
  <2>1. FALSE
    BY <1>4
    DEF LandUndo, EffectsHaveRows
  <2> QED
    BY <1>4, <2>1
    DEF LandUndo
<1> QED
  BY <1>1, <1>2, <1>3, <1>4 DEF Reconcile, Land

\* Without effects there is nothing to own.
LEMMA OwnershipInit == Init => Ownership
BY PlanAssumption
DEF Init, Ownership, EffectsHaveRows, OnePending, CommittedSkipped, CommittedIsLast, NotYetActed,
    PivotKnown, NoDuplicateEffect, Attempting, Pending, ForwardPlaces

\* Ownership is inductive for truthful tools and resumed runs.
LEMMA OwnershipStep ==
  ASSUME Truthful, ResumedOnly
  PROVE  TypeOK /\ Bookkeeping /\ Ownership /\ [Next]_vars => Ownership'
<1> SUFFICES ASSUME TypeOK, Bookkeeping, Ownership, [Next]_vars
             PROVE  Ownership'
  OBVIOUS
<1>1. CASE RunWorkflow \/ ResumeWorkflow \/ Crash \/ Reopen
  BY <1>1, OwnershipSessions
<1>2. CASE CoordinatorStep
  BY <1>2, OwnershipForward, OwnershipBackward DEF CoordinatorStep
<1>3. CASE Reconcile \/ Land
  BY <1>3, OwnershipWorld
<1>4. CASE UNCHANGED vars
  <2>1. OnePending' /\ CommittedSkipped' /\ NotYetActed' /\ PivotKnown'
    BY <1>4
    DEF vars, durable, world, progress, completed, Ownership, OnePending, CommittedSkipped,
        NotYetActed, PivotKnown
  <2> QED
    BY <1>4, <2>1, OwnershipFrames DEF vars, durable, world, Ownership
<1> QED
  BY <1>1, <1>2, <1>3, <1>4 DEF Next

\* THEOREM: with adapters that keep their contract, every effect has one owner over
\* any number of crashes and resumes, the row the next session will decide by.
THEOREM OwnershipInvariant ==
  ASSUME Truthful, ResumedOnly
  PROVE  Spec => []Ownership
<1>1. TypeOK /\ Bookkeeping /\ Ownership /\ [Next]_vars => Ownership'
  BY OwnershipStep
<1> QED
  BY TypeCorrect, BookkeepingInvariant, OwnershipInit, <1>1, PTL DEF Spec

\* THEOREM: with such adapters a step has at most one effect, whatever crashes.
THEOREM NoDuplicateEffectCorrect ==
  ASSUME Truthful, ResumedOnly
  PROVE  Spec => []NoDuplicateEffect
<1>1. Ownership => NoDuplicateEffect
  BY DEF Ownership
<1> QED
  BY OwnershipInvariant, <1>1, PTL

\* THEOREM: with such adapters, an intent the log gave up as FAILED has not acted.
THEOREM FailedIsVoidCorrect ==
  ASSUME Truthful, ResumedOnly
  PROVE  Spec => []FailedIsVoid
<1>1. Ownership => FailedIsVoid
  BY DEF Ownership, EffectsHaveRows, FailedIsVoid
<1> QED
  BY OwnershipInvariant, <1>1, PTL

\* THEOREM: no session ends unaware of a pivot that any session has crossed.
THEOREM PivotHonestyCorrect ==
  ASSUME Truthful, ResumedOnly
  PROVE  Spec => []PivotHonesty
<1>1. TypeOK /\ Bookkeeping /\ Ownership => PivotHonesty
  <2> SUFFICES ASSUME TypeOK, Bookkeeping, Ownership, pc = "done",
                      NEW k \in Sessions, <<Pivot, k>> \in eff
               PROVE  pivotCrossed
    BY DEF PivotHonesty
  <2>1. Pivot \in Steps
    BY DEF TypeOK, WorldTyped
  <2>2. k \in Nat /\ session \in Nat
    BY Numbers
  <2>3. CASE k = session
    BY <2>3 DEF Ownership, PivotKnown
  <2>4. CASE k # session
    <3>1. wal[Pivot][k] = "COMMITTED" /\ k < session
      BY <2>1, <2>2, <2>4
      DEF Bookkeeping, RowsInOrder, Ownership, EffectsHaveRows, OnePending, Pending
    <3> QED
      BY <2>1, <3>1 DEF Ownership, CommittedSkipped, PivotKnown
  <2> QED
    BY <2>3, <2>4
<1> QED
  BY TypeCorrect, BookkeepingInvariant, OwnershipInvariant, <1>1, PTL

------------------------------------------------------------------------------
(* What a step may do to the forward rows *)

\* The only row a step changes is that of the attempt under way, or, with no process
\* alive, one that was pending.
LEMMA RowChange ==
  ASSUME TypeOK, Bookkeeping, [Next]_vars
  PROVE  \/ UNCHANGED wal
         \/ pc \in Attempting \cup {"admit"} /\ OtherRowsStay(cur, session)
         \/ \E s \in Steps, k \in Sessions : wal[s][k] \in Pending /\ OtherRowsStay(s, k)
<1> USE DEF durable
<1>1. CASE Admit \/ FailFast
  <2>1. cur \in Steps /\ session \in Sessions /\ LogTyped /\ pc = "admit"
    BY <1>1, AtStep DEF Admit, FailFast, ForwardPlaces, TypeOK
  <2>2. OtherRowsStay(cur, session)
    BY <1>1, <2>1, WriteIntentIs
    DEF Admit, FailFast, WriteAtFirst, OtherRowsStay, LogTyped
  <2> QED
    BY <2>1, <2>2
<1>2. CASE \/ MarkRunning \/ MissingAdapter \/ PostconditionPasses \/ MarkUnknown
           \/ QueryFinds \/ QueryFindsNothing
  <2>1. cur \in Steps /\ session \in Sessions /\ LogTyped /\ pc \in Attempting
    BY <1>2, AtStep
    DEF MarkRunning, MissingAdapter, PostconditionPasses, MarkUnknown, QueryFinds,
        QueryFindsNothing, ForwardPlaces, Attempting, TypeOK
  <2>2. \E status \in Statuses : SetRow(cur, session, status)
    BY <1>2
    DEF MarkRunning, MissingAdapter, PostconditionPasses, MarkUnknown, QueryFinds,
        QueryFindsNothing, Statuses, Pending
  <2> QED
    BY <2>1, <2>2, SetRowIs
<1>3. CASE Retry \/ GiveUpForward \/ GiveUpUnwinding
  <2>1. cur \in Steps /\ session \in Sessions /\ LogTyped /\ pc \in Attempting
    BY <1>3, AtStep
    DEF Retry, GiveUpForward, GiveUpUnwinding, HandleFailure, ForwardPlaces, Attempting, TypeOK
  <2>2. SetRow(cur, session, "FAILED") \/ UNCHANGED wal
    BY <1>3 DEF Retry, GiveUpForward, GiveUpUnwinding, HandleFailure
  <2> QED
    BY <2>1, <2>2, SetRowIs
<1>4. CASE \/ SkipCommitted \/ DeadlinePasses \/ Complete
           \/ \E d \in {"granted", "denied"} : ResolveApproval(d)
           \/ NoApprovalNeeded \/ ReuseResult \/ ClaimKey
           \/ \E o \in Outcomes : Execute(o)
           \/ PostconditionFails \/ RecordSuccess \/ QueryUndetermined \/ EscalateForward
  BY <1>4
  DEF SkipCommitted, DeadlinePasses, Complete, ResolveApproval, NoApprovalNeeded,
      ReuseResult, ClaimKey, Execute, PostconditionFails, RecordSuccess,
      QueryUndetermined, EscalateForward
<1>5. CASE StepBackward
  BY <1>5
  DEF StepBackward, Recover, UndoBlocked, UndoStart, UndoMark, UndoExecute, UndoSucceeds,
      UndoFails, DeadLetter, FinishRecovery
<1>6. CASE RunWorkflow \/ ResumeWorkflow \/ Crash \/ Reopen \/ Land \/ UNCHANGED vars
  BY <1>6
  DEF RunWorkflow, ResumeWorkflow, NewSession, Crash, Reopen, LoseProcess, Land, LandEffect,
      LandUndo, vars
<1>7. CASE Reconcile
  <2>1. CASE \E s \in Steps, k \in Sessions : ReconcileRow(s, k)
    <3>1. PICK s \in Steps, k \in Sessions : ReconcileRow(s, k)
      BY <2>1
    <3>2. wal[s][k] \in Pending
      BY <3>1, PendingRowsAre DEF ReconcileRow
    <3>3. PICK status : SetRow(s, k, status)
      BY <3>1 DEF ReconcileRow
    <3> QED
      BY <3>2, <3>3, SetRowIs DEF TypeOK
  <2>2. CASE \E s \in Steps, k \in Sessions : ReconcileUndoRow(s, k)
    BY <2>2 DEF ReconcileUndoRow
  <2> QED
    BY <1>7, <2>1, <2>2 DEF Reconcile
<1> QED
  BY <1>1, <1>2, <1>3, <1>4, <1>5, <1>6, <1>7 DEF Next, CoordinatorStep, StepForward

\* A COMMITTED row is not taken back by any step.
LEMMA CommittedStays ==
  ASSUME TypeOK, Bookkeeping, [Next]_vars
  PROVE  \A s \in Steps, k \in Sessions : wal[s][k] = "COMMITTED" => wal'[s][k] = "COMMITTED"
<1> SUFFICES ASSUME NEW s \in Steps, NEW k \in Sessions, wal[s][k] = "COMMITTED"
             PROVE  wal'[s][k] = "COMMITTED"
  OBVIOUS
<1>1. CASE UNCHANGED wal
  BY <1>1
<1>2. CASE pc \in Attempting \cup {"admit"} /\ OtherRowsStay(cur, session)
  <2>1. wal[cur][session] # "COMMITTED"
    BY <1>2, Numbers, AtStep
    DEF Bookkeeping, RowsInOrder, AttemptTracked, Attempting, ForwardPlaces
  <2> QED
    BY <1>2, <2>1 DEF OtherRowsStay
<1>3. CASE \E i \in Steps, j \in Sessions : wal[i][j] \in Pending /\ OtherRowsStay(i, j)
  BY <1>3 DEF OtherRowsStay, Pending
<1> QED
  BY <1>1, <1>2, <1>3, RowChange

\* THEOREM: nothing takes back a COMMITTED row, whatever tools, crashes and callers do.
THEOREM CommittedIsFinalCorrect == Spec => CommittedIsFinal
<1>1. TypeOK /\ Bookkeeping /\ [Next]_vars =>
        [\A s \in Steps, k \in Sessions :
           wal[s][k] = "COMMITTED" => wal'[s][k] = "COMMITTED"]_wal
  BY CommittedStays
<1> QED
  BY TypeCorrect, BookkeepingInvariant, <1>1, PTL DEF Spec, CommittedIsFinal

\* THEOREM: once a step's key holds a success, no session opens an intent for it,
\* whether it resumes the run or runs its id again.
THEOREM RecordedKeyReusedCorrect == Spec => RecordedKeyReused
<1>1. Init => KeyOpen
  BY DEF Init, KeyOpen, Attempting
<1>2. TypeOK /\ KeyOpen /\ [Next]_vars => KeyOpen'
  <2> SUFFICES ASSUME TypeOK, KeyOpen, [Next]_vars PROVE KeyOpen'
    OBVIOUS
  <2> USE DEF Attempting, durable, progress
  <2>1. CASE StepForward
    <3>1. pc' \in Attempting \cup {"admit"} =>
            /\ UNCHANGED <<cur, reuse>>
            /\ pc \in Attempting \cup {"admit"} \/ ClaimKey
      BY <2>1, OutcomeClassified
      DEF StepForward, SkipCommitted, DeadlinePasses, Complete, ResolveApproval, NoApprovalNeeded,
          ReuseResult, ClaimKey, MarkCompleted, Admit, FailFast, MarkRunning, MissingAdapter, Execute,
          PostconditionPasses, PostconditionFails, RecordSuccess, MarkUnknown, QueryFinds,
          QueryFindsNothing, QueryUndetermined, Retry, GiveUpForward, GiveUpUnwinding, HandleFailure,
          EscalateForward
    <3> QED
      BY <3>1 DEF KeyOpen, ClaimKey, KeyHolds
  <2>2. CASE StepBackward \/ RunWorkflow \/ ResumeWorkflow \/ Crash \/ Reopen
    BY <2>2
    DEF KeyOpen, StepBackward, Recover, UndoBlocked, UndoStart, UndoMark, UndoExecute, UndoSucceeds,
        UndoFails, DeadLetter, NextAction, FinishRecovery, RunWorkflow, ResumeWorkflow, NewSession,
        Crash, Reopen, LoseProcess
  <2>3. CASE Reconcile \/ Land \/ UNCHANGED vars
    BY <2>3
    DEF KeyOpen, Reconcile, Land, ReconcileRow, ReconcileUndoRow, LandEffect, LandUndo, vars
  <2> QED
    BY <2>1, <2>2, <2>3 DEF Next, CoordinatorStep
<1>3. TypeOK /\ Bookkeeping /\ KeyOpen /\ [Next]_vars =>
        [\A s \in Keyed, k \in Sessions :
           reuse[s] # 0 /\ wal'[s][k] # "absent" => wal[s][k] # "absent"]_wal
  <2> SUFFICES ASSUME TypeOK, Bookkeeping, KeyOpen, [Next]_vars, NEW s \in Keyed, NEW k \in Sessions,
                      reuse[s] # 0, wal'[s][k] # "absent"
               PROVE  wal[s][k] # "absent"
    OBVIOUS
  <2>1. s \in Steps
    BY PlanAssumption
  <2>2. CASE UNCHANGED wal
    BY <2>2
  <2>3. CASE pc \in Attempting \cup {"admit"} /\ OtherRowsStay(cur, session)
    BY <2>1, <2>3 DEF KeyOpen, OtherRowsStay
  <2>4. CASE \E i \in Steps, j \in Sessions : wal[i][j] \in Pending /\ OtherRowsStay(i, j)
    BY <2>1, <2>4 DEF OtherRowsStay, Pending
  <2> QED
    BY <2>2, <2>3, <2>4, RowChange
<1> QED
  BY TypeCorrect, BookkeepingInvariant, <1>1, <1>2, <1>3, PTL DEF Spec, RecordedKeyReused

\* THEOREM: with contract-keeping adapters no resumed session opens an intent for a
\* step that has a COMMITTED row.
THEOREM CommittedNeverRerunCorrect ==
  ASSUME Truthful, ResumedOnly
  PROVE  Spec => CommittedNeverRerun
<1>1. TypeOK /\ Bookkeeping /\ Ownership /\ [Next]_vars =>
        [\A s \in Steps, j, k \in Sessions :
           wal[s][j] = "COMMITTED" /\ wal'[s][k] # "absent" => wal[s][k] # "absent"]_wal
  <2> SUFFICES ASSUME TypeOK, Bookkeeping, Ownership, [Next]_vars,
                      NEW s \in Steps, NEW j \in Sessions, NEW k \in Sessions,
                      wal[s][j] = "COMMITTED", wal'[s][k] # "absent"
               PROVE  wal[s][k] # "absent"
    OBVIOUS
  <2>1. CASE UNCHANGED wal
    BY <2>1
  <2>2. CASE pc \in Attempting \cup {"admit"} /\ OtherRowsStay(cur, session)
    <3>1. cur \notin skip /\ pc # "down"
      BY <2>2 DEF Ownership, CommittedSkipped, ForwardPlaces, Attempting
    <3>2. ~(j > session)
      BY DEF Bookkeeping, RowsInOrder
    <3>3. s = cur => j = session
      BY <3>1, <3>2, Numbers DEF Ownership, CommittedSkipped
    <3> QED
      BY <2>2, <3>3 DEF OtherRowsStay
  <2>3. CASE \E i \in Steps, l \in Sessions : wal[i][l] \in Pending /\ OtherRowsStay(i, l)
    BY <2>3 DEF OtherRowsStay, Pending
  <2> QED
    BY <2>1, <2>2, <2>3, RowChange
<1> QED
  BY TypeCorrect, BookkeepingInvariant, OwnershipInvariant, <1>1, PTL
  DEF Spec, CommittedNeverRerun

------------------------------------------------------------------------------
(* Accounted *)

\* What is settled stays settled: letters are not withdrawn, and its row is left alone.
LEMMA SettledStays ==
  ASSUME NEW s \in Steps, Settled(s), dlq \subseteq dlq', UNCHANGED session,
         cwal'[s][session] = cwal[s][session]
  PROVE  Settled(s)'
BY DEF Settled

\* What a step that compensates nothing keeps.
LEMMA AccountedFrames ==
  /\ NothingAhead /\ UNCHANGED <<cwal, dlq, session>> => NothingAhead'
  /\ NothingYet /\ UNCHANGED <<cwal, dlq, session, undoing>> /\ pc \in ForwardPlaces \cup {"recover"}
       => NothingYet'
BY DEF NothingAhead, NothingYet, HasLetter

\* Going forward, nothing is compensated, and a letter is written on the way out only.
LEMMA AccountedForward == TypeOK /\ Accounted /\ StepForward => Accounted'
<1> SUFFICES ASSUME TypeOK, Accounted, StepForward PROVE Accounted'
  OBVIOUS
<1> USE DEF Accounted, ForwardPlaces, RecoveryPlaces, durable, progress, unwinding
<1>1. CASE EscalateForward
  <2>1. session \in Sessions /\ session \in Nat
    BY <1>1, Running, Numbers DEF EscalateForward
  <2>2. NothingAhead'
    BY <1>1, <2>1 DEF EscalateForward, NothingAhead
  <2>3. HasLetter(session)' /\ (\E l \in dlq' : l.session = session' /\ l.kind = "forward")
    <3> DEFINE l == [step |-> cur, session |-> session, kind |-> "forward"]
    <3>1. l \in dlq' /\ l.session = session /\ l.kind = "forward" /\ UNCHANGED session
      BY <1>1 DEF EscalateForward
    <3> HIDE DEF l
    <3> QED
      BY <3>1 DEF HasLetter
  <2> QED
    BY <1>1, <2>2, <2>3 DEF EscalateForward, NothingYet, UndoneInTurn, NothingSwept, HasLetter
<1>2. CASE ~EscalateForward
  <2>1. UNCHANGED <<cwal, dlq, session, undoing>> /\ pc \in ForwardPlaces
    BY <1>2
    DEF StepForward, SkipCommitted, DeadlinePasses, Complete, ResolveApproval, NoApprovalNeeded,
        ReuseResult, ClaimKey, Admit, FailFast, MarkRunning, MissingAdapter, Execute,
        PostconditionPasses, PostconditionFails, RecordSuccess, MarkUnknown, QueryFinds,
        QueryFindsNothing, QueryUndetermined, Retry, GiveUpForward, GiveUpUnwinding, HandleFailure
  <2>2. pc' \in ForwardPlaces \cup {"recover"} \/ (pc' = "done" /\ run' = "COMPLETED")
    BY <1>2, OutcomeClassified
    DEF StepForward, SkipCommitted, DeadlinePasses, Complete, ResolveApproval, NoApprovalNeeded,
        ReuseResult, ClaimKey, MarkCompleted, Admit, FailFast, MarkRunning, MissingAdapter, Execute,
        PostconditionPasses, PostconditionFails, RecordSuccess, MarkUnknown, QueryFinds,
        QueryFindsNothing, QueryUndetermined, Retry, GiveUpForward, GiveUpUnwinding, HandleFailure
  <2>3. NothingAhead' /\ NothingYet'
    BY <2>1, AccountedFrames
  <2> QED
    BY <2>2, <2>3 DEF UndoneInTurn, NothingSwept
<1> QED
  BY <1>1, <1>2

\* The unwinding settles one action after the other, newest first.
LEMMA AccountedBackward == TypeOK /\ Bookkeeping /\ Accounted /\ StepBackward => Accounted'
<1> SUFFICES ASSUME TypeOK, Bookkeeping, Accounted, StepBackward PROVE Accounted'
  OBVIOUS
<1> USE DEF Accounted, RecoveryPlaces, durable, completed
<1>1. session \in Sessions /\ session \in Nat /\ LogTyped /\ order \in [Steps -> Nat]
      /\ UNCHANGED <<session, order>>
  BY Running, Numbers
  DEF TypeOK, CompletedTyped, StepBackward, Recover, UndoBlocked, UndoStart, UndoMark, UndoExecute,
      UndoSucceeds, UndoFails, DeadLetter, FinishRecovery
<1>2. Tracked' = Tracked
  BY <1>1 DEF Tracked
<1>3. CASE Recover
  <2>1. /\ todo' = Tracked /\ undoing' = 0 /\ clean' = TRUE /\ pc' = "undo"
        /\ UNCHANGED <<cwal, dlq>>
        /\ \A s \in Steps : cwal[s][session] = "absent"
        /\ ~HasLetter(session)
    BY <1>3 DEF Recover, NothingYet
  <2>2. UndoneInTurn'
    BY <1>1, <1>2, <2>1 DEF UndoneInTurn, HasLetter
  <2> QED
    BY <1>1, <2>1, <2>2, AccountedFrames DEF NothingYet, NothingSwept, ForwardPlaces
<1>4. ASSUME NEW s \in Steps, UndoBlocked(s) PROVE Accounted'
  <2>1. /\ NextToUndo(s) /\ undoing' = s /\ pc = "undo" /\ pc' = "letter"
        /\ UNCHANGED <<cwal, dlq, todo, clean>>
    BY <1>4 DEF UndoBlocked
  <2>2. \A t \in Tracked \ todo : Settled(t)'
    BY <1>1, <2>1, SettledStays DEF UndoneInTurn, Tracked
  <2>3. NextToUndo(s)'
    BY <1>1, <2>1 DEF NextToUndo
  <2>4. UndoneInTurn'
    BY <1>1, <1>2, <2>1, <2>2, <2>3 DEF UndoneInTurn, HasLetter, Steps
  <2> QED
    BY <1>1, <2>1, <2>4, AccountedFrames DEF NothingYet, NothingSwept, ForwardPlaces
<1>5. ASSUME NEW s \in Steps, UndoStart(s) PROVE Accounted'
  <2>1. /\ NextToUndo(s) /\ undoing' = s /\ pc = "undo" /\ pc' = "undo_mark"
        /\ UNCHANGED <<dlq, todo, clean>>
        /\ OtherUndoRowsStay(s, session)
    BY <1>1, <1>5, WriteUndoIntentIs DEF UndoStart
  <2>2. s \in todo
    BY <2>1 DEF NextToUndo
  <2>3. \A t \in Tracked \ todo : Settled(t)'
    BY <1>1, <2>1, <2>2, SettledStays DEF UndoneInTurn, Tracked, OtherUndoRowsStay
  <2>4. NextToUndo(s)'
    BY <1>1, <2>1 DEF NextToUndo
  <2>5. \A t \in Steps : cwal'[t][session] # "absent" => t \in (Tracked \ todo) \cup {s}
    BY <1>1, <2>1 DEF UndoneInTurn, OtherUndoRowsStay, Steps
  <2>6. UndoneInTurn'
    BY <1>1, <1>2, <2>1, <2>3, <2>4, <2>5 DEF UndoneInTurn, HasLetter
  <2>7. NothingAhead'
    BY <1>1, <2>1 DEF NothingAhead, OtherUndoRowsStay, Sessions
  <2> QED
    BY <2>1, <2>6, <2>7 DEF NothingYet, NothingSwept, ForwardPlaces
<1>6. CASE UndoMark \/ (\E o \in Outcomes : UndoExecute(o))
           \/ \E status \in {"FAILED", "UNKNOWN"} : UndoFails(status)
  <2>1. /\ undoing \in Steps /\ NextToUndo(undoing)
        /\ pc \in {"undo_mark", "undo_execute", "undo_result"}
        /\ pc' \in {"undo_mark", "undo_execute", "undo_result", "letter"}
        /\ UNCHANGED <<dlq, todo, undoing, clean>>
    BY <1>6, Unwinding DEF UndoMark, UndoExecute, UndoFails, UndoneInTurn, unwinding
  <2>2. OtherUndoRowsStay(undoing, session)
    BY <1>1, <1>6, <2>1, SetUndoRowIs DEF UndoMark, UndoExecute, UndoFails, OtherUndoRowsStay
  <2>3. undoing \in todo
    BY <2>1 DEF NextToUndo
  <2>4. \A t \in Tracked \ todo : Settled(t)'
    BY <1>1, <2>1, <2>2, <2>3, SettledStays DEF UndoneInTurn, Tracked, OtherUndoRowsStay
  <2>5. NextToUndo(undoing)'
    BY <1>1, <2>1 DEF NextToUndo
  <2>6. \A t \in Steps : cwal'[t][session] # "absent" => t \in (Tracked \ todo) \cup {undoing}
    BY <1>1, <2>1, <2>2 DEF UndoneInTurn, OtherUndoRowsStay
  <2>7. UndoneInTurn'
    BY <1>1, <1>2, <2>1, <2>4, <2>5, <2>6 DEF UndoneInTurn, HasLetter
  <2>8. NothingAhead'
    BY <1>1, <2>1, <2>2 DEF NothingAhead, OtherUndoRowsStay, Sessions
  <2> QED
    BY <2>1, <2>7, <2>8 DEF NothingYet, NothingSwept, ForwardPlaces
<1>7. CASE UndoSucceeds \/ DeadLetter
  <2>1. /\ undoing \in Steps /\ NextToUndo(undoing) /\ pc \in {"undo_result", "letter"}
        /\ todo' = todo \ {undoing} /\ undoing' = 0 /\ pc' = "undo" /\ dlq \subseteq dlq'
    BY <1>7, Unwinding DEF UndoSucceeds, DeadLetter, NextAction, UndoneInTurn
  <2>2. PICK u \in Steps : u = undoing
    BY <2>1
  <2>3. OtherUndoRowsStay(u, session)
    BY <1>1, <1>7, <2>2, SetUndoRowIs DEF UndoSucceeds, DeadLetter, OtherUndoRowsStay
  <2>4. Settled(u)'
    <3>1. CASE UndoSucceeds
      <4>1. cwal[u][session] # "absent"
        BY <2>2, <3>1 DEF UndoSucceeds, Bookkeeping, AttemptTracked
      <4>2. cwal'[u][session] = "COMPENSATED"
        BY <1>1, <2>2, <3>1, <4>1, SetUndoRowIs DEF UndoSucceeds
      <4> QED
        BY <1>1, <4>2 DEF Settled
    <3>2. CASE DeadLetter
      BY <1>1, <2>2, <3>2 DEF DeadLetter, UndoLetters, Settled
    <3> QED
      BY <1>7, <3>1, <3>2
  <2>5. u \in todo /\ \A t \in todo : order[t] <= order[u]
    BY <2>1, <2>2 DEF NextToUndo
  <2>6. \A t \in Tracked \ todo : Settled(t)'
    BY <1>1, <2>1, <2>3, <2>5, SettledStays DEF UndoneInTurn, Tracked, OtherUndoRowsStay
  <2>7. \A t \in Tracked \ todo' : Settled(t)' /\ \A i \in todo' : order[i] <= order[t]
    BY <2>1, <2>2, <2>4, <2>5, <2>6 DEF UndoneInTurn
  <2>8. \A t \in Steps : cwal'[t][session] # "absent" => t \in Tracked \ todo'
    BY <1>1, <2>1, <2>2, <2>3, <2>5 DEF UndoneInTurn, OtherUndoRowsStay
  <2>9. clean' <=> ~HasLetter(session)'
    <3>1. CASE UndoSucceeds
      BY <1>1, <2>1, <3>1 DEF UndoSucceeds, UndoneInTurn, HasLetter
    <3>2. CASE DeadLetter
      <4>1. HasLetter(session)'
        <5> DEFINE l == [step |-> undoing, session |-> session,
                         kind |-> IF tries = 0 THEN "blocked" ELSE "exhausted"]
        <5>1. l \in dlq' /\ l.session = session'
          BY <1>1, <3>2 DEF DeadLetter, UndoLetters
        <5> HIDE DEF l
        <5> QED
          BY <5>1 DEF HasLetter
      <4> QED
        BY <3>2, <4>1 DEF DeadLetter
    <3> QED
      BY <1>7, <3>1, <3>2
  <2>10. UndoneInTurn'
    BY <1>1, <1>2, <2>1, <2>5, <2>7, <2>8, <2>9 DEF UndoneInTurn
  <2>11. NothingAhead'
    BY <1>1, <1>7, <2>1, <2>3
    DEF NothingAhead, OtherUndoRowsStay, Sessions, UndoSucceeds, DeadLetter, UndoLetters
  <2> QED
    BY <2>1, <2>10, <2>11 DEF NothingYet, NothingSwept, ForwardPlaces
<1>8. CASE FinishRecovery
  <2>1. /\ todo = {} /\ pc = "undo" /\ pc' = "done" /\ run' = FinalState
        /\ UNCHANGED <<cwal, dlq>>
    BY <1>8 DEF FinishRecovery
  <2>2. \A s \in Steps : order[s] > 0 => Settled(s)
    BY <2>1 DEF UndoneInTurn, Tracked, Settled
  <2>3. \A s \in Steps : order'[s] > 0 => Settled(s)'
    BY <1>1, <2>1, <2>2, SettledStays
  <2>4. (run' = "INCONSISTENT") <=> HasLetter(session)'
    BY <1>1, <2>1 DEF FinalState, UndoneInTurn, HasLetter
  <2>5. NothingSwept'
    BY <2>3, <2>4 DEF NothingSwept, HasLetter
  <2> QED
    BY <1>1, <2>1, <2>5, AccountedFrames DEF NothingYet, UndoneInTurn, ForwardPlaces
<1> QED
  BY <1>3, <1>4, <1>5, <1>6, <1>7, <1>8 DEF StepBackward

\* A new session has compensated nothing; a dead one is not asked.
LEMMA AccountedSessions ==
  TypeOK /\ Accounted /\ (RunWorkflow \/ ResumeWorkflow \/ Crash \/ Reopen) => Accounted'
<1> SUFFICES ASSUME TypeOK, Accounted, RunWorkflow \/ ResumeWorkflow \/ Crash \/ Reopen
             PROVE  Accounted'
  OBVIOUS
<1> USE DEF Accounted, ForwardPlaces, RecoveryPlaces, durable
<1>1. CASE RunWorkflow \/ ResumeWorkflow
  <2>1. /\ session' = session + 1 /\ session' \in Sessions /\ session \in Nat
        /\ pc' = "loop" /\ undoing' = 0 /\ UNCHANGED <<cwal, dlq>>
    BY <1>1, Numbers, PlanAssumption DEF RunWorkflow, ResumeWorkflow, NewSession, Sessions
  <2>2. \A s \in Steps : cwal'[s][session'] = "absent"
    BY <2>1 DEF NothingAhead
  <2>3. \A l \in dlq : l.session \in Nat /\ l.session <= session
    BY <2>1, Numbers DEF NothingAhead, TypeOK, StoresTyped, Letters
  <2>4. ~HasLetter(session)'
    BY <2>1, <2>3 DEF HasLetter
  <2>5. NothingAhead'
    BY <2>1, <2>3, Numbers DEF NothingAhead
  <2> QED
    BY <2>1, <2>2, <2>4, <2>5 DEF NothingYet, UndoneInTurn, NothingSwept
<1>2. CASE Crash \/ Reopen
  BY <1>2, AccountedFrames DEF Crash, Reopen, LoseProcess, NothingYet, UndoneInTurn, NothingSwept
<1> QED
  BY <1>1, <1>2

\* Recovery settles rows between sessions; late requests touch no row.
LEMMA AccountedWorld == TypeOK /\ Accounted /\ (Reconcile \/ Land) => Accounted'
<1> SUFFICES ASSUME TypeOK, Accounted, Reconcile \/ Land PROVE Accounted'
  OBVIOUS
<1> USE DEF Accounted, ForwardPlaces, RecoveryPlaces, durable, completed, unwinding
<1>1. ASSUME NEW s \in Steps, NEW k \in Sessions, ReconcileRow(s, k) \/ ReconcileUndoRow(s, k)
      PROVE  Accounted'
  <2>1. pc = "down" /\ UNCHANGED <<dlq, session, pc>>
    BY <1>1 DEF ReconcileRow, ReconcileUndoRow
  <2>2. UNCHANGED cwal \/ \E status : SetUndoRow(s, k, status)
    BY <1>1 DEF ReconcileRow, ReconcileUndoRow
  <2>3. \A i \in Steps, j \in Sessions : cwal[i][j] = "absent" => cwal'[i][j] = "absent"
    BY <2>2, SetUndoRowIs DEF TypeOK, OtherUndoRowsStay
  <2>4. NothingAhead'
    BY <2>1, <2>3 DEF NothingAhead
  <2> QED
    BY <2>1, <2>4 DEF NothingYet, UndoneInTurn, NothingSwept
<1>2. CASE Land
  <2>1. UNCHANGED <<cwal, dlq, session, pc, run, order, todo, undoing, clean>>
    BY <1>2 DEF Land, LandEffect, LandUndo
  <2> QED
    BY <2>1
    DEF NothingAhead, NothingYet, UndoneInTurn, NothingSwept, HasLetter, Settled, Tracked, NextToUndo
<1> QED
  BY <1>1, <1>2 DEF Reconcile

\* THEOREM: an unwinding accounts for what it was given, newest first.
THEOREM AccountedInvariant == Spec => []Accounted
<1>1. Init => Accounted
  BY PlanAssumption, Numbers
  DEF Init, Accounted, NothingAhead, NothingYet, UndoneInTurn, NothingSwept, ForwardPlaces,
      RecoveryPlaces
<1>2. Accounted /\ UNCHANGED vars => Accounted'
  BY DEF Accounted, NothingAhead, NothingYet, UndoneInTurn, NothingSwept, HasLetter, Settled, Tracked,
         NextToUndo, vars, durable, completed, unwinding
<1>3. TypeOK /\ Bookkeeping /\ Accounted /\ [Next]_vars => Accounted'
  BY <1>2, AccountedForward, AccountedBackward, AccountedSessions, AccountedWorld
  DEF Next, CoordinatorStep
<1> QED
  BY TypeCorrect, BookkeepingInvariant, <1>1, <1>3, PTL DEF Spec

\* THEOREM: nothing is swept under the carpet, whatever tools and crashes do.
THEOREM NothingSweptCorrect == Spec => []NothingSwept
<1>1. Accounted => NothingSwept
  BY DEF Accounted
<1> QED
  BY AccountedInvariant, <1>1, PTL

\* THEOREM: compensation is LIFO, and each is settled before the next begins.
THEOREM LifoCompensationCorrect == Spec => []LifoCompensation
<1>1. TypeOK /\ Accounted => LifoCompensation
  <2> SUFFICES ASSUME TypeOK, Accounted, Live, NEW s \in Steps, NEW t \in Steps,
                      0 < order[s], order[s] < order[t], cwal[s][session] # "absent"
               PROVE  Settled(t)
    BY DEF LifoCompensation
  <2>1. pc \in RecoveryPlaces \ {"recover"}
    BY DEF Live, Accounted, NothingYet
  <2>2. order[s] \in Nat /\ order[t] \in Nat
    BY DEF TypeOK, CompletedTyped
  <2>3. CASE Comp[t] = "none"
    BY <2>3 DEF Settled
  <2>4. CASE t \in Tracked
    <3>1. s \in Tracked \ todo \/ (s = undoing /\ NextToUndo(s))
      BY <2>1 DEF Accounted, UndoneInTurn, Steps
    <3>2. t \notin todo
      BY <2>1, <2>2, <3>1 DEF Accounted, UndoneInTurn, NextToUndo
    <3> QED
      BY <2>1, <2>4, <3>2 DEF Accounted, UndoneInTurn
  <2> QED
    BY <2>2, <2>3, <2>4 DEF Tracked
<1> QED
  BY TypeCorrect, AccountedInvariant, <1>1, PTL

------------------------------------------------------------------------------
(* Reckoned *)

\* As long as rows stay committed, so do those of keys and completed actions.
LEMMA CompletedFrame ==
  ASSUME TypeOK, Bookkeeping, [Next]_vars, CompletedHasRow,
         \A s \in Steps : reuse'[s] \in {0, reuse[s]},
         \A s \in Steps : order'[s] > 0 => order[s] > 0 /\ src'[s] = src[s]
  PROVE  CompletedHasRow'
<1> SUFFICES ASSUME NEW s \in Steps
             PROVE  /\ reuse'[s] # 0 => wal'[s][reuse'[s]] = "COMMITTED"
                    /\ order'[s] > 0 => wal'[s][src'[s]] = "COMMITTED"
  BY DEF CompletedHasRow
<1>1. reuse[s] # 0 => reuse[s] \in Sessions
  BY PlanAssumption DEF TypeOK, StoresTyped, Sessions
<1>2. order[s] > 0 => src[s] \in Sessions
  BY PlanAssumption DEF TypeOK, PlacesTyped, CompletedTyped, Sessions
<1> QED
  BY <1>1, <1>2, CommittedStays DEF CompletedHasRow

\* Before anything is compensated nothing is undone, nor about to be.
LEMMA NothingUndone ==
  ASSUME TypeOK, Bookkeeping, Accounted, pc \in ForwardPlaces \cup {"recover"}
  PROVE  \A s \in Steps, k \in Sessions : <<s, session, k>> \notin undone \cup inflight
<1>1. session \in Sessions
  BY Running DEF ForwardPlaces
<1> QED
  BY <1>1 DEF Accounted, NothingYet, Bookkeeping, WriteAhead, LateIsTracked

\* Completing the current step: the step is in order, with a session of its own.
LEMMA Completing ==
  ASSUME TypeOK, NEW k, MarkCompleted(cur, k), cur \in Steps
  PROVE  /\ order'[cur] > 0 /\ src'[cur] = k
         /\ \A s \in Steps \ {cur} : order'[s] = order[s] /\ src'[s] = src[s]
<1>1. Cardinality({t \in Steps : order[t] > 0}) \in Nat
  BY CountTyped
<1> QED
  BY <1>1 DEF MarkCompleted, TypeOK, CompletedTyped

\* The forward loop completes what is committed, step by step.
LEMMA ReckonedForward ==
  TypeOK /\ Bookkeeping /\ Accounted /\ Reckoned /\ StepForward => Reckoned'
<1> SUFFICES ASSUME TypeOK, Bookkeeping, Accounted, Reckoned, StepForward PROVE Reckoned'
  OBVIOUS
<1> USE DEF Reckoned, ForwardPlaces, RecoveryPlaces, durable, world, progress, completed, unwinding
<1>1. \A s \in Steps, k \in Sessions : wal[s][k] = "COMMITTED" => wal'[s][k] = "COMMITTED"
  BY CommittedStays DEF Next, CoordinatorStep
<1>2. [Next]_vars
  BY DEF Next, CoordinatorStep
<1>3. UndoTraced' /\ UndoAttempted'
  <2>1. pc \in ForwardPlaces /\ UNCHANGED <<cwal, undone, session>>
        /\ (pc' \in ForwardPlaces \cup {"recover"} \/ (pc' = "done" /\ UNCHANGED inflight))
    BY OutcomeClassified
    DEF StepForward, SkipCommitted, DeadlinePasses, Complete, ResolveApproval, NoApprovalNeeded,
        ReuseResult, ClaimKey, MarkCompleted, Admit, FailFast, MarkRunning, MissingAdapter, Execute,
        PostconditionPasses, PostconditionFails, RecordSuccess, MarkUnknown, QueryFinds,
        QueryFindsNothing, QueryUndetermined, Retry, GiveUpForward, GiveUpUnwinding, HandleFailure,
        EscalateForward
  <2>2. \A s \in Steps : cwal'[s][session'] = "absent"
    BY <2>1 DEF Accounted, NothingYet
  <2>3. pc' = "done" => \A s \in Steps, k \in Sessions : <<s, session', k>> \notin undone' \cup inflight'
    BY <2>1, NothingUndone
  <2> QED
    BY <2>1, <2>2, <2>3 DEF UndoTraced, UndoAttempted
<1>4. CASE ReuseResult \/ RecordSuccess
  <2>1. cur \in Steps /\ session \in Sessions /\ cur \in Nat /\ session # 0
    BY <1>4, AtStep, Numbers DEF ReuseResult, RecordSuccess, Sessions
  <2>2. PICK k \in Sessions : MarkCompleted(cur, k) /\ wal[cur][k] = "COMMITTED"
                              /\ \A s \in Steps : reuse'[s] # reuse[s] => s = cur /\ reuse'[s] = k
    <3>1. CASE ReuseResult
      <4>1. reuse[cur] \in Sessions /\ wal[cur][reuse[cur]] = "COMMITTED"
        BY <2>1, <3>1, PlanAssumption
        DEF ReuseResult, KeyHolds, CompletedHasRow, TypeOK, StoresTyped, Sessions
      <4> QED
        BY <3>1, <4>1 DEF ReuseResult
    <3>2. CASE RecordSuccess
      BY <2>1, <3>2 DEF RecordSuccess, PlanFollowed, TypeOK, StoresTyped
    <3> QED
      BY <1>4, <3>1, <3>2
  <2>3. UNCHANGED wal /\ pc' = "loop" /\ cur' = cur + 1 /\ UNCHANGED skip
    BY <1>4 DEF ReuseResult, RecordSuccess, MarkCompleted
  <2>4. /\ order'[cur] > 0 /\ src'[cur] = k
        /\ \A s \in Steps \ {cur} : order'[s] = order[s] /\ src'[s] = src[s]
    BY <2>1, <2>2, Completing
  <2>5. CompletedHasRow'
    BY <2>2, <2>3, <2>4 DEF CompletedHasRow
  <2>6. PlanFollowed'
    BY <1>4, <2>1, <2>3, <2>4, Numbers DEF PlanFollowed, ReuseResult, RecordSuccess
  <2> QED
    BY <1>3, <2>5, <2>6
<1>5. CASE ~(ReuseResult \/ RecordSuccess)
  <2>1. UNCHANGED <<order, src, reuse, session>>
    BY <1>5
    DEF StepForward, SkipCommitted, DeadlinePasses, Complete, ResolveApproval, NoApprovalNeeded,
        ClaimKey, Admit, FailFast, MarkRunning, MissingAdapter, Execute,
        PostconditionPasses, PostconditionFails, MarkUnknown, QueryFinds,
        QueryFindsNothing, QueryUndetermined, Retry, GiveUpForward, GiveUpUnwinding, HandleFailure,
        EscalateForward
  <2>2. CompletedHasRow'
    BY <1>2, <2>1, CompletedFrame
  <2>3. UNCHANGED skip /\ pc \in ForwardPlaces
        /\ (UNCHANGED cur \/ (cur \in skip /\ cur' = cur + 1))
    BY <1>5
    DEF StepForward, SkipCommitted, DeadlinePasses, Complete, ResolveApproval, NoApprovalNeeded,
        ClaimKey, Admit, FailFast, MarkRunning, MissingAdapter, Execute,
        PostconditionPasses, PostconditionFails, MarkUnknown, QueryFinds,
        QueryFindsNothing, QueryUndetermined, Retry, GiveUpForward, GiveUpUnwinding, HandleFailure,
        EscalateForward
  <2>4. \A s \in Steps : s < cur' \/ s \in skip' => order'[s] > 0
    BY <2>1, <2>3, Numbers DEF PlanFollowed
  <2>5. pc' = "record" => wal'[cur'][session'] = "COMMITTED"
    <3>1. pc' = "record" => PostconditionPasses \/ QueryFinds
      BY <1>5, OutcomeClassified
      DEF StepForward, SkipCommitted, DeadlinePasses, Complete, ResolveApproval, NoApprovalNeeded,
          ClaimKey, Admit, FailFast, MarkRunning, MissingAdapter, Execute,
          PostconditionFails, MarkUnknown, QueryFindsNothing, QueryUndetermined, Retry,
          GiveUpForward, GiveUpUnwinding, HandleFailure, EscalateForward
    <3>2. ASSUME PostconditionPasses \/ QueryFinds PROVE wal'[cur'][session'] = "COMMITTED"
      <4>1. cur \in Steps /\ session \in Sessions /\ LogTyped
        BY <3>2, AtStep DEF PostconditionPasses, QueryFinds, TypeOK
      <4>2. wal[cur][session] # "absent" /\ SetRow(cur, session, "COMMITTED") /\ UNCHANGED <<cur, session>>
        BY <3>2 DEF PostconditionPasses, QueryFinds, Bookkeeping, AttemptTracked, Attempting
      <4> QED
        BY <4>1, <4>2, SetRowIs
    <3> QED
      BY <3>1, <3>2
  <2>6. pc' = "done" /\ run' = "COMPLETED" => \A s \in Steps : order'[s] > 0
    <3>1. pc' = "done" /\ run' = "COMPLETED" => Complete
      BY <1>5, OutcomeClassified
      DEF StepForward, SkipCommitted, DeadlinePasses, ResolveApproval, NoApprovalNeeded,
          ClaimKey, Admit, FailFast, MarkRunning, MissingAdapter, Execute, PostconditionPasses,
          PostconditionFails, MarkUnknown, QueryFinds, QueryFindsNothing, QueryUndetermined, Retry,
          GiveUpForward, GiveUpUnwinding, HandleFailure, EscalateForward
    <3>2. Complete => \A s \in Steps : order[s] > 0
      BY Numbers, PlanAssumption DEF Complete, PlanFollowed, Steps
    <3> QED
      BY <2>1, <3>1, <3>2
  <2> QED
    BY <1>3, <2>2, <2>4, <2>5, <2>6 DEF PlanFollowed
<1> QED
  BY <1>4, <1>5

\* The unwinding's rows and effects go together.
LEMMA ReckonedBackward ==
  TypeOK /\ Bookkeeping /\ Accounted /\ Reckoned /\ StepBackward => Reckoned'
<1> SUFFICES ASSUME TypeOK, Bookkeeping, Accounted, Reckoned, StepBackward PROVE Reckoned'
  OBVIOUS
<1> USE DEF Reckoned, RecoveryPlaces, durable, completed
<1>1. /\ session \in Sessions /\ LogTyped
      /\ UNCHANGED <<wal, reuse, order, src, session>>
      /\ pc' \in (RecoveryPlaces \ {"recover"}) \cup {"done"}
      /\ pc' = "done" => run' # "COMPLETED"
  BY Running
  DEF TypeOK, StepBackward, Recover, UndoBlocked, UndoStart, UndoMark, UndoExecute, UndoSucceeds,
      UndoFails, DeadLetter, NextAction, FinishRecovery, FinalState
<1>2. CompletedHasRow' /\ PlanFollowed'
  BY <1>1 DEF CompletedHasRow, PlanFollowed, ForwardPlaces
<1>3. ASSUME pc # "recover" PROVE UndoneInTurn /\ UndoTraced
  BY <1>3 DEF Accounted
<1>4. CASE Recover
  <2>1. UNCHANGED <<cwal, dlq, undone, inflight>> /\ pc = "recover" /\ pc' = "undo"
    BY <1>4 DEF Recover, world
  <2>2. \A s \in Steps : cwal[s][session] = "absent"
    BY <2>1 DEF Accounted, NothingYet
  <2> QED
    BY <1>1, <1>2, <2>1, <2>2, NothingUndone DEF UndoTraced, UndoAttempted
<1>5. CASE (\E s \in Steps : UndoBlocked(s)) \/ FinishRecovery
  <2>1. /\ UNCHANGED <<cwal, dlq, undone, inflight>> /\ pc = "undo" /\ pc' \in {"letter", "done"}
        /\ pc' = "letter" => undoing' \in todo
    BY <1>5 DEF UndoBlocked, NextToUndo, FinishRecovery, world
  <2>2. undoing = 0 /\ \A s \in todo : cwal[s][session] = "absent"
    BY <2>1 DEF Accounted, UndoneInTurn, TypeOK, UnwindingTyped, Steps
  <2>3. UndoTraced'
    BY <1>1, <2>1, <2>2 DEF UndoTraced, ThisSessionsLetter, Steps
  <2> QED
    BY <1>1, <1>2, <2>1, <2>2, <2>3 DEF UndoAttempted
<1>6. ASSUME NEW s \in Steps, UndoStart(s) PROVE Reckoned'
  <2>1. /\ OtherUndoRowsStay(s, session) /\ cwal'[s][session] = "PENDING" /\ undoing' = s
        /\ UNCHANGED <<dlq, undone, inflight>> /\ pc = "undo" /\ pc' = "undo_mark"
    BY <1>1, <1>6, WriteUndoIntentIs DEF UndoStart, world
  <2>2. undoing = 0
    BY <2>1 DEF Accounted, UndoneInTurn
  <2>3. UndoTraced'
    BY <1>1, <2>1, <2>2 DEF UndoTraced, ThisSessionsLetter, OtherUndoRowsStay, Steps
  <2> QED
    BY <1>2, <2>1, <2>3 DEF UndoAttempted
<1>7. CASE UndoMark \/ \E status \in {"FAILED", "UNKNOWN"} : UndoFails(status)
  <2>1. /\ undoing \in Steps /\ UNCHANGED <<dlq, undone, inflight, undoing>>
        /\ pc \in {"undo_mark", "undo_result"}
        /\ pc' \in {"undo_execute", "undo_mark", "letter"}
    BY <1>7, Unwinding DEF UndoMark, UndoFails, world, unwinding
  <2>2. PICK status : SetUndoRow(undoing, session, status) /\ status # "COMPENSATED"
    BY <1>7 DEF UndoMark, UndoFails
  <2>3. OtherUndoRowsStay(undoing, session) /\ cwal'[undoing][session] # "COMPENSATED"
    BY <1>1, <2>1, <2>2, SetUndoRowIs
  <2>4. UndoTraced'
    BY <1>1, <2>1, <2>3 DEF UndoTraced, ThisSessionsLetter, OtherUndoRowsStay
  <2>5. tries \in Nat /\ (pc' = "undo_execute" => tries' > 0) /\ (pc' = "letter" => tries' > 0)
    BY <1>7 DEF UndoMark, UndoFails, UndoAttempted, TypeOK, UnwindingTyped, unwinding
  <2> QED
    BY <1>2, <2>1, <2>4, <2>5 DEF UndoAttempted
<1>8. ASSUME NEW o \in Outcomes, UndoExecute(o) PROVE Reckoned'
  <2>1. /\ undoing \in Steps /\ src[undoing] \in Sessions
        /\ UNCHANGED <<cwal, dlq, undoing, tries>> /\ pc = "undo_execute" /\ pc' = "undo_result"
    BY <1>8, Unwinding DEF UndoExecute, unwinding
  <2>2. /\ undone \subseteq undone'
        /\ undone' \cup inflight' \subseteq undone \cup inflight \cup {<<undoing, session, src[undoing]>>}
    BY <1>8 DEF UndoExecute
  <2>3. UndoTraced'
    BY <1>1, <2>1, <2>2 DEF UndoTraced, ThisSessionsLetter
  <2>4. result' = "ok" => <<undoing, session, src[undoing]>> \in undone'
    BY <1>8, OkActs DEF UndoExecute
  <2> QED
    BY <1>1, <1>2, <2>1, <2>3, <2>4 DEF UndoAttempted
<1>9. CASE UndoSucceeds
  <2>1. /\ undoing \in Steps /\ undoing' = 0
        /\ UNCHANGED <<dlq, undone, inflight>> /\ pc = "undo_result" /\ pc' = "undo"
    BY <1>9, Unwinding DEF UndoSucceeds, NextAction, world
  <2>2. PICK u \in Steps : u = undoing
    BY <2>1
  <2>3. OtherUndoRowsStay(u, session) /\ cwal'[u][session] = "COMPENSATED"
    BY <1>1, <1>9, <2>2, SetUndoRowIs DEF UndoSucceeds, Bookkeeping, AttemptTracked
  <2>4. <<u, session, src[u]>> \in undone
    <3>1. CASE result = "ok"
      BY <2>1, <2>2, <3>1 DEF UndoAttempted
    <3>2. CASE "found" \in UndoAnswers(Undone(undoing, session))
      <4>1. Undone(u, session)
        BY <2>2, <3>2 DEF UndoAnswers, Answers
      <4> QED
        BY <1>1, <2>1, <4>1 DEF Undone, UndoTraced
    <3> QED
      BY <1>9, <3>1, <3>2 DEF UndoSucceeds
  <2>5. UndoTraced'
    BY <1>1, <2>1, <2>2, <2>3, <2>4 DEF UndoTraced, ThisSessionsLetter, OtherUndoRowsStay
  <2> QED
    BY <1>2, <2>1, <2>5 DEF UndoAttempted
<1>10. CASE DeadLetter
  <2>1. /\ undoing \in Steps /\ undoing' = 0 /\ dlq \subseteq dlq'
        /\ UNCHANGED <<cwal, undone, inflight>> /\ pc = "letter" /\ pc' = "undo"
    BY <1>10, Unwinding DEF DeadLetter, NextAction, world
  <2>2. PICK u \in Steps : u = undoing
    BY <2>1
  <2>3. cwal[u][session] \in {"absent", "COMPENSATED"} \/ ThisSessionsLetter(u)'
    BY <1>1, <1>10, <2>1, <2>2 DEF UndoAttempted, DeadLetter, UndoLetters, ThisSessionsLetter
  <2>4. UndoTraced'
    BY <1>1, <2>1, <2>2, <2>3 DEF UndoTraced, ThisSessionsLetter
  <2> QED
    BY <1>2, <2>1, <2>4 DEF UndoAttempted
<1> QED
  BY <1>4, <1>5, <1>6, <1>7, <1>8, <1>9, <1>10 DEF StepBackward

\* What a resume rebuilds is what the log holds.
LEMMA RebuiltReal ==
  /\ \A s \in CommittedSteps : Rebuilt[s] > 0 /\ wal[s][CommittedIn(s)] = "COMMITTED"
  /\ \A s \in Steps \ CommittedSteps : Rebuilt[s] = 0
<1>1. ASSUME NEW s \in CommittedSteps PROVE Rebuilt[s] > 0 /\ wal[s][CommittedIn(s)] = "COMMITTED"
  <2>1. s \in Steps /\ {t \in CommittedSteps : t <= s} \subseteq Steps
    BY DEF CommittedSteps
  <2>2. s \in {t \in CommittedSteps : t <= s}
    BY <2>1, PlanAssumption DEF Steps
  <2>3. Rebuilt[s] > 0
    BY <2>1, <2>2, CountPositive DEF Rebuilt
  <2> QED
    BY <2>3 DEF CommittedSteps, CommittedIn
<1> QED
  BY <1>1, RebuiltTyped

\* Sessions begin with what the log holds, or with nothing.
LEMMA ReckonedSessions ==
  TypeOK /\ Reckoned /\ (RunWorkflow \/ ResumeWorkflow \/ Crash \/ Reopen) => Reckoned'
<1> SUFFICES ASSUME TypeOK, Reckoned, RunWorkflow \/ ResumeWorkflow \/ Crash \/ Reopen
             PROVE  Reckoned'
  OBVIOUS
<1> USE DEF Reckoned
<1>1. UNCHANGED <<wal, reuse>> /\ pc' \in {"loop", "down"}
  BY DEF RunWorkflow, ResumeWorkflow, NewSession, Crash, Reopen, LoseProcess, durable
<1>2. UndoTraced' /\ UndoAttempted'
  BY <1>1 DEF UndoTraced, UndoAttempted, RecoveryPlaces
<1>3. CASE RunWorkflow \/ Crash \/ Reopen
  <2>1. \A s \in Steps : order'[s] = 0
    BY <1>3 DEF RunWorkflow, Crash, Reopen, LoseProcess
  <2>2. pc' = "loop" => cur' = 1 /\ skip' = {}
    BY <1>3 DEF RunWorkflow, NewSession, Crash, Reopen, LoseProcess
  <2> QED
    BY <1>1, <1>2, <2>1, <2>2, PlanAssumption DEF CompletedHasRow, PlanFollowed, ForwardPlaces, Steps
<1>4. CASE ResumeWorkflow
  <2>1. /\ cur' = 1 /\ skip' = CommittedSteps /\ order' = Rebuilt /\ pc' = "loop"
        /\ \A s \in CommittedSteps : src'[s] = CommittedIn(s)
    BY <1>4 DEF ResumeWorkflow, NewSession, CommittedSteps
  <2> QED
    BY <1>1, <1>2, <2>1, RebuiltReal, PlanAssumption
    DEF CompletedHasRow, PlanFollowed, ForwardPlaces, Steps
<1> QED
  BY <1>3, <1>4

\* Recovery settles what nobody counts on; late effects only add to the world.
LEMMA ReckonedWorld ==
  TypeOK /\ Bookkeeping /\ Reckoned /\ (Reconcile \/ Land \/ UNCHANGED vars) => Reckoned'
<1> SUFFICES ASSUME TypeOK, Bookkeeping, Reckoned, Reconcile \/ Land \/ UNCHANGED vars
             PROVE  Reckoned'
  OBVIOUS
<1> USE DEF Reckoned, durable, progress, completed, unwinding, world
<1>1. [Next]_vars
  BY DEF Next
<1>2. UNCHANGED <<reuse, order, src, session, pc, run, cur, skip, result, undoing, tries, dlq>>
  BY DEF Reconcile, Land, ReconcileRow, ReconcileUndoRow, LandEffect, LandUndo, vars
<1>3. CompletedHasRow'
  BY <1>1, <1>2, CompletedFrame
<1>4. PlanFollowed'
  <2>1. pc = "record" => cur \in Steps /\ session \in Sessions
    BY AtStep DEF ForwardPlaces
  <2> QED
    BY <1>1, <1>2, <2>1, CommittedStays DEF PlanFollowed
<1>5. UndoTraced' /\ UndoAttempted'
  <2>1. CASE Reconcile
    <3>1. pc = "down"
      BY <2>1 DEF Reconcile, ReconcileRow, ReconcileUndoRow
    <3> QED
      BY <1>2, <3>1 DEF UndoTraced, UndoAttempted, RecoveryPlaces
  <2>2. CASE Land \/ UNCHANGED vars
    <3>1. /\ UNCHANGED cwal /\ undone \subseteq undone'
          /\ \A s \in Steps, j \in Sessions, k \in Sessions :
               <<s, j, k>> \in undone' \cup inflight' => <<s, j, k>> \in undone \cup inflight
      BY <2>2 DEF Land, LandEffect, LandUndo, vars
    <3>2. pc \in (RecoveryPlaces \ {"recover"}) \cup {"done"} => session \in Sessions
      BY Running DEF RecoveryPlaces
    <3> QED
      BY <1>2, <3>1, <3>2 DEF UndoTraced, UndoAttempted, ThisSessionsLetter
  <2> QED
    BY <2>1, <2>2
<1> QED
  BY <1>3, <1>4, <1>5

\* THEOREM: what the coordinator believes it has done and undone is so, always.
THEOREM ReckonedInvariant == Spec => []Reckoned
<1>1. Init => Reckoned
  BY PlanAssumption
  DEF Init, Reckoned, CompletedHasRow, PlanFollowed, UndoTraced, UndoAttempted, ForwardPlaces,
      RecoveryPlaces
<1>2. TypeOK /\ Bookkeeping /\ Accounted /\ Reckoned /\ [Next]_vars => Reckoned'
  BY ReckonedForward, ReckonedBackward, ReckonedSessions, ReckonedWorld DEF Next, CoordinatorStep
<1> QED
  BY TypeCorrect, BookkeepingInvariant, AccountedInvariant, <1>1, <1>2, PTL DEF Spec

\* With a tool that keeps its contract, what is committed is completed or about to be.
LEMMA AllReckonedForward ==
  ASSUME TypeOK, Bookkeeping, Reckoned, AllReckoned, StepForward
  PROVE  AllReckoned'
<1> USE DEF durable, progress, completed, ForwardPlaces
<1>1. pc \in ForwardPlaces /\ UNCHANGED session
  BY DEF StepForward, SkipCommitted, DeadlinePasses, Complete, ResolveApproval, NoApprovalNeeded,
         ReuseResult, ClaimKey, Admit, FailFast, MarkRunning, MissingAdapter, Execute,
         PostconditionPasses, PostconditionFails, RecordSuccess, MarkUnknown, QueryFinds,
         QueryFindsNothing, QueryUndetermined, Retry, GiveUpForward, GiveUpUnwinding, HandleFailure,
         EscalateForward
<1>2. CASE PostconditionPasses \/ QueryFinds
  <2>1. cur \in Steps /\ session \in Sessions /\ LogTyped
    BY <1>2, AtStep DEF PostconditionPasses, QueryFinds, TypeOK
  <2>2. OtherRowsStay(cur, session) /\ pc' = "record" /\ UNCHANGED <<cur, order>> /\ pc # "record"
    BY <1>2, <2>1, SetRowIs DEF PostconditionPasses, QueryFinds
  <2> QED
    BY <1>1, <2>1, <2>2 DEF AllReckoned, OtherRowsStay
<1>3. CASE ReuseResult \/ RecordSuccess
  <2>1. cur \in Steps /\ UNCHANGED wal
    BY <1>3, AtStep DEF ReuseResult, RecordSuccess
  <2>2. PICK k : MarkCompleted(cur, k)
    BY <1>3 DEF ReuseResult, RecordSuccess
  <2> QED
    BY <1>1, <1>3, <2>1, <2>2, Completing DEF AllReckoned, ReuseResult, RecordSuccess
<1>4. CASE ~(PostconditionPasses \/ QueryFinds \/ ReuseResult \/ RecordSuccess)
  <2>1. pc # "record" /\ UNCHANGED order
    BY <1>4
    DEF StepForward, SkipCommitted, DeadlinePasses, Complete, ResolveApproval, NoApprovalNeeded,
        ClaimKey, Admit, FailFast, MarkRunning, MissingAdapter, Execute, PostconditionFails,
        MarkUnknown, QueryFindsNothing, QueryUndetermined, Retry, GiveUpForward, GiveUpUnwinding,
        HandleFailure, EscalateForward
  <2>2. \/ UNCHANGED wal
        \/ /\ cur \in Steps /\ session \in Sessions
           /\ \E status \in {"PENDING", "RUNNING", "UNKNOWN", "FAILED"} :
                wal' = [wal EXCEPT ![cur][session] = status]
    BY <1>4, AtStep
    DEF StepForward, SkipCommitted, DeadlinePasses, Complete, ResolveApproval, NoApprovalNeeded,
        ClaimKey, Admit, FailFast, MarkRunning, MissingAdapter, Execute, PostconditionFails,
        MarkUnknown, QueryFindsNothing, QueryUndetermined, Retry, GiveUpForward, GiveUpUnwinding,
        HandleFailure, EscalateForward, SetRow, WriteAtFirst, WriteIntent
  <2>3. \A s \in Steps, k \in Sessions : wal'[s][k] = "COMMITTED" => wal[s][k] = "COMMITTED"
    BY <2>2 DEF TypeOK, LogTyped
  <2> QED
    BY <1>1, <2>1, <2>3 DEF AllReckoned
<1> QED
  BY <1>2, <1>3, <1>4

\* A resume misses no committed row; a fresh start has none to miss.
LEMMA AllReckonedSessions ==
  ASSUME TypeOK, Bookkeeping, Ownership, ResumedOnly,
         RunWorkflow \/ ResumeWorkflow \/ Crash \/ Reopen
  PROVE  AllReckoned'
<1>1. CASE RunWorkflow
  <2>1. pc = "idle" /\ session = 0 /\ UNCHANGED wal
    BY <1>1 DEF RunWorkflow, NewSession, ResumedOnly, Bookkeeping, RowsInOrder, durable
  <2>2. \A s \in Steps, k \in Sessions : wal[s][k] = "absent"
    BY <2>1, PlanAssumption DEF Bookkeeping, RowsInOrder, Sessions
  <2> QED
    BY <2>1, <2>2 DEF AllReckoned
<1>2. CASE ResumeWorkflow
  <2>1. UNCHANGED wal /\ order' = Rebuilt
    BY <1>2 DEF ResumeWorkflow, NewSession, durable
  <2>2. ASSUME NEW s \in Steps, NEW k \in Sessions, wal[s][k] = "COMMITTED"
        PROVE  s \in CommittedSteps
    BY <2>2 DEF CommittedSteps, LastRow, Ownership, CommittedIsLast
  <2> QED
    BY <2>1, <2>2, RebuiltReal DEF AllReckoned
<1>3. CASE Crash \/ Reopen
  BY <1>3 DEF Crash, Reopen, LoseProcess, AllReckoned
<1> QED
  BY <1>1, <1>2, <1>3

\* THEOREM: with adapters that keep their contract, the coordinator of a live process
\* knows of every effect any session had.
THEOREM AllReckonedInvariant ==
  ASSUME Truthful, ResumedOnly
  PROVE  Spec => []AllReckoned
<1>1. Init => AllReckoned
  BY DEF Init, AllReckoned
<1>2. TypeOK /\ Bookkeeping /\ Ownership /\ Reckoned /\ AllReckoned /\ [Next]_vars => AllReckoned'
  <2> SUFFICES ASSUME TypeOK, Bookkeeping, Ownership, Reckoned, AllReckoned, [Next]_vars
               PROVE  AllReckoned'
    OBVIOUS
  <2>1. CASE StepForward
    BY <2>1, AllReckonedForward
  <2>2. CASE StepBackward
    <3>1. pc # "record" /\ pc \notin {"idle", "down"} /\ UNCHANGED <<wal, order>>
      BY <2>2
      DEF durable, completed, StepBackward, Recover, UndoBlocked, UndoStart, UndoMark, UndoExecute,
          UndoSucceeds, UndoFails, DeadLetter, NextAction, FinishRecovery
    <3> QED
      BY <3>1 DEF AllReckoned
  <2>3. CASE RunWorkflow \/ ResumeWorkflow \/ Crash \/ Reopen
    BY <2>3, AllReckonedSessions
  <2>4. CASE Reconcile \/ Land \/ UNCHANGED vars
    BY <2>4
    DEF Reconcile, Land, ReconcileRow, ReconcileUndoRow, LandEffect, LandUndo, vars, durable,
        progress, completed, AllReckoned
  <2> QED
    BY <2>1, <2>2, <2>3, <2>4 DEF Next, CoordinatorStep
<1> QED
  BY TypeCorrect, BookkeepingInvariant, OwnershipInvariant, ReckonedInvariant, <1>1, <1>2, PTL
  DEF Spec

\* THEOREM: with adapters that keep their contract, a run that ends ABORTED has left
\* nothing behind, whatever crashed and however often it was resumed.
THEOREM AbortedLeavesNothingCorrect ==
  ASSUME Truthful, ResumedOnly
  PROVE  Spec => []AbortedLeavesNothing
<1>1. TypeOK /\ Ownership /\ Accounted /\ Reckoned /\ AllReckoned => AbortedLeavesNothing
  <2> SUFFICES ASSUME TypeOK, Ownership, Accounted, Reckoned, AllReckoned,
                      run = "ABORTED", pc = "done",
                      NEW s \in Steps, NEW k \in Sessions, <<s, k>> \in eff, Comp[s] # "none"
               PROVE  \E j \in Sessions : <<s, j, k>> \in undone
    BY DEF AbortedLeavesNothing, TypeOK, WorldTyped
  <2>1. wal[s][k] = "COMMITTED"
    BY DEF Ownership, EffectsHaveRows, OnePending, Pending, Attempting
  <2>2. order[s] > 0
    BY <2>1 DEF AllReckoned
  <2>3. session \in Sessions /\ src[s] \in Sessions /\ k \in Nat /\ src[s] \in Nat
    BY <2>2, Running, PlanAssumption
    DEF TypeOK, PlacesTyped, CompletedTyped, Sessions
  <2>4. src[s] = k
    BY <2>1, <2>2, <2>3 DEF Reckoned, CompletedHasRow, Ownership, CommittedIsLast
  <2>5. cwal[s][session] = "COMPENSATED"
    BY <2>2 DEF Accounted, NothingSwept, Settled
  <2> QED
    BY <2>3, <2>4, <2>5 DEF Reckoned, UndoTraced
<1> QED
  BY TypeCorrect, OwnershipInvariant, AccountedInvariant, ReckonedInvariant, AllReckonedInvariant,
     <1>1, PTL

------------------------------------------------------------------------------
(* Dead letters *)

\* In a live process only the compensation in hand is neither verified nor filed.
InHand ==
  pc \notin {"idle", "down"} /\ session \in Sessions =>
    \A s \in Steps : UnfiledUndo(s, session) => Live /\ s = undoing

LEMMA UnfiledIsInHand == TypeOK /\ Accounted /\ Reckoned => InHand
<1> SUFFICES ASSUME TypeOK, Accounted, Reckoned, pc \notin {"idle", "down"}, session \in Sessions,
                    NEW s \in Steps, UnfiledUndo(s, session)
             PROVE  Live /\ s = undoing
  BY DEF InHand
<1>1. CASE pc \in (RecoveryPlaces \ {"recover"}) \cup {"done"}
  <2>1. cwal[s][session] \in {"absent", "COMPENSATED"} \/ ThisSessionsLetter(s)
        \/ (s = undoing /\ pc # "done")
    BY <1>1 DEF Reckoned, UndoTraced
  <2> QED
    BY <1>1, <2>1 DEF UnfiledUndo, ThisSessionsLetter, Live
<1>2. CASE pc \in ForwardPlaces \cup {"recover"}
  BY <1>2 DEF Accounted, NothingYet, UnfiledUndo
<1> QED
  BY <1>1, <1>2 DEF TypeOK, ProgressTyped

\* A run is idle only before its first session.
LEMMA IdleBefore ==
  ASSUME TypeOK, [Next]_vars, pc' = "idle"
  PROVE  pc = "idle" /\ UNCHANGED session
<1>1. ~RunWorkflow /\ ~ResumeWorkflow /\ ~Crash /\ ~Reopen
  BY DEF RunWorkflow, ResumeWorkflow, NewSession, Crash, Reopen, LoseProcess
<1>2. ~StepForward
  BY OutcomeClassified
  DEF StepForward, SkipCommitted, DeadlinePasses, Complete, ResolveApproval, NoApprovalNeeded,
      ReuseResult, ClaimKey, Admit, FailFast, MarkRunning, MissingAdapter, Execute,
      PostconditionPasses, PostconditionFails, RecordSuccess, MarkUnknown, QueryFinds,
      QueryFindsNothing, QueryUndetermined, Retry, GiveUpForward, GiveUpUnwinding, HandleFailure,
      EscalateForward, MarkCompleted
<1>3. ~StepBackward
  BY DEF StepBackward, Recover, UndoBlocked, UndoStart, UndoMark, UndoExecute, UndoSucceeds,
         UndoFails, DeadLetter, NextAction, FinishRecovery
<1>4. CASE Reconcile \/ Land \/ UNCHANGED vars
  BY <1>4 DEF Reconcile, ReconcileRow, ReconcileUndoRow, Land, LandEffect, LandUndo, vars, progress
<1> QED
  BY <1>1, <1>2, <1>3, <1>4 DEF Next, CoordinatorStep

\* Elsewhere nothing is begun and no letter removed; recovery settles only rows
\* that had come to nothing.
LEMMA UnfiledBefore ==
  ASSUME TypeOK, [Next]_vars, NEW s \in Steps, NEW k \in Sessions,
         k # session' \/ pc' \in {"idle", "down"}, UnfiledUndo(s, k)'
  PROVE  UnfiledUndo(s, k)
<1> USE DEF durable, UnfiledUndo
<1>1. CASE StepForward \/ RunWorkflow \/ ResumeWorkflow \/ Crash \/ Reopen \/ Land \/ UNCHANGED vars
  <2>1. UNCHANGED cwal /\ dlq \subseteq dlq'
    BY <1>1
    DEF StepForward, SkipCommitted, DeadlinePasses, Complete, ResolveApproval, NoApprovalNeeded,
        ReuseResult, ClaimKey, Admit, FailFast, MarkRunning, MissingAdapter, Execute,
        PostconditionPasses, PostconditionFails, RecordSuccess, MarkUnknown, QueryFinds,
        QueryFindsNothing, QueryUndetermined, Retry, GiveUpForward, GiveUpUnwinding, HandleFailure,
        EscalateForward, RunWorkflow, ResumeWorkflow, NewSession, Crash, Reopen, LoseProcess,
        Land, LandEffect, LandUndo, vars
  <2> QED
    BY <2>1
<1>2. CASE StepBackward
  <2>1. /\ session \in Sessions /\ UNCHANGED session /\ dlq \subseteq dlq'
        /\ pc' \notin {"idle", "down"}
    BY <1>2, Running
    DEF RecoveryPlaces, StepBackward, Recover, UndoBlocked, UndoStart, UndoMark, UndoExecute,
        UndoSucceeds, UndoFails, DeadLetter, NextAction, FinishRecovery
  <2>2. UNCHANGED cwal \/ \E u \in Steps : OtherUndoRowsStay(u, session)
    <3>1. CASE \E u \in Steps : UndoStart(u)
      BY <2>1, <3>1, WriteUndoIntentIs DEF UndoStart, TypeOK
    <3>2. CASE UndoMark \/ UndoSucceeds \/ \E status \in {"FAILED", "UNKNOWN"} : UndoFails(status)
      <4>1. undoing \in Steps
        BY <3>2, Unwinding DEF UndoMark, UndoSucceeds, UndoFails, RecoveryPlaces
      <4> QED
        BY <2>1, <3>2, <4>1, SetUndoRowIs DEF UndoMark, UndoSucceeds, UndoFails, TypeOK
    <3> QED
      BY <1>2, <3>1, <3>2
      DEF StepBackward, Recover, UndoBlocked, UndoExecute, DeadLetter, FinishRecovery
  <2> QED
    BY <2>1, <2>2 DEF OtherUndoRowsStay
<1>3. ASSUME NEW u \in Steps, NEW j \in Sessions, ReconcileRow(u, j) \/ ReconcileUndoRow(u, j)
      PROVE  UnfiledUndo(s, k)
  <2>1. UNCHANGED dlq
    BY <1>3 DEF ReconcileRow, ReconcileUndoRow
  <2>2. CASE ReconcileRow(u, j)
    BY <2>1, <2>2 DEF ReconcileRow
  <2>3. CASE ReconcileUndoRow(u, j)
    <3>1. cwal[u][j] \in Pending /\ \E status : SetUndoRow(u, j, status)
      BY <2>3 DEF ReconcileUndoRow, PendingUndoRows
    <3>2. OtherUndoRowsStay(u, j)
      BY <3>1, SetUndoRowIs DEF TypeOK
    <3> QED
      BY <2>1, <3>1, <3>2 DEF OtherUndoRowsStay, Pending
  <2> QED
    BY <1>3, <2>2, <2>3
<1> QED
  BY <1>1, <1>2, <1>3 DEF Next, CoordinatorStep, Reconcile

\* THEOREM: a session leaves at most one compensation that is neither verified nor
\* in the dead-letter queue, the one it was cut off in, whatever tools and crashes do.
THEOREM UndoneOrFiledCorrect == Spec => []UndoneOrFiled
<1>1. Init => UndoneOrFiled
  BY DEF Init, UndoneOrFiled, UnfiledUndo
<1>2. /\ TypeOK /\ UndoneOrFiled /\ [Next]_vars
      /\ InHand'
      => UndoneOrFiled'
  <2> SUFFICES ASSUME TypeOK, UndoneOrFiled, [Next]_vars, InHand',
                      NEW s \in Steps, NEW k \in Sessions, UnfiledUndo(s, k)'
               PROVE  /\ k = session' => pc' = "down" \/ (Live' /\ s = undoing')
                      /\ \A t \in Steps : UnfiledUndo(t, k)' => t = s
    BY DEF UndoneOrFiled
  <2>1. CASE k = session' /\ pc' \notin {"idle", "down"}
    <3>1. \A t \in Steps : UnfiledUndo(t, k)' => Live' /\ t = undoing'
      BY <2>1 DEF InHand
    <3> QED
      BY <3>1
  <2>2. CASE k # session' \/ pc' \in {"idle", "down"}
    <3>1. \A t \in Steps : UnfiledUndo(t, k)' => UnfiledUndo(t, k)
      BY <2>2, UnfiledBefore
    <3>2. pc' = "idle" => pc = "idle" /\ UNCHANGED session
      BY IdleBefore
    <3> QED
      BY <2>2, <3>1, <3>2 DEF UndoneOrFiled, Live, ForwardPlaces, RecoveryPlaces
  <2> QED
    BY <2>1, <2>2
<1> QED
  BY TypeCorrect, AccountedInvariant, ReckonedInvariant, UnfiledIsInHand, <1>1, <1>2, PTL DEF Spec

------------------------------------------------------------------------------
(* Unwindings that are not cut short *)

\* THEOREM: where no crash falls into an unwinding and a run that ended stays ended,
\* only the last session compensates.
THEOREM UnwoundLastInvariant ==
  ASSUME UnwindsOnce
  PROVE  Spec => []UnwoundLast
<1>1. Init => UnwoundLast
  BY DEF Init, UnwoundLast
<1>2. TypeOK /\ UnwoundLast /\ [Next]_vars => UnwoundLast'
  <2> SUFFICES ASSUME TypeOK, UnwoundLast, [Next]_vars PROVE UnwoundLast'
    OBVIOUS
  <2> USE DEF RecoveryPlaces, durable
  <2>1. CASE StepForward \/ RunWorkflow \/ ResumeWorkflow \/ Crash \/ Reopen \/ Recover
    <3>1. /\ UNCHANGED cwal
          /\ pc \in ForwardPlaces \cup {"idle", "down", "recover"}
      BY <2>1
      DEF UnwindsOnce, ForwardPlaces, StepForward, SkipCommitted, DeadlinePasses, Complete,
          ResolveApproval, NoApprovalNeeded, ReuseResult, ClaimKey, Admit, FailFast, MarkRunning,
          MissingAdapter, Execute, PostconditionPasses, PostconditionFails, RecordSuccess,
          MarkUnknown, QueryFinds, QueryFindsNothing, QueryUndetermined, Retry, GiveUpForward,
          GiveUpUnwinding, HandleFailure, EscalateForward, RunWorkflow, ResumeWorkflow, NewSession,
          Crash, Reopen, LoseProcess, Recover
    <3> QED
      BY <3>1 DEF UnwoundLast, ForwardPlaces
  <2>2. CASE StepBackward /\ ~Recover
    <3>1. /\ pc \in RecoveryPlaces \ {"recover"} /\ UNCHANGED session /\ session \in Sessions
          /\ \/ pc' \in RecoveryPlaces \ {"recover"}
             \/ pc' = "done" /\ run' \in {"ABORTED", "INCONSISTENT"}
      BY <2>2, Running
      DEF StepBackward, UndoBlocked, UndoStart, UndoMark, UndoExecute, UndoSucceeds, UndoFails,
          DeadLetter, NextAction, FinishRecovery, FinalState
    <3>2. UNCHANGED cwal \/ \E s \in Steps : OtherUndoRowsStay(s, session)
      <4>1. CASE \E s \in Steps : UndoStart(s)
        BY <3>1, <4>1, WriteUndoIntentIs DEF UndoStart, TypeOK
      <4>2. CASE UndoMark \/ UndoSucceeds \/ \E status \in {"FAILED", "UNKNOWN"} : UndoFails(status)
        <5>1. undoing \in Steps
          BY <4>2, Unwinding DEF UndoMark, UndoSucceeds, UndoFails
        <5> QED
          BY <3>1, <4>2, <5>1, SetUndoRowIs DEF UndoMark, UndoSucceeds, UndoFails, TypeOK
      <4> QED
        BY <2>2, <4>1, <4>2
        DEF StepBackward, UndoBlocked, UndoExecute, DeadLetter, FinishRecovery
    <3> QED
      BY <3>1, <3>2 DEF UnwoundLast, OtherUndoRowsStay
  <2>3. CASE Reconcile
    <3>1. pc = "down" /\ UNCHANGED <<session, pc, run>>
      BY <2>3 DEF Reconcile, ReconcileRow, ReconcileUndoRow
    <3>2. PendingUndoRows = {}
      BY <3>1 DEF UnwoundLast, PendingUndoRows, Pending
    <3> QED
      BY <2>3, <3>1, <3>2 DEF UnwoundLast, Reconcile, ReconcileRow, ReconcileUndoRow
  <2>4. CASE Land \/ UNCHANGED vars
    BY <2>4 DEF UnwoundLast, Land, LandEffect, LandUndo, vars
  <2> QED
    BY <2>1, <2>2, <2>3, <2>4 DEF Next, CoordinatorStep
<1> QED
  BY TypeCorrect, <1>1, <1>2, PTL DEF Spec

\* THEOREM: then a COMPLETED run's steps all have an effect, and all of them stand.
THEOREM CompletedStandsCorrect ==
  ASSUME UnwindsOnce
  PROVE  Spec => []CompletedStands
<1>1. TypeOK /\ Bookkeeping /\ Reckoned /\ UnwoundLast => CompletedStands
  <2> SUFFICES ASSUME TypeOK, Bookkeeping, Reckoned, UnwoundLast,
                      run = "COMPLETED", pc = "done", NEW s \in Steps
               PROVE  \E k \in Sessions : /\ <<s, k>> \in eff
                                          /\ \A j \in Sessions : <<s, j, k>> \notin undone
    BY DEF CompletedStands
  <2>1. order[s] > 0
    BY DEF Reckoned, PlanFollowed
  <2>2. src[s] \in Sessions
    BY <2>1, PlanAssumption DEF TypeOK, PlacesTyped, CompletedTyped, Sessions
  <2>3. <<s, src[s]>> \in eff
    BY <2>1, <2>2 DEF Reckoned, CompletedHasRow, Bookkeeping, CommittedIsReal
  <2>4. \A j \in Sessions : <<s, j, src[s]>> \notin undone
    BY <2>2 DEF Bookkeeping, WriteAhead, UnwoundLast, RecoveryPlaces
  <2> QED
    BY <2>2, <2>3, <2>4
<1> QED
  BY TypeCorrect, BookkeepingInvariant, ReckonedInvariant, UnwoundLastInvariant, <1>1, PTL
==============================================================================
