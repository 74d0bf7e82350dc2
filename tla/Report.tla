-------------------------------- MODULE Report --------------------------------
(***************************************************************************)
(* What is said about a run once it is over: the evidence report with its   *)
(* score and status (reporting/evidence_report.py, scoring.py), the release *)
(* pack another team's pipeline reads (assurance.py), the break analysis of *)
(* the flow view (flow_view.py) and the replay of the audit log.  All of    *)
(* them are functions of the records, the trail, the dead-letter queue and  *)
(* the world summary; here they are set against what really happened.       *)
(*                                                                         *)
(* A report is made when the run has ended, and also when an adapter raised *)
(* CrashSignal inside a tool call: engine.run catches it and hands out the  *)
(* coordinator's records as they are.                                      *)
(*                                                                         *)
(* Abstracted: wording, timing, the tool inventory, redaction, rendering;   *)
(* the audit chain counts as valid (AuditLog.tla says when it is).          *)
(***************************************************************************)
EXTENDS Trail, FiniteSetsExt

CONSTANTS
  Charges,      \* steps that call the payment tool
  Risky         \* steps whose compensation declares risks of its own

ASSUME ReportAssumption == Charges \subseteq Steps /\ Risky \subseteq Steps

Ended == pc = "done" /\ owed = <<>>
\* Before the call, or after its side effect and before the answer.
Signalled == pc \in {"execute", "unknown"} /\ owed = <<>>

------------------------------------------------------------------------------
(* build_result *)

Consistent == run \in {"COMPLETED", "ABORTED"}
ExactRollback == ~pivotCrossed
FailedUndos == {s \in Steps : compensations[s] = "failure"}
ResidualRisks == FailedUndos \cup {s \in Risky : compensations[s] = "success"}
FailedAssertions == {s \in Steps : executions[s].verified = "failed"}
Payments == {i \in eff : i[1] \in Charges}

------------------------------------------------------------------------------
(* Scorer.score *)

Credit(earned, points) == IF earned THEN points ELSE 0
Has(kind) == kind \in logged.kinds

CompensationScore ==
  CASE FailedUndos = {}        -> 10
    [] run = "INCONSISTENT"    -> 6
    [] OTHER                   -> 0
TransactionIntegrity == Credit(~logged.early, 10) + Credit(Consistent, 10) + CompensationScore

FailuresHandled ==
  \/ ~Has("ACTION_FAILED") \/ Has("COMPENSATION_PLANNED")
  \/ run \in {"ABORTED", "COMPLETED", "INCONSISTENT"}
UnknownHandled == Has("ACTION_UNKNOWN") => Has("RECONCILIATION_START")
CrashHandled == Has("CRASH_RECOVERY_START") => Has("CRASH_RECOVERY_COMPLETE")
FailureRecovery ==
  Credit(FailuresHandled, 5) + Credit(UnknownHandled, 5) + Credit(CrashHandled, 5)
  + Credit(pivotCrossed => ~ExactRollback, 5)
  + Credit(FailedUndos = {} \/ run = "INCONSISTENT", 5)

\* Pivot detection, idempotency and fail-closed tools are credited to every plan.
ApprovalsResolved ==
  Has("APPROVAL_REQUESTED") => Has("APPROVAL_GRANTED") \/ Has("APPROVAL_DENIED")
SafetyControls == 15 + Credit(ApprovalsResolved, 5)

\* As are phantom detection and the world summary, which is never empty.
PostChecked ==
  \/ Has("POST_CONDITION_PASS") \/ Has("POST_CONDITION_FAIL")
  \/ \A s \in Steps : executions[s] = NotReached
Verification == Credit(PostChecked, 5) + 10

AuditEvidence == 10

Total == TransactionIntegrity + FailureRecovery + SafetyControls + Verification + AuditEvidence

------------------------------------------------------------------------------
(* _apply_floors *)

\* _is_charge_step asks for the result of the call, which a step skipped on resume
\* does not carry.
ChargeCommits == {s \in Charges : executions[s].outcome = "success" /\ executions[s].data}

\* A bug: one payment too many is let through.
OneToSpare == Cardinality(Payments) > Cardinality(ChargeCommits) + 1
DuplicatePayment ==
  IF ChargeCommits = {} THEN Cardinality(Payments) > 1
                        ELSE Cardinality(Payments) > Cardinality(ChargeCommits)

FloorViolations ==
  {f \in {"intent order"} : logged.early}
  \cup {f \in {"duplicate payment"} : DuplicatePayment}
  \cup {f \in {"rollback claim"} : pivotCrossed /\ ExactRollback}

\* A bug: compensations that failed are a condition, not a verdict.
NeverInconsistent ==
  CASE FloorViolations # {}                              -> "FAIL"
    [] FailedAssertions # {} \/ ResidualRisks # {}       -> "PASS_WITH_CONDITIONS"
    [] OTHER                                             -> "PASS"
ReportStatus ==
  CASE FloorViolations # {}                              -> "FAIL"
    [] FloorViolations = {} /\ run = "INCONSISTENT"      -> "INCONSISTENT"
    [] FloorViolations = {} /\ run # "INCONSISTENT"
       /\ FailedAssertions \cup ResidualRisks # {}       -> "PASS_WITH_CONDITIONS"
    [] OTHER                                             -> "PASS"

------------------------------------------------------------------------------
(* build_assurance_pack: the status goes through unchanged, floor violations and
   dead letters, whichever session filed them, become hard blockers. *)

ReleaseStatus == ReportStatus
HardBlockers == Cardinality(FloorViolations) + Cardinality(dlq)

------------------------------------------------------------------------------
(* build_flow_model and _analyze_break *)

OutcomeOf(s) == executions[s].outcome
CompOk == {s \in Steps : compensations[s] = "success"}
NodeStatus(s) == IF s \in CompOk /\ OutcomeOf(s) # "failure" THEN "compensated"
                                                             ELSE OutcomeOf(s)

Unclean == run \in {"ABORTED", "INCONSISTENT", "TIMED_OUT", "RUNNING", "WAITING_APPROVAL"}
Ran == {s \in Steps : executions[s] # NotReached}
Failures == {s \in Ran : OutcomeOf(s) = "failure"}
Unresolved == {s \in Ran : OutcomeOf(s) \in {"unknown", "pending"} /\ ~executions[s].reconciled}

\* A bug: only a step that failed is where a run breaks.
FirstFailure == IF Failures = {} THEN 0 ELSE Min(Failures)
\* 0 stands for None.
BreakStep ==
  CASE Failures # {}                                         -> Min(Failures)
    [] Failures = {} /\ Unclean /\ Unresolved # {}           -> Min(Unresolved)
    [] Failures \cup Unresolved = {} /\ Unclean /\ Ran # {}  -> Max(Ran)
    [] OTHER                                                 -> 0
Broke == BreakStep # 0 /\ run # "COMPLETED"

Phase == IF Pivot = 0 THEN "no-pivot"
         ELSE IF pivotCrossed \/ BreakStep > Pivot THEN "post-pivot" ELSE "pre-pivot"

\* A bug: a step some compensation was tried for is not listed.
NotTried == {s \in Steps : NodeStatus(s) = "success" /\ compensations[s] = "none" /\ Tier[s] >= 2}
Uncompensated ==
  {s \in Steps : Broke /\ NodeStatus(s) = "success" /\ s \notin CompOk /\ Tier[s] >= 2}

------------------------------------------------------------------------------
(* Properties *)

Acted(s) == \E k \in Sessions : <<s, k>> \in eff
Stands(s) == \E k \in Sessions : <<s, k>> \in eff /\ ~\E j \in Sessions : <<s, j, k>> \in undone
ActedTwice(s) == \E j, k \in Sessions : j # k /\ <<s, j>> \in eff /\ <<s, k>> \in eff

\* The replay of the whole log ends in the state the run ended in, and shows exactly
\* the steps whose effect stands as successful and the gate as it was decided: over
\* crashes that lost events, recoveries whose verdicts the fold does not read, and
\* compensations.  It never counts an effect that did not happen.
ReplayAgrees ==
  Ended =>
    /\ frame.workflow_state = run
    /\ pivotCrossed => frame.pivot_crossed
    /\ \A s \in Steps : frame.status[s] = "success" <=> Stands(s)
    /\ \A s \in Steps : frame.approval[s] \in {"granted", "denied"} => frame.approval[s] = approvals[s]
    /\ frame.side_effects <= Cardinality(eff) + Cardinality(undone)

\* A release pack tells the truth: a passing status means that every effect stands
\* (COMPLETED) or that all that could be undone was (ABORTED), and comes without a
\* hard blocker; any other status comes with one.
VerdictHonest ==
  Ended =>
    IF ReleaseStatus \in {"PASS", "PASS_WITH_CONDITIONS"}
    THEN /\ HardBlockers = 0
         /\ \/ run = "COMPLETED" /\ \A s \in Steps : Stands(s)
            \/ run = "ABORTED" /\ \A s \in Steps : Stands(s) => Comp[s] = "none"
    ELSE HardBlockers > 0

\* With one step that charges, the floor for duplicate payments is violated exactly
\* when the world was charged twice, whatever the tools and the callers do.
DuplicateCaught ==
  Ended \/ Signalled =>
    (("duplicate payment" \in FloorViolations) <=> \E s \in Charges : ActedTwice(s))

\* The scorer looks at kinds of events over all sessions, not at cases.  Still no run
\* that passes loses a point for integrity, recovery or safety to an event that a
\* crash swallowed or a case another session settled.
PassEarnsCredit ==
  Ended /\ ReportStatus \in {"PASS", "PASS_WITH_CONDITIONS"} =>
    TransactionIntegrity + FailureRecovery + SafetyControls = 75

(***************************************************************************)
(* What the coordinator promises (Saga.tla), read off the world, the        *)
(* dead-letter queue and the place of the program.                          *)
(***************************************************************************)
WorldOf(s) ==
  IF Stands(s) THEN "standing" ELSE IF Acted(s) THEN "undone" ELSE "none"
Course ==
  IF pc = "done" THEN run ELSE IF pc \in RecoveryPlaces THEN "back" ELSE "forward"

S == INSTANCE Saga WITH
       Undoable <- Undoable,
       effect <- [s \in Steps |-> WorldOf(s)],
       left <- {l.step : l \in dlq},
       course <- Course

\* A run whose process may die while steps are executed, and is resumed as often as
\* it takes, implements the saga: the world sees one pass in plan order, or one
\* that is taken back newest first, and the verdict says which.
ImplementsSaga == S!Spec

\* A broken run's analysis lists exactly the undoable effects that are still there.
LeftoversListed ==
  Ended /\ run # "COMPLETED" =>
    {s \in Uncompensated : Comp[s] # "none"} = {s \in Steps : Comp[s] # "none" /\ Stands(s)}

\* The break is located at the step the loop stopped at, and is called "pre-pivot"
\* only if the pivot never acted.
BreakLocated ==
  Ended /\ run # "COMPLETED" =>
    /\ Broke /\ BreakStep = cur
    /\ Phase = "pre-pivot" => ~Acted(Pivot)

\* Refuted (crash_passes.cfg): "crash leaves a pending side effect unreconciled
\* without explicit UNKNOWN state" overrides the score to FAIL.
UnreconciledFails ==
  Signalled /\ <<cur, session>> \in eff /\ wal[cur][session] \in {"PENDING", "RUNNING"} =>
    ReportStatus = "FAIL"

\* Refuted (replay_running.cfg): once crash recovery is complete, the frame shows no
\* step as running whose row has been reconciled as committed.
ReplayFollowsRecovery ==
  recovering = "done" /\ owed = <<>> =>
    \A s \in Steps : frame.status[s] = "running" =>
      ~\E k \in Sessions : wal[s][k] = "COMMITTED"

\* Refuted (false_alarm.cfg) for two charging steps and a resumed run.
NoFalseDuplicate ==
  Ended /\ "duplicate payment" \in FloorViolations => \E s \in Charges : ActedTwice(s)

\* Refuted (pack_contradicts.cfg): a pack that says PASS names no hard blocker, also
\* when a run that ended with a letter was resumed and completed.
PassHasNoBlocker ==
  Ended /\ ReleaseStatus = "PASS" => HardBlockers = 0
==============================================================================
