-------------------------------- MODULE Replay --------------------------------
(***************************************************************************)
(* replay.py: a run rebuilt from its audit log alone.  ReplayEngine folds   *)
(* the events from the left and keeps one frame per event; the frame of a   *)
(* prefix is the fold of that prefix, so one frame, updated as the log      *)
(* grows, stands for the whole timeline.                                    *)
(*                                                                         *)
(* An event is [event, entity, key, value]: its kind, the step (0 for the   *)
(* run), and the one payload field the fold may look at.                    *)
(*                                                                         *)
(* Abstracted: notes, tools, attempts and details, which nothing decides    *)
(* on, and the hash chain (AuditLog.tla).  A step no event names yet is     *)
(* shown as "pending".  The redrive events are left out: they are written   *)
(* after the run, see Redrive.tla.                                          *)
(***************************************************************************)
EXTENDS Naturals

CONSTANT Steps

WorkflowStates == {"PLANNED", "RUNNING", "RECOVERING", "COMPLETED", "ABORTED",
                   "INCONSISTENT"}
StepStatuses == {"pending", "running", "success", "failure", "unknown", "compensated"}
ApprovalStates == {"none", "requested", "granted", "denied"}

Frames == [workflow_state: WorkflowStates, pivot_crossed: BOOLEAN, side_effects: Nat,
           status: [Steps -> StepStatuses], approval: [Steps -> ApprovalStates]]

EmptyFrame ==
  [workflow_state |-> "PLANNED", pivot_crossed |-> FALSE, side_effects |-> 0,
   status |-> [s \in Steps |-> "pending"], approval |-> [s \in Steps |-> "none"]]

WorkflowStateAfter(state, e) ==
  CASE e.event \in {"WORKFLOW_START", "WORKFLOW_RESUMED"} -> "RUNNING"
    [] e.event = "CRASH_RECOVERY_START"  -> "RECOVERING"
    [] e.event = "WORKFLOW_COMPLETE"     -> "COMPLETED"
    [] e.event = "WORKFLOW_ABORTED"      -> "ABORTED"
    [] e.event = "WORKFLOW_INCONSISTENT" -> "INCONSISTENT"
    [] OTHER                             -> state

\* RECONCILIATION_RESULT: the fold looks for "outcome" or "resolution".
Outcome(e) == IF e.key \in {"outcome", "resolution"} THEN e.value ELSE ""

Reconciled(status, outcome) ==
  CASE outcome \in {"committed", "success"} -> "success"
    [] outcome \in {"failed", "failure"}    -> "failure"
    [] OTHER                                -> status

\* A bug: a skipped step is shown as it was left.
AsItWas(status) == status
\* A step an earlier session committed stays undone if it was undone since.
Skipped(status) == IF status = "compensated" THEN status ELSE "success"

StatusAfter(status, e) ==
  CASE e.event = "ACTION_START"          -> "running"
    [] e.event = "ACTION_COMPLETE"       -> "success"
    [] e.event = "ACTION_FAILED"         -> "failure"
    [] e.event = "ACTION_UNKNOWN"        -> "unknown"
    [] e.event = "RECONCILIATION_RESULT" -> Reconciled(status, Outcome(e))
    [] e.event = "COMPENSATION_COMPLETE" -> "compensated"
    [] e.event = "STEP_SKIPPED_RESUME"   -> Skipped(status)
    [] OTHER                             -> status

ApprovalAfter(approval, e) ==
  CASE e.event = "APPROVAL_REQUESTED" -> "requested"
    [] e.event = "APPROVAL_GRANTED"   -> "granted"
    [] e.event = "APPROVAL_DENIED"    -> "denied"
    [] OTHER                          -> approval

SideEffectsOf(e) == IF e.event \in {"ACTION_COMPLETE", "COMPENSATION_COMPLETE"} THEN 1 ELSE 0

\* _apply
Apply(frame, e) ==
  [workflow_state |-> WorkflowStateAfter(frame.workflow_state, e),
   pivot_crossed  |-> frame.pivot_crossed \/ e.event = "PIVOT_REACHED",
   side_effects   |-> frame.side_effects + SideEffectsOf(e),
   status   |-> [s \in Steps |-> IF s = e.entity THEN StatusAfter(frame.status[s], e)
                                 ELSE frame.status[s]],
   approval |-> [s \in Steps |-> IF s = e.entity THEN ApprovalAfter(frame.approval[s], e)
                                 ELSE frame.approval[s]]]
==============================================================================
