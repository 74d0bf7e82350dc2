--------------------------- MODULE TrailInvariants ---------------------------
(***************************************************************************)
(* What has to be true at every step for the reports to be right: how the   *)
(* records, the events on disk and those still owed keep up with the run.   *)
(* Together with the invariants of CoordinatorInvariants they are inductive *)
(* (SagaProofs).  No action is defined here.                               *)
(***************************************************************************)
EXTENDS Report, CoordinatorInvariants

Started == pc \notin {"idle", "down"}
\* The loop is over.
Stopped == pc \in RecoveryPlaces \cup {"done"}

(***************************************************************************)
(* Types.                                                                  *)
(***************************************************************************)
Written ==
  Kinds \cup {"WORKFLOW_START", "WORKFLOW_RESUMED", "WORKFLOW_COMPLETE", "WORKFLOW_ABORTED",
             "WORKFLOW_INCONSISTENT", "ACTION_INTENT_CREATED", "ACTION_START", "ACTION_COMPLETE",
             "PIVOT_REACHED", "STEP_SKIPPED_RESUME", "RECONCILIATION_RESULT",
             "COMPENSATION_COMPLETE"}
Events == [event: Written, entity: 0..N, key: {"", "resolved"},
           value: {"", "success", "committed", "failed", "not_found", "unknown"}]
Executions == [outcome: {"not_reached", "pending", "success", "failure", "unknown"},
               verified: {"none", "passed", "failed"}, reconciled: BOOLEAN, data: BOOLEAN]

TrailTypeOK ==
  /\ owed \in Seq(Events)
  /\ frame \in R!Frames
  /\ logged.kinds \subseteq Kinds /\ logged.early \in BOOLEAN
  /\ executions \in [Steps -> Executions]
  /\ compensations \in [Steps -> {"none", "success", "failure"}]
  /\ recovering \in {"no", "yes", "done"}

(***************************************************************************)
(* The records keep up with the run.  Holds whatever the tools, the         *)
(* environment and the callers do.                                         *)
(***************************************************************************)

\* A step is decided as soon as the loop leaves it, and not reached before.
RecordsFollow ==
  Started =>
    /\ \A s \in Steps : s < cur => executions[s].outcome = "success"
    /\ \A s \in Steps : s > cur => executions[s] = NotReached
    /\ cur \in Steps =>
         /\ pc = "loop" => executions[cur] \in {NotReached, Reached}
         /\ pc = "escalate" => executions[cur].outcome = "failure"
         /\ pc \in ForwardPlaces \ {"loop", "escalate"} =>
              executions[cur].outcome \in {"pending", "unknown"}
         /\ Stopped => \/ executions[cur] = Reached \/ executions[cur].outcome = "failure"
                       \/ executions[cur] = NotReached /\ "deadline" \in Faults

\* The run ends with a verdict, and not COMPLETED if it stopped at a step.
EndsDecided ==
  /\ pc \in ForwardPlaces => run = "RUNNING"
  /\ pc \in RecoveryPlaces => run # "COMPLETED"
  /\ pc = "done" => run \in {"COMPLETED", "ABORTED", "INCONSISTENT"}
  /\ Stopped => (run # "COMPLETED" <=> cur \in Steps)

\* A compensation under way, or about to be given up, is not on file as done.
UndoOpen ==
  pc \in {"undo_mark", "undo_execute", "undo_result", "letter"} =>
    cwal[undoing][session] # "COMPENSATED"

\* A compensation on record as failed has a letter; one on record as done, if there was
\* something to do, has a row that says so.
UndosRecorded ==
  /\ pc \in ForwardPlaces \cup {"recover"} \/ (pc = "done" /\ run = "COMPLETED") =>
       \A s \in Steps : compensations[s] = "none"
  /\ Stopped => \A s \in Steps :
       /\ compensations[s] = "failure" => HasLetter(session)
       /\ compensations[s] = "success" /\ Comp[s] # "none" => cwal[s][session] = "COMPENSATED"

Recorded == RecordsFollow /\ EndsDecided /\ UndoOpen /\ UndosRecorded

(***************************************************************************)
(* With adapters that keep their contract, for compensations too.           *)
(***************************************************************************)
UndoTruthful == Truthful /\ "blind_undo" \notin Faults

\* What was undone is on record as undone, or the process is about to find out.
UndosSeen ==
  Started =>
    \A s \in Steps, k \in Sessions :
      <<s, session, k>> \in undone =>
        /\ Comp[s] # "none"
        /\ \/ compensations[s] = "success"
           \/ pc = "undo_result" /\ s = undoing /\ result \in {"ok", "unknown"}

\* Where the loop stopped, it had completed what lies before and nothing else.
StoppedInPlan == Stopped => \A s \in Steps : order[s] > 0 <=> s < cur

(***************************************************************************)
(* The audit trail keeps up with the run.                                  *)
(***************************************************************************)
Owing == {owed[i] : i \in DOMAIN owed}
Due(kind) == \E e \in Owing : e.event = kind

Closing ==
  RunEvent(CASE run = "COMPLETED" -> "WORKFLOW_COMPLETE"
             [] run = "ABORTED"   -> "WORKFLOW_ABORTED"
             [] OTHER             -> "WORKFLOW_INCONSISTENT")

\* RecoveryManager works on a run only while no process runs it.
RecoveringDown == recovering # "no" => pc = "down"

\* A run that is over owes its last event, or shows its state.
StateShown ==
  pc = "done" =>
    /\ Owing \subseteq {Closing}
    /\ Owing = {} => frame.workflow_state = run

\* PIVOT_REACHED is on disk before the pivot's tool is called.
PivotShown ==
  /\ pc = "execute" /\ cur = Pivot =>
       frame.pivot_crossed \/ Event("PIVOT_REACHED", Pivot) \in Owing
  /\ pc \in {"verify", "unknown", "query"} /\ cur = Pivot => frame.pivot_crossed
  /\ pivotCrossed => frame.pivot_crossed
  /\ \A k \in Sessions : <<Pivot, k>> \in eff \cup inflight => frame.pivot_crossed

\* A decision is logged after it is on file, and it stays on file.
ApprovalsShown ==
  /\ \A s \in Steps : frame.approval[s] \in {"granted", "denied"} => frame.approval[s] = approvals[s]
  /\ \A e \in Owing :
       /\ e.event = "APPROVAL_GRANTED" => approvals[e.entity] = "granted"
       /\ e.event = "APPROVAL_DENIED" => approvals[e.entity] = "denied"

\* Side effects are counted after the log has them, one event each.
Counts(e) == R!SideEffectsOf(e) = 1
Counted == {i \in eff : wal[i[1]][i[2]] = "COMMITTED" /\ ~(pc = "record" /\ i = <<cur, session>>)}
CountedUndos == {u \in undone : cwal[u[1]][u[2]] = "COMPENSATED"}
EffectsCounted ==
  /\ \A i \in DOMAIN owed : Counts(owed[i]) => i = Len(owed)
  /\ frame.side_effects + (IF \E e \in Owing : Counts(e) THEN 1 ELSE 0)
       <= Cardinality(Counted) + Cardinality(CountedUndos)

TrailHonest == RecoveringDown /\ StateShown /\ PivotShown /\ ApprovalsShown /\ EffectsCounted

\* Each kind of event is owed at its place, about its step.
OwedInPlace ==
  \A e \in Owing :
    /\ e.event \in {"ACTION_START", "ACTION_FAILED", "ACTION_UNKNOWN"} =>
         /\ pc \in (ForwardPlaces \ {"loop"}) \cup {"recover"}
         /\ e.entity = cur
    /\ e.event \in {"ACTION_COMPLETE", "STEP_SKIPPED_RESUME"} =>
         pc = "loop" /\ e.entity \in Steps /\ e.entity < cur
    /\ e.event = "COMPENSATION_COMPLETE" =>
         pc = "undo" /\ e.entity \in Steps /\ Comp[e.entity] # "none"
         /\ compensations[e.entity] = "success"
    /\ e.event = "RECONCILIATION_RESULT" => e.key = "resolved"

\* The replay shows a step as successful once the loop has passed it, and as
\* compensated once its compensation is on record.
StepsShown ==
  \A s \in Steps :
    /\ frame.status[s] = "success" => \E k \in Sessions : wal[s][k] = "COMMITTED"
    /\ frame.status[s] = "compensated" =>
         Stopped /\ Comp[s] # "none" /\ compensations[s] = "success"
    /\ Started /\ s < cur =>
         \/ frame.status[s] \in {"success", "compensated"}
         \/ \E e \in Owing : e.entity = s /\ e.event \in {"ACTION_COMPLETE", "STEP_SKIPPED_RESUME"}
    /\ Stopped /\ Comp[s] # "none" /\ compensations[s] = "success" =>
         \/ frame.status[s] = "compensated"
         \/ \E e \in Owing : e.entity = s /\ e.event = "COMPENSATION_COMPLETE"

TrailComplete == OwedInPlace /\ StepsShown

(***************************************************************************)
(* What the scorer looks for comes in pairs.                               *)
(***************************************************************************)

\* An unknown outcome is logged together with its reconciliation.  If a crash falls in
\* between, its row is left to the recovery, which logs one before it touches a row.
UnknownPaired ==
  /\ Has("ACTION_UNKNOWN") /\ ~Has("RECONCILIATION_START") =>
       \/ pc # "down" /\ Due("RECONCILIATION_START")
       \/ /\ pc = "down" /\ Served(PendingRows) # {}
          /\ recovering = "yes" => Due("RECONCILIATION_START")
  /\ Due("ACTION_UNKNOWN") => pc = "query" /\ owed = Doubt(cur)
  /\ Due("RECONCILIATION_START") =>
       pc = "down" \/ (pc = "query" /\ wal[cur][session] = "UNKNOWN")
  /\ pc \in {"unknown", "query"} => cur \notin Adapterless

\* A recovery that began is finished before the run goes on.
RecoveryPaired ==
  Has("CRASH_RECOVERY_START") \/ Due("CRASH_RECOVERY_START") =>
    \/ Has("CRASH_RECOVERY_COMPLETE")
    \/ pc = "down" /\ (recovering = "done" => Due("CRASH_RECOVERY_COMPLETE"))

\* As long as nobody has decided anything, a step whose approval was requested is the
\* next that is not committed.
Decided == Has("APPROVAL_GRANTED") \/ Has("APPROVAL_DENIED")
Awaited(s) ==
  /\ s \in NeedsApproval
  /\ \A k \in Sessions : wal[s][k] = "absent"
  /\ \A t \in Steps : t < s => \E k \in Sessions : wal[t][k] = "COMMITTED"
ApprovalPaired ==
  /\ ~Decided =>
       /\ \A s \in NeedsApproval, k \in Sessions : wal[s][k] = "absent"
       /\ Started => \A s \in NeedsApproval : ~(s < cur)
       /\ pc \in ForwardPlaces \ {"loop"} /\ cur \in NeedsApproval =>
            pc = "claim" /\ Due("APPROVAL_GRANTED")
  /\ Due("APPROVAL_REQUESTED") => pc = "loop" /\ cur \in NeedsApproval
  /\ Has("APPROVAL_REQUESTED") /\ ~Decided =>
       \E s \in Steps :
         /\ Awaited(s)
         /\ \/ pc = "down"
            \/ pc = "loop" /\ cur <= s
            \/ pc = "claim" /\ cur = s
            \/ pc = "recover" /\ cur = s /\ Due("APPROVAL_DENIED")
==============================================================================
