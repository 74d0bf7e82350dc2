--------------------------------- MODULE Trail ---------------------------------
(***************************************************************************)
(* The coordinator together with what it leaves behind for those who look   *)
(* at the run later: the events of the audit log and the records of         *)
(* WorkflowRun (step_executions, compensations).  The report, the assurance *)
(* pack, the flow view and the replay are functions of these (Report.tla).  *)
(*                                                                         *)
(* The audit log is a file of its own.  Its events are appended one by one, *)
(* most of them after the write-ahead log has been updated, so a crash may  *)
(* fall in between and the trail then misses what the log knows.  "owed"    *)
(* holds the events an action has still to append; the coordinator is       *)
(* sequential, so no other step of it is taken before they are on disk.     *)
(*                                                                         *)
(* Left out: events that neither the replay nor the scorer looks at         *)
(* (PLAN_CREATED, CHECKPOINT_CREATED, CIRCUIT_OPEN, RETRY, ESCALATION,      *)
(* COMPENSATION_START, COMPENSATION_FAILED) and the rows of compensations,  *)
(* which the trail keeps under an entity of their own ("comp:<step>").      *)
(***************************************************************************)
EXTENDS Coordinator, Sequences

CONSTANT Tier       \* Tier[s]: the tier of s, 1..3

ASSUME TierAssumption ==
  /\ Tier \in [Steps -> 1..3]
  /\ \A s \in Steps : Comp[s] # "none" => Tier[s] >= 2

VARIABLES
  owed,           \* events the last action has still to append
  frame,          \* what the replay of the appended events shows
  logged,         \* what the scorer reads off the appended events
  executions,     \* run.step_executions, the record of each step
  compensations,  \* run.compensations: outcome per step, or "none"
  recovering      \* RecoveryManager.recover: "no", "yes", or "done" in this process

trailVars == <<owed, frame, logged, executions, compensations, recovering>>
records == <<executions, compensations>>
allVars == <<vars, trailVars>>

R == INSTANCE Replay

Kinds == {"ACTION_FAILED", "ACTION_UNKNOWN", "RECONCILIATION_START",
          "CRASH_RECOVERY_START", "CRASH_RECOVERY_COMPLETE", "COMPENSATION_PLANNED",
          "APPROVAL_REQUESTED", "APPROVAL_GRANTED", "APPROVAL_DENIED",
          "POST_CONDITION_PASS", "POST_CONDITION_FAIL"}

Event(kind, s) == [event |-> kind, entity |-> s, key |-> "", value |-> ""]
RunEvent(kind) == Event(kind, 0)
\* The coordinator and RecoveryManager both write the verdict under "resolved".
Resolved(s, verdict) ==
  [event |-> "RECONCILIATION_RESULT", entity |-> s, key |-> "resolved", value |-> verdict]

\* The StepExecution of a step the loop has not reached, and of one it just did.
NotReached == [outcome |-> "not_reached", verified |-> "none", reconciled |-> FALSE,
               data |-> FALSE]
Reached == [NotReached EXCEPT !.outcome = "pending"]

NoRecords ==
  /\ executions' = [s \in Steps |-> NotReached]
  /\ compensations' = [s \in Steps |-> "none"]

------------------------------------------------------------------------------
(* Appending *)

\* What the scorer's single pass over the entries would have found so far.
Scanned(e) ==
  [kinds   |-> logged.kinds \cup ({e.event} \cap Kinds),
   intents |-> logged.intents \cup {s \in {e.entity} : e.event = "ACTION_INTENT_CREATED"},
   early   |-> logged.early \/ (e.event = "ACTION_START" /\ e.entity \notin logged.intents)]

Append1 ==
  /\ owed # <<>>
  /\ frame' = R!Apply(frame, Head(owed))
  /\ logged' = Scanned(Head(owed))
  /\ owed' = Tail(owed)
  /\ UNCHANGED <<vars, records, recovering>>

\* A step of the coordinator, and the events it then has to append.
Owes(events) == owed = <<>> /\ owed' = events /\ UNCHANGED <<frame, logged, recovering>>
Silent == Owes(<<>>)

TrailInit ==
  /\ Init
  /\ owed = <<>>
  /\ frame = R!EmptyFrame
  /\ logged = [kinds |-> {}, intents |-> {}, early |-> FALSE]
  /\ executions = [s \in Steps |-> NotReached]
  /\ compensations = [s \in Steps |-> "none"]
  /\ recovering = "no"

------------------------------------------------------------------------------
(* Starting a session *)

Run == pc = "idle" /\ RunWorkflow /\ Owes(<<RunEvent("WORKFLOW_START")>>) /\ NoRecords

\* recover() logs RECONCILIATION_START before it asks about a row.  What matters of
\* these is whether one was written before the first row is touched.
Served(rows) == {i \in rows : i[1] \notin Adapterless}
StartRecovery ==
  /\ pc = "down" /\ recovering = "no" /\ owed = <<>>
  /\ owed' = <<RunEvent("CRASH_RECOVERY_START")>>
             \o (IF Served(PendingRows \cup PendingUndoRows) = {} THEN <<>>
                 ELSE <<RunEvent("RECONCILIATION_START")>>)
  /\ recovering' = "yes"
  /\ UNCHANGED <<vars, frame, logged, records>>

RecoverRow(s, k) ==
  /\ recovering = "yes" /\ ReconcileRow(s, k)
  /\ Owes(IF s \in Adapterless THEN <<>>
          ELSE <<Resolved(s, IF wal'[s][k] = "COMMITTED" THEN "committed" ELSE "failed")>>)
  /\ UNCHANGED records

RecoverUndoRow(s, k) ==
  recovering = "yes" /\ ReconcileUndoRow(s, k) /\ Silent /\ UNCHANGED records

FinishReconciliation ==
  /\ recovering = "yes" /\ owed = <<>>
  /\ PendingRows = {} /\ PendingUndoRows = {}
  /\ owed' = <<RunEvent("CRASH_RECOVERY_COMPLETE")>>
  /\ recovering' = "done"
  /\ UNCHANGED <<vars, frame, logged, records>>

\* The recovering process dies too; what it wrote stays.
RecoveryDies ==
  /\ recovering # "no" /\ "recovery" \in CrashIn
  /\ recovering' = "no" /\ owed' = <<>>
  /\ UNCHANGED <<vars, frame, logged, records>>

Resume ==
  /\ recovering = "done" /\ ResumeWorkflow
  /\ owed = <<>> /\ owed' = <<RunEvent("WORKFLOW_RESUMED")>>
  /\ recovering' = "no"
  /\ NoRecords
  /\ UNCHANGED <<frame, logged>>

RunAgain ==
  /\ recovering # "yes" /\ pc # "idle" /\ RunWorkflow
  /\ owed = <<>> /\ owed' = <<RunEvent("WORKFLOW_START")>>
  /\ recovering' = "no"
  /\ NoRecords
  /\ UNCHANGED <<frame, logged>>

------------------------------------------------------------------------------
(* Going forward *)

Skip ==
  /\ SkipCommitted
  /\ Owes(<<Event("STEP_SKIPPED_RESUME", cur)>>)
  /\ executions' = [executions EXCEPT ![cur] = [Reached EXCEPT !.outcome = "success"]]
  /\ UNCHANGED compensations

TimeOut ==
  DeadlinePasses /\ executions[cur] = NotReached /\ Silent /\ UNCHANGED records

Finish == Complete /\ Owes(<<RunEvent("WORKFLOW_COMPLETE")>>) /\ UNCHANGED records

\* The head of _execute_step: the record is opened, then the approval requested.
Request ==
  /\ pc = "loop" /\ cur \in NeedsApproval \ skip /\ executions[cur] = NotReached
  /\ Owes(<<Event("APPROVAL_REQUESTED", cur)>>)
  /\ executions' = [executions EXCEPT ![cur] = Reached]
  /\ UNCHANGED <<vars, compensations>>

Decide(d) ==
  /\ ResolveApproval(d) /\ executions[cur] = Reached
  /\ Owes(<<Event(IF d = "granted" THEN "APPROVAL_GRANTED" ELSE "APPROVAL_DENIED", cur)>>)
  /\ UNCHANGED records

PassGate ==
  /\ NoApprovalNeeded /\ Silent
  /\ executions' = [executions EXCEPT ![cur] = Reached]
  /\ UNCHANGED compensations

\* The record of the current step once it is decided.
Succeeded == executions' = [executions EXCEPT ![cur].outcome = "success", ![cur].data = TRUE]
Failed == executions' = [executions EXCEPT ![cur].outcome = "failure"]

Reuse == ReuseResult /\ Silent /\ Succeeded /\ UNCHANGED compensations

Claim == (ClaimKey \/ Admit) /\ Silent /\ UNCHANGED records

StopAtBreaker == FailFast /\ Silent /\ Failed /\ UNCHANGED compensations

\* PIVOT_REACHED is logged before the pivot's tool is called.
Announcement ==
  <<Event("ACTION_INTENT_CREATED", cur)>>
  \o (IF cur = Pivot THEN <<Event("PIVOT_REACHED", cur)>> ELSE <<>>)
  \o <<Event("ACTION_START", cur)>>
Announce == MarkRunning /\ Owes(Announcement) /\ UNCHANGED records

StopAtAdapter == MissingAdapter /\ Silent /\ Failed /\ UNCHANGED compensations

\* A reported success is verified at once, and the verdict logged before the
\* write-ahead log hears of it.
Verdict(sees) ==
  CASE sees = "ok"                      -> "passed"
    [] sees \in {"phantom", "vetoed"}   -> "failed"
    [] OTHER                            -> executions[cur].verified
Call(o) ==
  /\ Execute(o)
  /\ Owes(IF o.sees = "ok" THEN <<Event("POST_CONDITION_PASS", cur)>>
          ELSE IF o.sees \in {"phantom", "vetoed"} THEN <<Event("POST_CONDITION_FAIL", cur)>>
          ELSE <<>>)
  /\ executions' = [executions EXCEPT ![cur].verified = Verdict(o.sees)]
  /\ UNCHANGED compensations

Judge == (PostconditionPasses \/ PostconditionFails) /\ Silent /\ UNCHANGED records

\* An effect the query found has its verdict logged first.
Succeed ==
  /\ RecordSuccess
  /\ Owes((IF result = "unknown" THEN <<Resolved(cur, "success")>> ELSE <<>>)
          \o <<Event("ACTION_COMPLETE", cur)>>)
  /\ Succeeded
  /\ UNCHANGED compensations

\* A bug: nobody is told that the tool is asked.
DoubtOnly(s) == <<Event("ACTION_UNKNOWN", s)>>
Doubt(s) == <<Event("ACTION_UNKNOWN", s), Event("RECONCILIATION_START", s)>>
LoseTrack ==
  /\ MarkUnknown
  /\ Owes(Doubt(cur))
  /\ executions' = [executions EXCEPT ![cur].outcome = "unknown"]
  /\ UNCHANGED compensations

Query ==
  /\ \/ QueryFinds /\ Silent
     \/ QueryFindsNothing /\ Owes(<<Resolved(cur, "not_found")>>)
     \/ QueryUndetermined /\ Owes(<<Resolved(cur, "unknown")>>)
  /\ executions' = [executions EXCEPT ![cur].reconciled = TRUE]
  /\ UNCHANGED compensations

\* A reconciled step is not reported as failed once more.
Failure == IF pc = "failed" THEN <<Event("ACTION_FAILED", cur)>> ELSE <<>>
TryAgain == Retry /\ Owes(Failure) /\ UNCHANGED records
GiveUp == (GiveUpForward \/ GiveUpUnwinding) /\ Owes(Failure) /\ Failed /\ UNCHANGED compensations

Escalate ==
  /\ EscalateForward
  /\ Owes(<<RunEvent("WORKFLOW_INCONSISTENT")>>)
  /\ compensations' = [compensations EXCEPT ![cur] = "failure"]
  /\ UNCHANGED executions

------------------------------------------------------------------------------
(* Unwinding *)

\* A tracked step without a compensation "succeeds" in being compensated.
NothingToUndo(s) == order[s] > 0 /\ Comp[s] = "none" /\ Tier[s] >= 2
Unwind ==
  /\ Recover
  /\ Owes(IF todo' = {} THEN <<>> ELSE <<RunEvent("COMPENSATION_PLANNED")>>)
  /\ compensations' = [s \in Steps |-> IF NothingToUndo(s) THEN "success"
                                       ELSE compensations[s]]
  /\ UNCHANGED executions

Undo ==
  /\ \/ \E s \in Steps : UndoBlocked(s) \/ UndoStart(s)
     \/ UndoMark
     \/ \E o \in Outcomes : UndoExecute(o)
     \/ \E status \in {"FAILED", "UNKNOWN"} : UndoFails(status)
  /\ Silent /\ UNCHANGED records

UndoDone ==
  /\ UndoSucceeds
  /\ Owes(<<Event("COMPENSATION_COMPLETE", undoing)>>)
  /\ compensations' = [compensations EXCEPT ![undoing] = "success"]
  /\ UNCHANGED executions

UndoGivenUp ==
  /\ DeadLetter /\ Silent
  /\ compensations' = [compensations EXCEPT ![undoing] = "failure"]
  /\ UNCHANGED executions

FinishUnwinding ==
  /\ FinishRecovery
  /\ Owes(<<RunEvent(IF run' = "ABORTED" THEN "WORKFLOW_ABORTED" ELSE "WORKFLOW_INCONSISTENT")>>)
  /\ UNCHANGED records

------------------------------------------------------------------------------
(* Crashes *)

\* Events not on disk yet are lost with the records.  A crash between the end of a
\* run and its last event leaves what a crash just before that end leaves.
Die ==
  /\ Crash
  /\ owed' = <<>>
  /\ NoRecords
  /\ UNCHANGED <<frame, logged, recovering>>

ComeBack == Reopen /\ Silent /\ NoRecords

Landing == Land /\ UNCHANGED trailVars

\* What the live process does, down to the last event it owes.
Working ==
  \/ Append1
  \/ Skip \/ TimeOut \/ Finish \/ Request \/ PassGate
  \/ \E d \in {"granted", "denied"} : Decide(d)
  \/ Reuse \/ Claim \/ StopAtBreaker \/ Announce \/ StopAtAdapter
  \/ \E o \in Outcomes : Call(o)
  \/ Judge \/ Succeed \/ LoseTrack \/ Query \/ TryAgain \/ GiveUp \/ Escalate
  \/ Unwind \/ Undo \/ UndoDone \/ UndoGivenUp \/ FinishUnwinding

TrailNext ==
  \/ Run \/ RunAgain \/ StartRecovery \/ FinishReconciliation \/ RecoveryDies \/ Resume
  \/ \E s \in Steps, k \in Sessions : RecoverRow(s, k) \/ RecoverUndoRow(s, k)
  \/ Working
  \/ Die \/ ComeBack \/ Landing

TrailSpec == TrailInit /\ [][TrailNext]_allVars

\* As in Coordinator: a live process keeps running, everything else may happen.
FairTrailSpec == TrailSpec /\ WF_allVars(Working)
==============================================================================
