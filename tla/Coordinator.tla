----------------------------- MODULE Coordinator -----------------------------
(***************************************************************************)
(* One AATM run: runtime/coordinator.py drives the steps of a saga plan,    *)
(* compensation/engine.py unwinds them, runtime/recovery.py reconciles the  *)
(* write-ahead log after a crash, and engine.py resumes the run forward in  *)
(* a new process.  The outside world (the adapters' tools) is the set of    *)
(* side effects that really happened.                                      *)
(*                                                                         *)
(* The coordinator is one sequential process: an action is the code between *)
(* two durable writes or between two awaits, and pc names the place where   *)
(* the process stands.  A crash may fall on every such place.  A crash      *)
(* between two durable writes of one action leaves a state that a crash     *)
(* before or after a neighbouring action leaves as well.                    *)
(*                                                                         *)
(* Abstracted: parameters and results (a result is the session whose intent *)
(* produced it), the audit log and checkpoints (written, never read by the  *)
(* control modelled here), metrics, backoff delays.                         *)
(*                                                                         *)
(* A session is one process working on the run.  Each builds its own        *)
(* coordinator, with fresh intent ids: <<s, k>> stands for the forward      *)
(* intent of step s in session k, and for its "comp:" twin in cwal.         *)
(***************************************************************************)
EXTENDS Integers, FiniteSets, Breaker

CONSTANTS
  N,                \* number of steps, in the plan's topological order
  Pivot,            \* the pivot step, 0 when the plan has none
  Retryable,        \* steps whose reversibility is RETRYABLE
  NeedsApproval,    \* steps with approval_required
  Keyed,            \* steps with an idempotency_key expression
  Adapterless,      \* steps whose tool no adapter serves
  Comp,             \* Comp[s]: "none", "tool" or "manual", as _mark_completed sees it:
                    \* a tier-1 step is "none" even with a manual escalation
  Tools, Tool,      \* Tool[s]: the tool of s (the breaker is per tool)
  MaxAttempts,      \* MaxAttempts[s]: retry.max_attempts of s
  MaxUndoAttempts,  \* failure_policy.max_compensation_retries
  MaxSessions,      \* bound: processes that ever work on the run
  Faults,           \* what the environment may do, see FaultKinds
  CrashIn,          \* phases a crash may hit: {"forward", "recovery"}
  Reentry           \* calls that may follow a finished run: {"resume", "run"}

Steps == 1..N
Sessions == 1..MaxSessions

(***************************************************************************)
(* phantom      a tool reports success and has done nothing                *)
(* vetoed       a tool acts, and a declared postcondition rejects it       *)
(* dirty        a tool acts and reports a failure (HTTP 5xx, an exception) *)
(* late         a request given up as timed out is carried out later       *)
(* blind        a status query fails and is reported as found = False      *)
(* blind_undo   a status query does not know compensating intents          *)
(*              (mock_payment.query_status looks up charges only)          *)
(* vague        a status query finds the intent, not yet successful        *)
(* stale        a compensation's mapping does not resolve                  *)
(* deadline     the workflow's timeout_seconds may run out                 *)
(* An adapter without phantom..vague is one that keeps the promises of     *)
(* docs/adapter-contract.md, but for the lies verification is there for.   *)
(***************************************************************************)
FaultKinds == {"phantom", "vetoed", "dirty", "late", "blind", "blind_undo",
               "vague", "stale", "deadline"}

ASSUME PlanAssumption ==
  /\ N \in Nat \ {0}
  /\ Pivot \in 0..N
  /\ Retryable \subseteq Steps
  /\ NeedsApproval \subseteq Steps
  /\ Keyed \subseteq Steps
  /\ Adapterless \subseteq Steps
  /\ Comp \in [Steps -> {"none", "tool", "manual"}]
  /\ Tool \in [Steps -> Tools]
  /\ MaxAttempts \in [Steps -> Nat \ {0}]
  /\ MaxUndoAttempts \in Nat \ {0}
  /\ MaxSessions \in Nat \ {0}

ASSUME EnvironmentAssumption ==
  /\ Faults \subseteq FaultKinds
  /\ CrashIn \subseteq {"forward", "recovery"}
  /\ Reentry \subseteq {"resume", "run"}

VARIABLES
  (* durable: the run's SQLite and JSON-lines files *)
  wal,          \* wal[s][k]: status of the row of forward intent <<s, k>>
  cwal,         \* cwal[s][k]: status of the row of its compensation
  approvals,    \* approvals[s]: the latest recorded decision
  reuse,        \* reuse[s]: session whose success the idempotency key holds, or 0
  dlq,          \* dead letters
  session,      \* number of processes started so far
  (* the outside world *)
  eff,          \* forward intents whose effect took place
  undone,       \* <<s, j, k>>: session j's compensation of s undid intent <<s, k>>
  inflight,     \* requests given up by the caller that may still be carried out
  (* volatile: the coordinator object of the live process *)
  pc,
  run,          \* WorkflowRun.state
  cur,          \* the step the loop is at
  attempt,      \* its attempts so far
  result,       \* what its tool returned
  skip,         \* steps found committed by an earlier session
  order,        \* order[s]: completion order of s in this session, or 0
  src,          \* src[s]: session whose result s completed with, or 0
  pivotCrossed,
  breaker,
  todo,         \* completed actions still to be compensated
  undoing,      \* the one being compensated, or 0
  tries,        \* attempts at it
  clean         \* no compensation has failed (~any_inconsistent)

durable == <<wal, cwal, approvals, reuse, dlq>>
world == <<eff, undone, inflight>>
progress == <<cur, attempt, result, skip>>
completed == <<order, src, pivotCrossed>>
unwinding == <<todo, undoing, tries, clean>>
vars == <<durable, session, world, pc, run, progress, completed, breaker, unwinding>>

------------------------------------------------------------------------------
Pending == {"PENDING", "RUNNING", "UNKNOWN", "COMPENSATING"}
Statuses == Pending \cup {"absent", "COMMITTED", "FAILED", "COMPENSATED", "ESCALATED"}

ForwardPlaces == {"loop", "claim", "admit", "mark", "execute", "verify", "record",
                  "unknown", "query", "failed", "unresolved", "escalate"}
RecoveryPlaces == {"recover", "undo", "undo_mark", "undo_execute", "undo_result",
                   "letter"}
Live == pc \in ForwardPlaces \cup RecoveryPlaces

Letters == [step: Steps, session: Sessions, kind: {"blocked", "exhausted", "forward"}]

\* A bug: the first row of a step decides.
FirstRow(s, k) ==
  /\ wal[s][k] # "absent"
  /\ \A j \in Sessions : j < k => wal[s][j] = "absent"

\* Rows are appended in session order, so the row _seed_from_durable_state keeps
\* for a step ("last WAL write wins") is the one of the latest session that has one.
LastRow(s, k) ==
  /\ wal[s][k] # "absent"
  /\ \A j \in Sessions : j > k => wal[s][j] = "absent"

CommittedSteps == {s \in Steps : \E k \in Sessions : LastRow(s, k) /\ wal[s][k] = "COMMITTED"}
CommittedIn(s) == CHOOSE k \in Sessions : LastRow(s, k) /\ wal[s][k] = "COMMITTED"

\* Two bugs: a row whose call had begun is left alone; terminal rows are asked for too.
PendingRowsNotRunning ==
  {i \in Steps \X Sessions : wal[i[1]][i[2]] \in Pending \ {"RUNNING"}}
AllRows == {i \in Steps \X Sessions : wal[i[1]][i[2]] # "absent"}

PendingRows == {i \in Steps \X Sessions : wal[i[1]][i[2]] \in Pending}
PendingUndoRows == {i \in Steps \X Sessions : cwal[i[1]][i[2]] \in Pending}

\* write_intent inserts a row; update_status changes one that exists.
WriteIntent(s, k) == wal' = [wal EXCEPT ![s][k] = "PENDING"]
WriteUndoIntent(s, k) == cwal' = [cwal EXCEPT ![s][k] = "PENDING"]
SetRow(s, k, status) ==
  wal' = IF wal[s][k] = "absent" THEN wal ELSE [wal EXCEPT ![s][k] = status]
SetUndoRow(s, k, status) ==
  cwal' = IF cwal[s][k] = "absent" THEN cwal ELSE [cwal EXCEPT ![s][k] = status]

------------------------------------------------------------------------------
(* What the outside world may answer. *)

\* Outcomes of execute(): what the caller sees, and whether the tool acts.
Outcomes ==
  {[sees |-> "ok", acts |-> "yes"],
   [sees |-> "transient", acts |-> "no"], [sees |-> "permanent", acts |-> "no"],
   [sees |-> "unknown", acts |-> "yes"], [sees |-> "unknown", acts |-> "no"]}
  \cup {o \in {[sees |-> "phantom", acts |-> "no"]} : "phantom" \in Faults}
  \cup {o \in {[sees |-> "vetoed", acts |-> "yes"]} : "vetoed" \in Faults}
  \cup {o \in {[sees |-> "transient", acts |-> "yes"],
               [sees |-> "permanent", acts |-> "yes"]} : "dirty" \in Faults}
  \cup {o \in {[sees |-> "unknown", acts |-> "later"]} : "late" \in Faults}

\* Answers of query_status() for an intent that did (or did not) take effect.
Answers(happened) ==
  {IF happened THEN "found" ELSE "absent"}
  \cup {a \in {"absent"} : "blind" \in Faults}
  \cup {a \in {"undetermined"} : happened /\ "vague" \in Faults}

UndoAnswers(happened) == Answers(happened) \cup {a \in {"absent"} : "blind_undo" \in Faults}

Undone(s, j) == \E k \in Sessions : <<s, j, k>> \in undone

------------------------------------------------------------------------------
Init ==
  /\ wal = [s \in Steps |-> [k \in Sessions |-> "absent"]]
  /\ cwal = [s \in Steps |-> [k \in Sessions |-> "absent"]]
  /\ approvals = [s \in Steps |-> "none"]
  /\ reuse = [s \in Steps |-> 0]
  /\ dlq = {}
  /\ session = 0
  /\ eff = {} /\ undone = {} /\ inflight = {}
  /\ pc = "idle"
  /\ run = "PLANNED"
  /\ cur = 1 /\ attempt = 0 /\ result = "none" /\ skip = {}
  /\ order = [s \in Steps |-> 0]
  /\ src = [s \in Steps |-> 0]
  /\ pivotCrossed = FALSE
  /\ breaker = [t \in Tools |-> FreshToolState]
  /\ todo = {} /\ undoing = 0 /\ tries = 0 /\ clean = TRUE

\* A new coordinator object whose loop is about to look at the first step.
NewSession ==
  /\ session < MaxSessions
  /\ session' = session + 1
  /\ pc' = "loop"
  /\ run' = "RUNNING"
  /\ cur' = 1 /\ attempt' = 0 /\ result' = "none"
  /\ breaker' = [t \in Tools |-> FreshToolState]
  /\ todo' = {} /\ undoing' = 0 /\ tries' = 0 /\ clean' = TRUE
  /\ UNCHANGED <<durable, world>>

\* run_workflow: nothing is read back, no step is skipped.  Engine.run accepts a
\* run_id, so a caller may also run an id again ("run" \in Reentry).
RunWorkflow ==
  /\ pc = "idle" \/ (pc \in {"done", "down"} /\ "run" \in Reentry)
  /\ NewSession
  /\ skip' = {}
  /\ order' = [s \in Steps |-> 0]
  /\ src' = [s \in Steps |-> 0]
  /\ pivotCrossed' = FALSE

\* A bug: only what this session completes is tracked.
NothingRebuilt == [s \in Steps |-> 0]
\* _seed_from_durable_state rebuilds completion tracking from the log, in plan order.
Rebuilt == [s \in Steps |-> IF s \in CommittedSteps
                            THEN Cardinality({t \in CommittedSteps : t <= s}) ELSE 0]
\* A bug: the pivot of an earlier session is forgotten.
PivotForgotten == FALSE
PivotCommitted == Pivot \in CommittedSteps

\* resume_workflow, after RecoveryManager.recover went through the pending rows.
ResumeWorkflow ==
  /\ pc = "down"
  /\ PendingRows = {} /\ PendingUndoRows = {}
  /\ NewSession
  /\ skip' = CommittedSteps
  /\ order' = Rebuilt
  /\ src' = [s \in Steps |-> IF s \in CommittedSteps THEN CommittedIn(s) ELSE 0]
  /\ pivotCrossed' = PivotCommitted

------------------------------------------------------------------------------
(* _run_step_loop *)

SkipCommitted ==
  /\ pc = "loop" /\ cur \in skip
  /\ cur' = cur + 1
  /\ UNCHANGED <<durable, session, world, pc, run, attempt, result, skip, completed,
                 breaker, unwinding>>

\* The TIMED_OUT state is overwritten by _recover before anybody can see it.
DeadlinePasses ==
  /\ pc = "loop" /\ cur \in Steps \ skip
  /\ "deadline" \in Faults
  /\ run' = "TIMED_OUT"
  /\ pc' = "recover"
  /\ UNCHANGED <<durable, session, world, progress, completed, breaker, unwinding>>

Complete ==
  /\ pc = "loop" /\ cur > N
  /\ run' = "COMPLETED"
  /\ pc' = "done"
  /\ UNCHANGED <<durable, session, world, progress, completed, breaker, unwinding>>

\* A bug: any decision on record opens the gate.
AnyDecision(decision) == TRUE
Granted(decision) == decision = "granted"

\* The gate of _execute_step.  A decision on record, from whichever session, wins;
\* otherwise the deadline (a denial) or the callback decides, and is recorded.
ResolveApproval(decision) ==
  /\ pc = "loop" /\ cur \in NeedsApproval \ skip
  /\ approvals[cur] \in {"none", decision}
  /\ approvals' = [approvals EXCEPT ![cur] = decision]
  /\ IF Granted(decision) THEN pc' = "claim" /\ run' = "RUNNING"
                             ELSE pc' = "recover" /\ run' = "WAITING_APPROVAL"
  /\ UNCHANGED <<wal, cwal, reuse, dlq, session, world, progress, completed, breaker,
                 unwinding>>

NoApprovalNeeded ==
  /\ pc = "loop" /\ cur \in Steps \ (skip \cup NeedsApproval)
  /\ pc' = "claim"
  /\ UNCHANGED <<durable, session, world, run, progress, completed, breaker, unwinding>>

\* _mark_completed, then on to the next step.
MarkCompleted(s, k) ==
  /\ order' = [order EXCEPT ![s] = Cardinality({t \in Steps : order[t] > 0}) + 1]
  /\ src' = [src EXCEPT ![s] = k]
  /\ cur' = cur + 1
  /\ attempt' = 0
  /\ result' = "none"
  /\ pc' = "loop"
  /\ UNCHANGED skip

\* A bug: a key is only good for the session that recorded it.
KeyOfThisSession(s) == s \in Keyed /\ reuse[s] = session
KeyHolds(s) == s \in Keyed /\ reuse[s] # 0

\* Idempotency claim.  Only a recorded success changes what happens next; a claim
\* without an outcome is ignored and the step goes on with its fresh intent.
ReuseResult ==
  /\ pc = "claim" /\ KeyHolds(cur)
  /\ MarkCompleted(cur, reuse[cur])
  /\ UNCHANGED <<durable, session, world, run, pivotCrossed, breaker, unwinding>>

ClaimKey ==
  /\ pc = "claim" /\ ~KeyHolds(cur)
  /\ pc' = "admit"
  /\ UNCHANGED <<durable, session, world, run, progress, completed, breaker, unwinding>>

------------------------------------------------------------------------------
(* The retry loop of _execute_step *)

\* A bug: the row is written from the second attempt on.
WriteOnRetry == IF attempt = 1 THEN WriteIntent(cur, session) ELSE UNCHANGED wal
WriteAtFirst == IF attempt = 0 THEN WriteIntent(cur, session) ELSE UNCHANGED wal

\* The breaker admits the attempt.  The first one creates the row.
Admit ==
  /\ pc = "admit"
  /\ \E cooled \in BOOLEAN : Allows(breaker[Tool[cur]], cooled)
  /\ breaker' = [breaker EXCEPT ![Tool[cur]] = AfterAllow(@)]
  /\ attempt' = attempt + 1
  /\ WriteAtFirst
  /\ pc' = "mark"
  /\ UNCHANGED <<cwal, approvals, reuse, dlq, session, world, run, cur, result, skip,
                 completed, unwinding>>

\* _on_circuit_open: the row is created if need be, FAILED, and the run unwinds.
FailFast ==
  /\ pc = "admit"
  /\ \E cooled \in BOOLEAN : ~Allows(breaker[Tool[cur]], cooled)
  /\ attempt' = attempt + 1
  /\ wal' = [wal EXCEPT ![cur][session] = "FAILED"]
  /\ pc' = "recover"
  /\ UNCHANGED <<cwal, approvals, reuse, dlq, session, world, run, cur, result, skip,
                 completed, breaker, unwinding>>

MarkRunning ==
  /\ pc = "mark"
  /\ SetRow(cur, session, "RUNNING")
  /\ pc' = "execute"
  /\ UNCHANGED <<cwal, approvals, reuse, dlq, session, world, run, progress, completed,
                 breaker, unwinding>>

MissingAdapter ==
  /\ pc = "execute" /\ cur \in Adapterless
  /\ SetRow(cur, session, "FAILED")
  /\ pc' = "recover"
  /\ UNCHANGED <<cwal, approvals, reuse, dlq, session, world, run, progress, completed,
                 breaker, unwinding>>

\* A bug: a timeout is taken for a failure.
TimeoutIsFailure(sees) == IF sees \in {"ok", "phantom", "vetoed"} THEN "verify" ELSE "failed"
Classified(sees) ==
  CASE sees \in {"ok", "phantom", "vetoed"} -> "verify"
    [] sees = "unknown"                     -> "unknown"
    [] sees \in {"transient", "permanent"}  -> "failed"

\* _execute_with_timeout.  A tool acts once per intent id.  The pivot counts as
\* crossed as soon as its tool reports success, before verification.
Execute(o) ==
  /\ pc = "execute" /\ cur \notin Adapterless
  /\ eff' = IF o.acts = "yes" THEN eff \cup {<<cur, session>>} ELSE eff
  /\ inflight' = IF o.acts = "later" THEN inflight \cup {<<cur, session>>} ELSE inflight
  /\ result' = o.sees
  /\ pc' = Classified(o.sees)
  /\ pivotCrossed' = (pivotCrossed \/ (cur = Pivot /\ o.sees \in {"ok", "phantom", "vetoed"}))
  /\ UNCHANGED <<durable, session, undone, run, cur, attempt, skip, order, src, breaker,
                 unwinding>>

\* A bug: only declared expressions are checked, not the adapter's own postcondition.
ReportedSuccess == result # "vetoed"
Verified == result = "ok"

PostconditionPasses ==
  /\ pc = "verify" /\ Verified
  /\ SetRow(cur, session, "COMMITTED")
  /\ pc' = "record"
  /\ UNCHANGED <<cwal, approvals, reuse, dlq, session, world, run, progress, completed,
                 breaker, unwinding>>

\* Handled as a failure of class VALIDATION, which is_retryable refuses.
PostconditionFails ==
  /\ pc = "verify" /\ ~Verified
  /\ result' = "permanent"
  /\ pc' = "failed"
  /\ UNCHANGED <<durable, session, world, run, cur, attempt, skip, completed, breaker,
                 unwinding>>

\* After the row is COMMITTED: idempotency outcome, breaker, completion tracking.
RecordSuccess ==
  /\ pc = "record"
  /\ reuse' = IF cur \in Keyed THEN [reuse EXCEPT ![cur] = session] ELSE reuse
  /\ breaker' = [breaker EXCEPT ![Tool[cur]] = AfterSuccess(@)]
  /\ MarkCompleted(cur, session)
  /\ UNCHANGED <<wal, cwal, approvals, dlq, session, world, run, pivotCrossed, unwinding>>

MarkUnknown ==
  /\ pc = "unknown"
  /\ SetRow(cur, session, "UNKNOWN")
  /\ pc' = "query"
  /\ UNCHANGED <<cwal, approvals, reuse, dlq, session, world, run, progress, completed,
                 breaker, unwinding>>

(* _reconcile, and what its caller does with the verdict *)

QueryFinds ==
  /\ pc = "query"
  /\ "found" \in Answers(<<cur, session>> \in eff)
  /\ SetRow(cur, session, "COMMITTED")
  /\ pivotCrossed' = (pivotCrossed \/ cur = Pivot)
  /\ pc' = "record"
  /\ UNCHANGED <<cwal, approvals, reuse, dlq, session, world, run, progress, order, src,
                 breaker, unwinding>>

\* "retry": the breaker hears of it only when no attempt is left.
QueryFindsNothing ==
  /\ pc = "query"
  /\ "absent" \in Answers(<<cur, session>> \in eff)
  /\ SetRow(cur, session, "FAILED")
  /\ pc' = IF attempt < MaxAttempts[cur] THEN "admit" ELSE "unresolved"
  /\ result' = "none"
  /\ UNCHANGED <<cwal, approvals, reuse, dlq, session, world, run, cur, attempt, skip,
                 completed, breaker, unwinding>>

QueryUndetermined ==
  /\ pc = "query"
  /\ "undetermined" \in Answers(<<cur, session>> \in eff)
  /\ result' \in {"transient", "permanent"}   \* is TIMEOUT in the step's retry_on?
  /\ pc' = "unresolved"
  /\ UNCHANGED <<durable, session, world, run, cur, attempt, skip, completed, breaker,
                 unwinding>>

(***************************************************************************)
(* _handle_failure.  "unresolved" is already_failed = True: the row keeps   *)
(* the status reconciliation gave it.                                      *)
(***************************************************************************)
MayRetry ==
  /\ attempt < MaxAttempts[cur]
  /\ cur \in Retryable \/ result = "transient"

HandleFailure(next) ==
  /\ pc \in {"failed", "unresolved"}
  /\ IF pc = "failed" THEN SetRow(cur, session, "FAILED") ELSE UNCHANGED wal
  /\ breaker' = [breaker EXCEPT ![Tool[cur]] = AfterFailure(@)]
  /\ result' = "none"
  /\ pc' = next
  /\ UNCHANGED <<cwal, approvals, reuse, dlq, session, world, run, cur, attempt, skip,
                 completed, unwinding>>

Retry == HandleFailure("admit") /\ MayRetry

\* A bug: the pivot condition the wrong way round.
ForwardBeforePivot == cur \in Retryable /\ ~pivotCrossed
ForwardOnly == cur \in Retryable /\ pivotCrossed

GiveUpForward == HandleFailure("escalate") /\ ~MayRetry /\ ForwardOnly

GiveUpUnwinding == HandleFailure("recover") /\ ~MayRetry /\ ~ForwardOnly

\* _escalate_forward: nothing is compensated, an operator gets the step.
EscalateForward ==
  /\ pc = "escalate"
  /\ dlq' = dlq \cup {[step |-> cur, session |-> session, kind |-> "forward"]}
  /\ run' = "INCONSISTENT"
  /\ pc' = "done"
  /\ UNCHANGED <<wal, cwal, approvals, reuse, session, world, progress, completed,
                 breaker, unwinding>>

------------------------------------------------------------------------------
(* _recover and CompensationEngine *)

\* A bug: whatever declares a compensation is unwound, completed or not.
Undoable == {s \in Steps : Comp[s] # "none"}
Tracked == {s \in Steps : order[s] > 0 /\ Comp[s] # "none"}

\* Only tracked actions (Tier 2 or 3, or with a compensation tool) are in
\* _completed; of those, a NONE strategy succeeds without doing anything.
Recover ==
  /\ pc = "recover"
  /\ run' = "RECOVERING"
  /\ todo' = Tracked
  /\ clean' = TRUE
  /\ pc' = "undo"
  /\ UNCHANGED <<durable, session, world, progress, completed, breaker, undoing, tries>>

\* A bug: the sort is not reversed.
OldestFirst(s) == s \in todo /\ \A t \in todo : order[s] <= order[t]
\* plan_compensations: sorted by completion_order, reverse = True.
NextToUndo(s) == s \in todo /\ \A t \in todo : order[t] <= order[s]

\* Manual escalation, or a validation that fails: no intent is written.
UndoBlocked(s) ==
  /\ pc = "undo" /\ NextToUndo(s)
  /\ Comp[s] = "manual" \/ "stale" \in Faults
  /\ undoing' = s
  /\ tries' = 0
  /\ pc' = "letter"
  /\ UNCHANGED <<durable, session, world, run, progress, completed, breaker, todo, clean>>

\* One stable compensation intent for all attempts, logged before the first.
UndoStart(s) ==
  /\ pc = "undo" /\ NextToUndo(s)
  /\ Comp[s] = "tool"
  /\ undoing' = s
  /\ tries' = 0
  /\ WriteUndoIntent(s, session)
  /\ pc' = "undo_mark"
  /\ UNCHANGED <<wal, approvals, reuse, dlq, session, world, run, progress, completed,
                 breaker, todo, clean>>

UndoMark ==
  /\ pc = "undo_mark"
  /\ tries' = tries + 1
  /\ SetUndoRow(undoing, session, "COMPENSATING")
  /\ pc' = "undo_execute"
  /\ UNCHANGED <<wal, approvals, reuse, dlq, session, world, run, progress, completed,
                 breaker, todo, undoing, clean>>

\* The inverse tool acts at most once per compensation intent.
UndoExecute(o) ==
  /\ pc = "undo_execute"
  /\ LET act == <<undoing, session, src[undoing]>>
     IN /\ undone' = IF o.acts = "yes" THEN undone \cup {act} ELSE undone
        /\ inflight' = IF o.acts = "later" THEN inflight \cup {act} ELSE inflight
  /\ result' = o.sees
  /\ pc' = "undo_result"
  /\ UNCHANGED <<durable, session, eff, run, cur, attempt, skip, completed, breaker,
                 unwinding>>

\* On to the next action of the ordered list.  The bug: the list is not advanced.
SameAction == UNCHANGED todo /\ undoing' = 0 /\ tries' = 0 /\ pc' = "undo"
NextAction == todo' = todo \ {undoing} /\ undoing' = 0 /\ tries' = 0 /\ pc' = "undo"

\* Verified, reported by the tool or discovered by the status query.
UndoSucceeds ==
  /\ pc = "undo_result"
  /\ \/ result = "ok"
     \/ result = "unknown" /\ "found" \in UndoAnswers(Undone(undoing, session))
  /\ SetUndoRow(undoing, session, "COMPENSATED")
  /\ result' = "none"
  /\ NextAction
  /\ UNCHANGED <<wal, approvals, reuse, dlq, session, world, run, cur, attempt, skip,
                 completed, breaker, clean>>

\* A failure, an exception or a rejected postcondition (also of an effect the
\* query found): FAILED.  Neither seen to have happened nor to have failed: UNKNOWN.
UndoFails(status) ==
  /\ pc = "undo_result"
  /\ \/ status = "FAILED" /\ result \in {"transient", "permanent", "phantom", "vetoed"}
     \/ /\ status = "FAILED" /\ result = "unknown" /\ "vetoed" \in Faults
        /\ "found" \in UndoAnswers(Undone(undoing, session))
     \/ /\ status = "UNKNOWN" /\ result = "unknown"
        /\ UndoAnswers(Undone(undoing, session)) \cap {"absent", "undetermined"} # {}
  /\ SetUndoRow(undoing, session, status)
  /\ result' = "none"
  /\ pc' = IF tries < MaxUndoAttempts THEN "undo_mark" ELSE "letter"
  /\ UNCHANGED <<wal, approvals, reuse, dlq, session, world, run, cur, attempt, skip,
                 completed, breaker, unwinding>>

\* A bug: only what was never attempted is filed.
BlockedLetters ==
  {l \in {[step |-> undoing, session |-> session, kind |-> "blocked"]} : tries = 0}
UndoLetters ==
  {[step |-> undoing, session |-> session,
    kind |-> IF tries = 0 THEN "blocked" ELSE "exhausted"]}

\* _recover files every failed compensation before it turns to the next one.
DeadLetter ==
  /\ pc = "letter"
  /\ dlq' = dlq \cup UndoLetters
  /\ clean' = FALSE
  /\ NextAction
  /\ UNCHANGED <<wal, cwal, approvals, reuse, session, world, run, progress, completed,
                 breaker>>

\* A bug: any_inconsistent is not looked at.
AlwaysAborted == "ABORTED"
FinalState == IF clean THEN "ABORTED" ELSE "INCONSISTENT"

FinishRecovery ==
  /\ pc = "undo" /\ todo = {}
  /\ run' = FinalState
  /\ pc' = "done"
  /\ UNCHANGED <<durable, session, world, progress, completed, breaker, unwinding>>

------------------------------------------------------------------------------
(* Crash, and RecoveryManager *)

\* The process is gone, and with it every field of the coordinator.
LoseProcess(state) ==
  /\ pc' = "down"
  /\ run' = state
  /\ cur' = 1 /\ attempt' = 0 /\ result' = "none" /\ skip' = {}
  /\ order' = [s \in Steps |-> 0]
  /\ src' = [s \in Steps |-> 0]
  /\ pivotCrossed' = FALSE
  /\ breaker' = [t \in Tools |-> FreshToolState]
  /\ todo' = {} /\ undoing' = 0 /\ tries' = 0 /\ clean' = TRUE
  /\ UNCHANGED <<durable, session, world>>

Crash ==
  /\ \/ pc \in ForwardPlaces /\ "forward" \in CrashIn
     \/ pc \in RecoveryPlaces /\ "recovery" \in CrashIn
  /\ LoseProcess("CRASHED")

\* Engine.resume does not ask how the run ended.
Reopen ==
  /\ pc = "done" /\ "resume" \in Reentry /\ session < MaxSessions
  /\ LoseProcess(run)

\* _reconcile_entry for the row of a forward intent.  Whatever is not found and
\* successful is FAILED.
ReconcileRow(s, k) ==
  /\ pc = "down" /\ <<s, k>> \in PendingRows
  /\ \E answer \in Answers(<<s, k>> \in eff) :
       SetRow(s, k, IF s \in Adapterless THEN "ESCALATED"
                    ELSE IF answer = "found" THEN "COMMITTED" ELSE "FAILED")
  /\ UNCHANGED <<cwal, approvals, reuse, dlq, session, world, pc, run, progress, completed,
                 breaker, unwinding>>

\* The same for the row of a compensation: it too becomes COMMITTED or FAILED.
ReconcileUndoRow(s, k) ==
  /\ pc = "down" /\ <<s, k>> \in PendingUndoRows
  /\ \E answer \in UndoAnswers(Undone(s, k)) :
       SetUndoRow(s, k, IF answer = "found" THEN "COMMITTED" ELSE "FAILED")
  /\ UNCHANGED <<wal, approvals, reuse, dlq, session, world, pc, run, progress, completed,
                 breaker, unwinding>>

\* A request its caller gave up on is carried out after all.
LandEffect(s, k) ==
  /\ <<s, k>> \in inflight
  /\ inflight' = inflight \ {<<s, k>>}
  /\ eff' = eff \cup {<<s, k>>}
  /\ UNCHANGED <<durable, session, undone, pc, run, progress, completed, breaker, unwinding>>

LandUndo(s, j, k) ==
  /\ <<s, j, k>> \in inflight
  /\ inflight' = inflight \ {<<s, j, k>>}
  /\ undone' = undone \cup {<<s, j, k>>}
  /\ UNCHANGED <<durable, session, eff, pc, run, progress, completed, breaker, unwinding>>

------------------------------------------------------------------------------
StepForward ==
  \/ SkipCommitted \/ DeadlinePasses \/ Complete
  \/ \E d \in {"granted", "denied"} : ResolveApproval(d)
  \/ NoApprovalNeeded \/ ReuseResult \/ ClaimKey
  \/ Admit \/ FailFast \/ MarkRunning \/ MissingAdapter
  \/ \E o \in Outcomes : Execute(o)
  \/ PostconditionPasses \/ PostconditionFails \/ RecordSuccess
  \/ MarkUnknown \/ QueryFinds \/ QueryFindsNothing \/ QueryUndetermined
  \/ Retry \/ GiveUpForward \/ GiveUpUnwinding \/ EscalateForward

StepBackward ==
  \/ Recover
  \/ \E s \in Steps : UndoBlocked(s) \/ UndoStart(s)
  \/ UndoMark
  \/ \E o \in Outcomes : UndoExecute(o)
  \/ UndoSucceeds
  \/ \E status \in {"FAILED", "UNKNOWN"} : UndoFails(status)
  \/ DeadLetter \/ FinishRecovery

CoordinatorStep == StepForward \/ StepBackward

Reconcile == \E s \in Steps, k \in Sessions : ReconcileRow(s, k) \/ ReconcileUndoRow(s, k)

Land ==
  \/ \E s \in Steps, k \in Sessions : LandEffect(s, k)
  \/ \E s \in Steps, j \in Sessions, k \in Sessions : LandUndo(s, j, k)

Next ==
  \/ RunWorkflow \/ ResumeWorkflow
  \/ CoordinatorStep
  \/ Crash \/ Reopen \/ Reconcile
  \/ Land

Spec == Init /\ [][Next]_vars

\* A live process keeps running: forward tool calls are cut off by the step's
\* timeout_ms; compensating calls, status queries and the approval callback are
\* assumed to return.  Nobody is obliged to start, recover or resume anything,
\* no crash has to happen and no late request has to land.
FairSpec == Spec /\ WF_vars(CoordinatorStep)
------------------------------------------------------------------------------
(* Properties *)

LogTyped ==
  /\ wal \in [Steps -> [Sessions -> Statuses]]
  /\ cwal \in [Steps -> [Sessions -> Statuses]]
StoresTyped ==
  /\ approvals \in [Steps -> {"none", "granted", "denied"}]
  /\ reuse \in [Steps -> 0..MaxSessions]
  /\ dlq \subseteq Letters
  /\ session \in 0..MaxSessions
WorldTyped ==
  /\ eff \subseteq Steps \X Sessions
  /\ undone \subseteq Steps \X Sessions \X Sessions
  /\ inflight \subseteq (Steps \X Sessions) \cup (Steps \X Sessions \X Sessions)
ProgressTyped ==
  /\ pc \in {"idle", "down", "done"} \cup ForwardPlaces \cup RecoveryPlaces
  /\ run \in {"PLANNED", "RUNNING", "WAITING_APPROVAL", "TIMED_OUT", "RECOVERING",
              "COMPLETED", "ABORTED", "INCONSISTENT", "CRASHED"}
  /\ cur \in 1..N + 1
  /\ attempt \in Nat
  /\ result \in {"none", "ok", "phantom", "vetoed", "unknown", "transient", "permanent"}
  /\ skip \subseteq Steps
CompletedTyped ==
  /\ order \in [Steps -> Nat]
  /\ src \in [Steps -> 0..MaxSessions]
  /\ pivotCrossed \in BOOLEAN
BreakerTyped == breaker \in [Tools -> ToolState]
UnwindingTyped ==
  /\ todo \subseteq Steps
  /\ undoing \in 0..N
  /\ tries \in Nat
  /\ clean \in BOOLEAN
\* What a place of the program may take for granted.
PlacesTyped ==
  /\ pc # "idle" => session # 0
  /\ pc \in ForwardPlaces \ {"loop"} => cur \in Steps
  /\ \A s \in Steps : order[s] > 0 => src[s] # 0
  /\ \A s \in todo : order[s] > 0
  /\ pc \in RecoveryPlaces \ {"recover", "undo"} => undoing # 0 /\ order[undoing] > 0

\* Every variable keeps its type, and every place of the program has what it uses.
TypeOK ==
  /\ LogTyped /\ StoresTyped /\ WorldTyped
  /\ ProgressTyped /\ CompletedTyped /\ BreakerTyped /\ UnwindingTyped
  /\ PlacesTyped

\* Write-ahead (invariant A): no tool acts, forward or backward, for an intent
\* the log does not know; a crash never leaves an untracked action.
WriteAhead ==
  \A s \in Steps, k \in Sessions :
    /\ <<s, k>> \in eff => wal[s][k] # "absent"
    /\ \A j \in Sessions : <<s, j, k>> \in undone => cwal[s][j] # "absent"

\* What the log calls COMMITTED did happen: phantom successes are caught by
\* verification, unknown outcomes by the status query.
CommittedIsReal ==
  \A s \in Steps, k \in Sessions : wal[s][k] = "COMMITTED" => <<s, k>> \in eff

\* Unknown is not failed (invariant E): with adapters that keep their contract, an
\* intent the log calls FAILED did not act, so giving it up loses nothing.  It takes
\* more than the contract: a plan's postcondition that rejects a real effect ("vetoed",
\* which no run of this property allows) has the intent logged FAILED although it acted.
FailedIsVoid ==
  \A s \in Steps, k \in Sessions : <<s, k>> \in eff => wal[s][k] # "FAILED"

\* No duplicate effect (invariant B), over crashes and resumes with fresh intents:
\* a step acts in one session only.
NoDuplicateEffect ==
  \A s \in Steps, j, k \in Sessions : <<s, j>> \in eff /\ <<s, k>> \in eff => j = k

\* Refuted (undone_twice.cfg): no forward effect is undone twice, although every
\* session that unwinds the run uses compensation intents of its own.
NoDoubleUndo ==
  \A u, v \in undone : u[1] = v[1] /\ u[3] = v[3] => u = v

\* LIFO (invariant C): a compensation is not begun in a session while that of a
\* step which completed later is neither verified nor dead-lettered.
Settled(s) ==
  \/ Comp[s] = "none"
  \/ cwal[s][session] = "COMPENSATED"
  \/ \E kind \in {"blocked", "exhausted"} :
       [step |-> s, session |-> session, kind |-> kind] \in dlq
LifoCompensation ==
  Live => \A s, t \in Steps :
            /\ 0 < order[s] /\ order[s] < order[t]
            /\ cwal[s][session] # "absent"
            => Settled(t)

\* ABORTED is an honest "0 orphaned side effects": every effect any session had
\* on the world is undone, but for steps that declare nothing to undo.
AbortedLeavesNothing ==
  run = "ABORTED" /\ pc = "done" =>
    \A i \in eff : Comp[i[1]] = "none" \/ \E j \in Sessions : <<i[1], j, i[2]>> \in undone

\* COMPLETED means every step of the plan has an effect that stands (and by
\* NoDuplicateEffect no other, where adapters keep their contract).
CompletedStands ==
  run = "COMPLETED" /\ pc = "done" =>
    \A s \in Steps :
      \E k \in Sessions :
        /\ <<s, k>> \in eff
        /\ \A j \in Sessions : <<s, j, k>> \notin undone

\* Invariant F: a run that ends after unwinding accounts for every completed step
\* (undone and verified, or in the dead-letter queue), and it ends INCONSISTENT
\* exactly when this session filed a letter.
NothingSwept ==
  pc = "done" /\ run \in {"ABORTED", "INCONSISTENT"} =>
    /\ (run = "INCONSISTENT") <=> (\E l \in dlq : l.session = session)
    /\ \/ \E l \in dlq : l.session = session /\ l.kind = "forward"
       \/ \A s \in Steps : order[s] > 0 => Settled(s)

UnfiledUndo(s, k) ==
  /\ cwal[s][k] \notin {"absent", "COMPENSATED"}
  /\ [step |-> s, session |-> k, kind |-> "exhausted"] \notin dlq

\* A compensation that was begun is verified or in the dead-letter queue, but for
\* the one in hand; and a session leaves at most one that is neither, whatever tools
\* do and wherever the process dies: the one it was cut off in.
UndoneOrFiled ==
  \A s \in Steps, k \in Sessions :
    UnfiledUndo(s, k) =>
      /\ k = session => pc = "down" \/ (Live /\ s = undoing)
      /\ \A t \in Steps : UnfiledUndo(t, k) => t = s

\* Refuted (lost_letter.cfg): a compensation that is given up goes to the dead-letter
\* queue "instead of it being silently lost" (coordinator.py:784-785).
FailedUndoIsFiled ==
  [][pc = "letter" /\ pc' # "letter" => UndoLetters \subseteq dlq']_vars

\* Pivot honesty (invariant D): if the pivot's effect took place, no run ends
\* believing (and reporting) that an exact rollback was possible.
PivotHonesty ==
  pc = "done" /\ (\E k \in Sessions : <<Pivot, k>> \in eff) => pivotCrossed

\* Refuted (phantom_pivot.cfg), the converse: the pivot is not reported as crossed
\* unless it committed.
PivotCrossedIsReal ==
  pc = "done" /\ pivotCrossed => \E k \in Sessions : wal[Pivot][k] = "COMMITTED"

\* A RETRYABLE step that fails after the pivot never unwinds the pivot: it is
\* driven forward or escalated.
RetryableNeverUnwindsPivot ==
  cur \in Retryable /\ pivotCrossed => pc \notin RecoveryPlaces

\* A committed row stays committed: neither retries, nor the reconciliation of a
\* later crash, nor compensation touch it again.
CommittedIsFinal ==
  [][\A s \in Steps, k \in Sessions :
       wal[s][k] = "COMMITTED" => wal'[s][k] = "COMMITTED"]_wal

\* A resumed session never opens a new intent for a step the log has committed.
CommittedNeverRerun ==
  [][\A s \in Steps, j, k \in Sessions :
       wal[s][j] = "COMMITTED" /\ wal'[s][k] # "absent" => wal[s][k] # "absent"]_wal

\* Once the idempotency key of a step holds a success, no later session of the
\* run, resumed or run again, issues a new intent for the step.
RecordedKeyReused ==
  [][\A s \in Keyed, k \in Sessions :
       reuse[s] # 0 /\ wal'[s][k] # "absent" => wal[s][k] # "absent"]_wal

\* Refuted (fresh_intent.cfg), claim()'s contract: a caller that finds a key claimed
\* reuses the intent on record instead of issuing a fresh one, so one session only
\* ever has a row for the step.
ClaimedIntentReused ==
  \A s \in Keyed, j, k \in Sessions :
    wal[s][j] # "absent" /\ wal[s][k] # "absent" => j = k

\* A granted approval precedes every intent of a step that needs one, in every
\* session, and a denial on record is not overridden by the callback.
ApprovedBeforeIntent ==
  \A s \in NeedsApproval, k \in Sessions :
    wal[s][k] # "absent" => approvals[s] = "granted"

\* Every started session ends (or its process dies): retries, escalation and
\* unwinding are bounded, and no place of the program is a dead end.
SessionEnds == Live ~> ~Live
==============================================================================
