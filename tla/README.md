# AATM in TLA+

AATM runs an agent's plan as a saga: steps that act on external tools, a
write-ahead log that lets a crashed run be reconciled, compensations that undo
completed steps in reverse, a *pivot* step after which no exact rollback
exists, and retryable steps behind it that are driven forward. This directory
models the part of `src/src/aatm` that decides what happens to the outside
world, checks it with TLC and proves the central invariants with TLAPS.

Paths below are relative to `src/src/aatm/` unless they start with `docs/`.

## 1. Inventory

| Component | State it keeps | Operations | Interacts by | Hard behaviour |
|---|---|---|---|---|
| Coordinator (`runtime/coordinator.py`) | volatile: run state, completed actions, pivot flag, attempt; everything durable is in the stores | `run_workflow`, `resume_workflow`; per step: approval gate, idempotency claim, retry loop, timeout, verification, reconciliation, failure handling, forward escalation, `_recover` | calls adapters (await), writes WAL, idempotency, approvals, DLQ, audit, checkpoints | crash at any await or write; unknown outcomes; what a resume rebuilds |
| Compensation engine (`compensation/engine.py`) | none of its own | `plan_compensations`, `execute_compensation` | called by `_recover`; adapters, WAL | partial failure, stable intent id, retries, crash half way |
| Recovery (`runtime/recovery.py`) | none | `recover` over every pending WAL row | status queries, WAL | an unknown is not a failure; queries that fail; being interrupted itself |
| Engine (`engine.py`) | none | `run`, `recover`, `resume`, `redrive`, `report` | builds the above for one call | a run id used again; redrive of what already happened |
| Circuit breaker (`runtime/circuit_breaker.py`) | per tool: state, consecutive failures, trial count, clock stamp | `allow`, `record_success`, `record_failure` | shared by the steps of a process that use one tool | HALF_OPEN trial limit; a step's own retries trip it |
| WAL (`storage/wal.py`) | rows by intent id, status | `write_intent`, `update_status`, `pending_entries` | SQLite, one transaction per call | last row wins on resume |
| Idempotency (`storage/idempotency.py`) | key -> intent, outcome | `claim`, `record_outcome` | SQLite | claimed without outcome |
| Approvals (`storage/approvals.py`) | appended requests and decisions | `request`, `decide`, `latest_decision` | JSON lines; operators may append | decisions of earlier sessions, expiry |
| Dead letters (`storage/dead_letter.py`) | appended entries and resolutions | `append`, `resolve`, `open_entries` | JSON lines | letter lost by a crash; keys that coincide |
| Audit log (`storage/audit_log.py`) | hash chain, tail cached in memory | `append`, `verify`, `anchor` | JSON lines, several writers | two writers fork the chain; torn last line |
| Checkpoints (`storage/checkpoints.py`) | snapshots | `create_checkpoint`, `latest_for_run` | SQLite | - |
| Adapters (`adapters/`) | the external world | `execute`, `query_status`, `verify_postcondition` | called with an intent id they dedupe on | lost responses, late effects, lies, failing queries |
| Planner (`planner/`), compensation planning (`compensation/generator.py`, `registry.py`, `validator.py`) | none (pure) | plan, topological order, tiers, pivot, validation, binding | feeds the coordinator | cycles, pivot choice |
| Records (`models.py`: `StepExecution`, `CompensationRecord`) | volatile: outcome, verdict and compensation per step, of the last session | written by the coordinator | read by every report | lost in a crash, rebuilt in part on resume |
| Replay (`replay.py`) | none (a fold) | `ReplayEngine.replay` | reads the audit log | events lost in a crash, written twice, or under keys it does not look for |
| Reporting (`reporting/`) | none (functions) | result, score with floors, release status and blockers, break analysis | reads records, audit log, dead letters, world summary | sources that differ in how many sessions they cover |
| Service, CLI (`service.py`, `cli/`) | none | HTTP and command line front ends | one thread per request | a `/recover` for a run that is at work; an operator who decides while the policy is asked |

What makes each correct:

* coordinator and recovery: no tool acts for an intent the log does not know;
  COMMITTED is real and final; FAILED means it did not act; a step acts once,
  over any number of crashes; the pivot is never forgotten; COMPLETED and
  ABORTED mean what they say; every session ends;
* compensation: LIFO, every failure dead-lettered before the process can forget it, no
  effect undone twice;
* dead letters: a redrive repeats a compensation under its own intent only, and what
  it resolved is settled in the log;
* retryable steps: after the pivot they never unwind it, on any path;
* idempotency, approvals: a recorded success or denial binds later sessions;
* breaker: trips at its threshold, admits bounded trials, cannot get stuck;
* audit log: one chain, whoever writes; verification rejects what a writer
  cannot have produced;
* planner: order respects dependencies, an accepted plan can be undone up to its
  pivot and asks before it uses an unknown tool;
* replay and reports: end where the run ended, and say nothing of the world that
  is not so, above all not PASS;
* all together: whoever sees only the world sees a saga.

The hazards behind these, each at its source line with the properties aimed at
it, are the `hazards` of `PROJECT.json`.

## 2. Modules

| Module | Models | Notes |
|---|---|---|
| `Breaker` | the per-tool record of the circuit breaker and what `allow`, `record_success`, `record_failure` compute on it | no variables; used by `Coordinator` and `CircuitBreaker` |
| `Coordinator` | one run: coordinator, compensation engine, recovery manager, engine entry points, WAL, idempotency, approvals, DLQ, adapters as seen through their contract | the core |
| `Trail` | the coordinator with what it leaves for later readers: audit events, step and compensation records | extends `Coordinator`; each of its steps is a step of `Coordinator` or appends an event |
| `Replay` | `ReplayEngine` as a function from frame and event to frame | no variables; instantiated by `Trail`, which feeds it |
| `Report` | evidence report, score, status, release pack, break analysis, as functions of a `Trail` state; the refinement mapping to `Saga` | extends `Trail` |
| `Saga` | the abstract specification: what a run promises to those who see only the world | implemented by `Coordinator` (`ImplementsSaga`) |
| `Overlap` | a `/recover` request in a thread of its own beside the coordinator | extends `Coordinator` |
| `MCCoordinator`, `MCReport`, `MCOverlap` | plans small enough for TLC, for `Coordinator`, `Report` and `Overlap` | |
| `CoordinatorInvariants` | the inductive invariants about `Coordinator` | proved by TLAPS; `Bookkeeping` and `Ownership` are also properties of runs |
| `TrailInvariants` | the inductive invariants about `Trail`: how far records, events on disk and events owed lag behind the run | proved by TLAPS |
| `CoordinatorProofs`, `OverlapProofs`, `SagaProofs` | theorems about `Coordinator`; about `Overlap`; the refinements `Trail` to `Coordinator` to `Saga`, and what the reports of a `Trail` say | |
| `CircuitBreaker`, `CircuitBreakerProofs`, `MCCircuitBreaker` | one tool's breaker under several callers, with a clock | extends `Breaker`, so it runs the functions `Coordinator` runs |
| `AuditLog`, `AuditLogProofs`, `MCAuditLog` | the hash-chained log file, the objects that write it, crashes in the middle of a line, edits, verification, anchors | |
| `Approvals`, `ApprovalsProofs` | the approval gate of one step over the sessions of a run, with deadlines and an operator | details what `Coordinator` does in one action, `ResolveApproval` |
| `Redrive`, `RedriveProofs`, `MCRedrive` | `Engine.redrive` over the dead letters of a run | starts from the letters `Coordinator` files |
| `Planner`, `PlannerProofs`, `MCPlanner` | from a parsed workflow to a plan and its critical issues: sort, classification, compensation, pivot, validation | produces what `Coordinator` takes as constants |

### How `Coordinator` corresponds to the code

A *session* is one process working on a run (`Engine.run` or `Engine.resume`).
Every session builds a new coordinator with fresh intent ids, so `<<s, k>>`
names the forward intent of step `s` in session `k`. All attempts of a step in
one session share that intent, as `_execute_step` shares `intent` among them.

* durable variables: `wal[s][k]` and `cwal[s][j]` (status of the rows of forward
  and compensating intents), `approvals`, `reuse` (which session's success the
  step's idempotency key holds), `dlq`, `session`;
* the world: `eff` (forward intents that acted), `undone` (session `j`'s
  compensation of `s` undid the effect `<<s, k>>`), `inflight` (requests whose
  caller has given up but which may still be carried out);
* volatile: `pc` and the fields of the coordinator object. `order[s] > 0` and
  `src[s]` stand for `_completed` with its completion order and result.

`pc` names the place between two durable writes or two awaits where the process
stands; an action is the code between two places, so a crash can fall between
any two of them:

```
 idle -> loop -> claim -> admit -> mark -> execute -> verify -> record -> loop
                   ^                          |-> unknown -> query -> record | admit | unresolved
                   |                          |-> failed / unresolved -> admit | escalate | recover
 recover -> undo -> undo_mark -> undo_execute -> undo_result -> undo ... -> done
                 \-> letter -> undo
 any place -- Crash --> down -- ReconcileRow*, ReconcileUndoRow* -- ResumeWorkflow --> loop
```

The actions bear the names of the code they model (`map` gives the lines):
`_run_step_loop` is `SkipCommitted`, `DeadlinePasses`, `Complete`; the gate is
`ResolveApproval`; the idempotency claim `ReuseResult`/`ClaimKey`; the retry
loop `Admit`, `FailFast` (`_on_circuit_open`), `MarkRunning`, `MissingAdapter`,
`Execute`, `PostconditionPasses/Fails`, `RecordSuccess`, `MarkUnknown`;
`_reconcile` is `QueryFinds`, `QueryFindsNothing`, `QueryUndetermined`;
`_handle_failure` is `Retry`, `GiveUpForward`, `GiveUpUnwinding`;
`_recover` with the engine is `Recover`, `UndoBlocked`, `UndoStart`, `UndoMark`,
`UndoExecute`, `UndoSucceeds`, `UndoFails`, `DeadLetter`, `FinishRecovery`.

What tools may do is a set of outcomes: what the caller sees (`sees`) and
whether the tool acts (`acts`: yes, no, later). `Faults` switches on each
deviation from `docs/adapter-contract.md` separately: see `FaultKinds` in the
module, where `vetoed` is not the adapter's doing but a postcondition of the plan
that rejects a real effect. `blind`, for instance, is `HTTPToolAdapter._query_sync` reporting a
failed query as `found=False`; `blind_undo` is `MockPaymentAdapter.query_status`,
which looks up charges and therefore does not know refunds.

`Comp[s]` is the compensation as the coordinator sees it. `_mark_completed` tracks a
tier-1 step only if its compensation names a tool, so a tier-1 step with a manual
escalation, which gets no letter when the run unwinds, has `Comp[s] = "none"`.

Abstracted: parameters and results (a result is the session whose intent
produced it), checkpoints (read back for variables only, which do not change),
metrics, delays; the audit log and the records are in `Trail`. An exception other
than an adapter's answer, raised out of `execute`, ends the process as a crash
does. `_on_exhausted` has no action: every path through the last attempt returns
before the loop can end.

### What is built on `Coordinator`

`Trail`. The audit log is a file of its own, and most of its events are appended
after the write-ahead log was updated. `owed` holds the events an action has
still to append; nothing else is done by the process until `Append1` has taken
them, and a crash (`Die`) loses the rest, with the records. Every action of
`Coordinator` occurs in `Trail` under a name of its own, with the events it owes
and the records it changes: `Announce` is `MarkRunning` with `ACTION_START`,
`Succeed` is `RecordSuccess`, `Unwind` is `Recover`, and so on. `recovering`
adds the beginning and the end of a recovery, which log events too. Instead of
the log itself the state has what its readers make of it: `frame`, the fold of
`Replay` over the appended events, and `logged`, what the scorer's pass over them
would find.

`Report`. Every definition is a function of a `Trail` state, in the terms of the
code: `CompensationScore`, `FailuresHandled`, `FloorViolations`, `ReportStatus`
(scorer), `ReleaseStatus`, `HardBlockers` (release pack), `NodeStatus`,
`BreakStep`, `Phase`, `Uncompensated` (flow view). A report is made when a run
has ended (`Ended`) and when a tool raised `CrashSignal`, which `engine.run`
turns into a result (`Signalled`).

`Saga`. A step's effect is none, standing or undone; the course is forward, back,
or the verdict. The mapping reads the effect off the world (`WorldOf`: an
effect of any session that nothing undid), `left` off the dead-letter queue, and
the course off the place of the program (`Course`). Log, attempts, crashes and
resumes are stuttering steps.

`Overlap`. The request builds its adapters over the world file (`LoadWorld`),
reads the pending rows once (`ListPending`), and settles them one by one
(`Settle`, `SettleUndo`) by what it saw in the beginning and with unconditional
updates, while the coordinator goes on, ends, crashes or is resumed.

### The other machines

`CircuitBreaker`. `breaker` is the `_ToolState` of one tool and `age` the time
since `opened_at` as far as the cooldown can tell. A caller asks `Allow`, has a
call under way, and ends it with `RecordSuccess`, `RecordFailure` or, as the
coordinator does when it retries after an unknown outcome, with no report at all
(`DropReport`). `trialCalls` and `unheard` are history: the trials of the present
HALF_OPEN period that are under way, and those that ended unreported.

`AuditLog`. `file` is a sequence of lines, `tail[w]` the `_seq` and `_last_hash`
an `AuditLog` object has cached. `Open` is the constructor with `_load_tail`,
which raises when the last line does not parse; `AppendEntry` is `append`;
`TearEntry` is a process that dies within it, leaving part of a line or the whole
line without its newline, which the next append then continues. `Linked` and
`Verified` are `verify`. `Harm` is one edit of the file by whatever does not go
through `append`. A digest is the tuple of what it is taken of, so equal digests
mean equal entries, but they take no key: `Truncate` cuts the end off, and `Rewrite`
puts an entry with fresh hashes in its place, which `verify` cannot tell from one of the
writers'. The other edits leave hashes as they are. `overlapped` is history: whether two
objects were ever open on the unedited log at once.

`Approvals`. `log` and `requests` are the records of the JSON-lines store.
`Request`, `FollowRecord`, `FindExpired`, `DenyExpired`, `AskCallback` and `CallbackAnswers` are
the statements of `_resolve_approval` between two accesses to the store, so that
`OperatorDecides`, `Tick` and `Crash` may fall between any two of them.

`Redrive`. A letter's kind decides what `_redrive_one` can know of it: a
compensation with a row, an escalated forward step, a compensation that
validation blocked, a manual escalation without tool. `todo[p]` is the work list
a redrive read at its start, `heard[p]` what the call for its current letter
answered; `Call`, `UpdateRow`, `Resolve` are the writes in the order of the code.
What a call answers is independent of what the tool did, and a success is taken at its
word, as `_redrive_one` does. `effects` are the intents under which a tool did what
its letter asks for; a blocked letter has no parameters, so its tool, called with `{}`,
does something else (`mock_payment.py:85-90` refunds what was captured last), and that
is `stray`.

`Planner`. `PlaceNext` is one turn of the sort's loop, `EndSort` its return with
the fallback, `PlanSteps` the rest of `SagaPlanner.plan`, which only computes. A
tool's entry, in the workflow or in the registry, is a record whose fields may be
`"unset"`; `Offers` lists the compensations of a step in the order of the
authority hierarchy and `ResolveCompensation` takes the first that is made.
`Accepted` is the test with which `Engine.run` goes on. `Coordinator` assumes of
its plan no more than this planner delivers: its steps are in the plan's order,
and a pivot declared by hand may be a retryable step.

## 3. Runs

Deadlock checking is off everywhere: a run that is finished, and that nobody
reopens, stops, and so does a bounded log, gate or queue when its bounds are used
up. `crash_anywhere` and `hostile` are of `MCCoordinator`, `crash_forward` and `run_again` of
`MCReport`, `overlapping` of `MCOverlap`.

| Run | Instance | Shows |
|---|---|---|
| `crash_anywhere` | 4 steps, the third a pivot behind an approval, the last retryable with 2 attempts and sharing tool and breaker with the first, the second to be undone by hand; the breaker trips on the first failure; 3 sessions; truthful adapters with phantom successes, status queries that do not know compensations; crash at every place | `Ownership` (inductive), `NoDuplicateEffect`, `FailedIsVoid`, `PivotHonesty`, `AbortedLeavesNothing`, `LifoCompensation`, `NothingSwept`, `CommittedNeverRerun`; `UndoneOrFiled`: of the compensations a session settled, at most the one it was cut off in has neither succeeded nor a letter |
| `crash_forward` | `FairTrailSpec`: 3 steps, pivot first, a retryable step that charges, a read-only step without compensation behind an approval; 3 sessions, crashes only while going forward (recoveries and unwindings are not cut short) | `CompletedStands`, `SessionEnds` (liveness), `ImplementsSaga` (refinement); of what is read off the run: `ReplayAgrees`, `VerdictHonest`, `PassEarnsCredit`, `LeftoversListed`, `BreakLocated` |
| `overlapping` | 2 steps, 2 attempts, 2 sessions; every fault kind, crashes everywhere, a finished run resumed or run again, and a `/recover` request at any time, over and over | `WriteAhead`, `CommittedIsReal`, `ApprovedBeforeIntent` |
| `hostile` | 2 steps, the second retryable, behind an approval and without an adapter, 2 attempts, 3 sessions; every fault kind, crashes everywhere, a key on the first step; a finished run is resumed or its id is used again | `TypeOK`, `Bookkeeping` (inductive), `CommittedIsFinal` |
| `run_again` | the same with 2 sessions and the audit trail, the keyed step being a payment | `RecordedKeyReused`; `DuplicateCaught`: the report's floor sees a double charge exactly when there was one |
| `breaker_shared` | 4 callers, threshold 3, 2 trials, cooldown of 2 ticks, calls reported late, in any order or not at all | `ClosedBelowThreshold`, `TrialsBounded`, `StuckOnlyUnheard`: HALF_OPEN has a way out unless each of its trials went unreported |
| `audit_shared` | 2 writers that may overlap, 4 appends, both kinds of torn line, one edit at any time, that may be a truncation or a rewriting of the end | `ChainIntact` and `EditDetected`, of logs whose writers took turns; of all: `AnchorsStand`, an anchor holds of every unedited log that verifies, and `RemovalShows`, what was cut off or rewritten shows against its anchor |
| `approvals_gate` | 3 sessions, a deadline of 1 tick, 3 ticks, 2 decisions of the operator, also between the gate's read and its record | `DecidedOnce`: the policy decides at most once in the life of a run; `GateFollowsRecord`: the gate never acts against the last record |
| `redrive_overlap` | letters of each kind, one of them without adapter, 2 redrives that overlap, fail, hear anything and die | `UndoneOnce`: every attempt at a compensation carries the one intent of its row (that a tool acts once per intent is the adapter's part); `ResolvedIsLogged` |
| `planner` | 3 steps, all 512 dependency relations, 7 declarations of a step over 5 tools: registered, declared by the workflow, declared badly, unknown | `SortIsStable`: the order is the least one, in file order, that respects the dependencies, or the file's if there is a cycle; `UndoableBeforePivot`, `UnknownIsGated`: what an accepted plan guarantees |

Runs that find a violation, each a disagreement between the code and what a
comment or doc of the repository says of it (`findings`):

| Run | Property | What happens |
|---|---|---|
| `resumed_unwinding` | `CompletedStands` | crash during the unwinding; forward rows are still COMMITTED, so the resume skips the compensated step and completes |
| `requests_race` | `NoDuplicateEffect` | `/recover` while the coordinator calls the tool: the query finds nothing yet, the row becomes FAILED, the effect takes place; after a crash the resumed run acts again |

TLC refutes more statements of this kind. Their definitions are marked *Refuted*
in the modules, and a .cfg of the name given here shows each (for a file with
several statements use `tlc -continue`):

| Configuration | Property | What happens |
|---|---|---|
| `breaker_unwinds` | `RetryableNeverUnwindsPivot` | a retryable post-pivot step trips its tool's breaker with its own retries; `_on_circuit_open` recovers unconditionally and unwinds the pivot (`runtime/coordinator.py:677`, against `enums.py:33-35`). So do a denied approval, a missing adapter and the workflow's deadline; without these the property is proved (section 4) |
| `blind_query` | `NoDuplicateEffect` | crash with the request out; the status query fails, `HTTPToolAdapter._query_sync` reports `found=False` (`adapters/http_adapter.py:149-160`), the row becomes FAILED and the resumed session acts again |
| `undone_twice` | `NoDoubleUndo` | a crash in the middle of an unwinding, and the resume fails again: the second unwinding compensates with new intent ids |
| `lost_letter` | `FailedUndoIsFiled` | the process dies after the last FAILED row of a compensation and before its dead letter; nothing files it later, against `runtime/coordinator.py:784-785`: "instead of it being silently lost" |
| `phantom_pivot` | `PivotCrossedIsReal` | the pivot's tool lies; verification rejects it, the pivot still counts as crossed |
| `fresh_intent` | `ClaimedIntentReused` | crash after the claim; the next session ignores it and issues its own intent, against `storage/idempotency.py:99-101` |
| `crash_passes` | `UnreconciledFails` | a tool raises `CrashSignal` after it acted, and `engine.run` hands out the result: no floor asks for rows still RUNNING, so the report says PASS (`reporting/scoring.py:214`, against `Agent_Action_Transaction_Manager_Opus_4_8_MAX_Instructions.md:1042` and `:1047`) |
| `replay_running` | `ReplayFollowsRecovery` | recovery logs its verdict as `resolved`, the fold looks for `outcome` or `resolution` (`replay.py:268`): after the recovery the replay shows the step as still running |
| `false_alarm` | `NoFalseDuplicate` | two steps that pay, a crash between them: a step skipped on resume is not counted as a charge, so two payments look like one too many (`reporting/scoring.py:272-294`) |
| `pack_contradicts` | `PassHasNoBlocker` | a run escalated forward is resumed and completes; its letter is still in the file, so a pack that says PASS lists a hard blocker (`reporting/evidence_report.py:139`) |
| `redrive_refuted` | `ForwardOnce`, `ActsAreLogged` | an escalated step's letter names no intent, so each redrive makes a fresh one without a row, and an attempt that acted unheard acts again (`engine.py:332`, against "dedup-safe" at `engine.py:291`) |
| | `BlockedStaysBlocked` | a blocked compensation has a tool and no row, so redrive takes it for an escalated forward step and calls the tool with no parameters |
| | `ResolvedIsDone` | a compensation is redriven and its tool reports a success it did not perform: the row becomes COMPENSATED and the letter is resolved with nothing done (`engine.py:340-347`; `compensation/engine.py:231-241` verifies, and `docs/recovery-semantics.md:21-22` says that a compensation's postcondition is) |
| `breaker_stuck` | `NeverStuck` | the one trial of a HALF_OPEN breaker times out, is found not to have happened and is retried without a report: the breaker refuses every call for good |
| `audit_fork` | `WritersVerify` | two requests for one run to the HTTP service: the second object continues from a tail that is no longer the file's, and `verify` reports tampering |
| `audit_reopen` | `RecoveryCanOpen` | a torn last line: `AuditLog(...)` raises in the constructor of the recovery manager and of the coordinator |
| `approvals_expiry` | `ExpiredNeverGranted` | the deadline passes while the callback is asked, or the process is down: the next session files a new request and grants that, against `storage/approvals.py:10-11` |
| `approvals_overruled` | `OperatorWins` | the operator decides after the gate read the store, while the callback is asked or just before an expired request is denied; the gate's own record is appended after his |
| `plan_refuted` | `CycleIsFlagged` | steps that wait for each other, or for themselves: the file's order is used and neither parser nor planner reports anything, against `planner/saga_planner.py:285-286` and `:311` |
| | `NothingIrreversibleBeforePivot` | a pivot declared by hand hides an irreversible step before it, against `docs/recovery-semantics.md`, section 1 |
| | `RetryableNeverPivot` | a retryable step declared as the pivot becomes it, against `enums.py:34-35` |
| | `TierThreeIsGated` | a tool the registry calls irreversible, and nobody gates, is accepted; the "global enforcement" the planner relies on (`planner/saga_planner.py:333-338`) exists nowhere, and the coordinator asks only where `approval_required` is set |

Bounds. Four steps are a step before the pivot that is undone by its tool, one
that needs an operator, the pivot and a retryable step after it, two of them
sharing a breaker around the others, and a middle for LIFO; two attempts are a
retry and a last attempt; three sessions are a crash in the original run, one in
the resumed run, and a resume after that. `MaxSessions` is the only bound that
cuts behaviour off: the code allows any number of resumes. `crash_forward` has
three steps, since each action drags its events along, and begins with the pivot
so that retries, approvals, failures and crashes fall behind it; its other side is
`crash_anywhere`. `hostile`, `overlapping` and `run_again` have two steps, and but for `hostile` two
sessions, because the faults multiply; each of their properties concerns one step, or two
neighbouring sessions, at a time, and all but `DuplicateCaught` are also proved
for every bound. No symmetry is used in `Coordinator`: steps are ordered and
sessions too. Callers, writers and redrivers carry no identity, and there
symmetry is used; none of those runs checks liveness.

Why `crash_forward` lets nothing crash while it unwinds, nor resumes what has
ended: `CompletedStands`, `ImplementsSaga` and what the reports say are then false
of the code. `resumed_unwinding`, `undone_twice` and `pack_contradicts` show how;
the run shows what holds otherwise. It also keeps retryable steps away from the other ways of
being given up than used-up retries and unresolved outcomes, an open breaker, a denial, a
missing adapter or a deadline: those unwind the pivot (`breaker_unwinds`).
`crash_anywhere` allows no `vetoed`: a postcondition that rejects a real effect has
its intent logged FAILED, so `FailedIsVoid` is a statement about plans whose
postconditions are right as much as about adapters that keep their contract.

Four callers can fill two trials and report two older calls into the same
period; four appends let a writer fall behind the other, anchor a head the file does not
have and die in its line, and let a log go on after an edit, an anchor and a torn line;
three sessions and two operator decisions put a decision before, between and
after those of the policy; five letters have each kind, and a compensation both
first and last. Three steps give every shape of a cycle (a step on itself, two, three, and one
that hangs off a cycle) and a place before, at and after the pivot. `MaxFailures`, `MaxAppends`, `MaxTime`, `MaxSessions`,
`MaxOrders` and `MaxFresh` are the bounds that cut behaviours off; the theorems
below hold for every value of them.

Fairness. `FairTrailSpec` asks weak fairness of `Working` only, the steps of a
live process down to the last event it owes: a process that lives keeps running
(`FairSpec` asks the same of `CoordinatorStep`). Forward calls are cut off by the
step's `timeout_ms` (`_execute_with_timeout`). Compensating calls, status queries
and the approval callback have no timeout in the coordinator, so that they return
is an assumption about adapters and callbacks (the HTTP adapter has a timeout of
its own). Nobody has to start, recover or resume a run, no crash has to happen
and no late request has to land.

## 4. Theorems

`CoordinatorProofs` proves, for every number of steps, every plan, every number
of sessions and every breaker setting:

| Theorem | Assumptions beside those of the constants |
|---|---|
| `TypeCorrect`: `Spec => []TypeOK` | none |
| `BookkeepingInvariant`, `WriteAheadCorrect`, `CommittedIsRealCorrect`, `CommittedIsFinalCorrect` | none: every fault, crash and re-run is allowed |
| `UndoneOrFiledCorrect` (with `IdleBefore`, `UnfiledBefore`) | none |
| `AccountedInvariant`, `NothingSweptCorrect`, `LifoCompensationCorrect`; `ReckonedInvariant`; `RecordedKeyReusedCorrect` | none |
| `OwnershipInvariant`, `NoDuplicateEffectCorrect`, `FailedIsVoidCorrect`, `PivotHonestyCorrect`, `CommittedNeverRerunCorrect`, `AllReckonedInvariant`, `AbortedLeavesNothingCorrect` | `Truthful`: tools do not act when they report a failure, act before the call is given up or never, and queries tell the truth about forward intents (phantom successes are allowed); `ResumedOnly`: a run id is resumed, not run again |
| `UnwoundLastInvariant`, `CompletedStandsCorrect` | `UnwindsOnce`: no crash falls into an unwinding, and a run that ended stays ended; tools may do what they like |

`OverlapProofs` proves `ApprovedBeforeIntentCorrect` of `Coordinator`, and
`OverlapTypeCorrect`, `OverlapWriteAhead`, `OverlapCommittedIsReal` and
`OverlapApproved` of `Overlap`, all without assumptions. `SagaProofs`:

| Theorem | Assumptions beside those of the constants |
|---|---|
| `TrailImplementsCoordinator`: `TrailSpec => Spec` | none |
| `RowsFollowPlanCorrect`: no step has a row before every earlier one is committed | none |
| `InPlanOrderInvariant`, `PivotActedInvariant` | `Truthful`, `ResumedOnly` |
| `LettersLastInvariant` | `UnwindsOnce` |
| `DrivenInvariant`, `RetryableNeverUnwindsPivotCorrect` | `DrivenForward`: there is no deadline, and a retryable step has an adapter, needs no approval and has no more attempts than its breaker has patience |
| `SagaImplemented`: `Spec => ImplementsSaga`; `TrailImplementsSaga` | `Orderly`: `Truthful`, `UnwindsOnce`, `DrivenForward`, and the pivot is not itself retryable |

and about what is written of a run, its records, its events, and replay and
reports made of them:

| Theorem | Assumptions beside those of the constants |
|---|---|
| `TrailTypeCorrect`, `RecordedInvariant`, `TrailHonestInvariant` | none |
| `DuplicateCaughtCorrect` | one step charges (`false_alarm.cfg` shows two) |
| `PairedInvariant` | `ResumedOnly` |
| `StoppedInPlanInvariant` | `Truthful`, `ResumedOnly` |
| `ApprovalPairedInvariant`, `PassEarnsCreditCorrect`, `BreakLocatedCorrect` | `Truthful`, `ResumedOnly`, no deadline |
| `UndosSeenInvariant` | `UndoTruthful`: `Truthful`, and compensations that report a failure did nothing; `ResumedOnly` |
| `VerdictHonestCorrect`, `TrailCompleteInvariant` | `Truthful`, `UnwindsOnce` |
| `LeftoversListedCorrect`, `ReplayAgreesCorrect` | `UndoTruthful`, `UnwindsOnce` |

The argument is in layers. `Bookkeeping` is what the coordinator's own
discipline gives, whatever happens outside: rows are written in session and plan
order (`RowsInOrder`), the attempt under way has a row and that row is not final
(`AttemptTracked`), a request that may still land is tracked (`LateIsTracked`),
and a verified result is of an effect that took place (`SuccessIsReal`). Neither
`WriteAhead` nor `CommittedIsReal` is inductive without them: the first needs to
know that the row exists *before* the call, the second what the verifier saw.

`Ownership` adds what truthful adapters give: every effect has a row in RUNNING,
UNKNOWN or COMMITTED (`EffectsHaveRows`); only the attempt under way, or the one
a crash cut off, is pending (`OnePending`), so a resume, which waits until
nothing is pending, finds every effect in a COMMITTED row; committed steps of
earlier sessions are skipped (`CommittedSkipped`), so a step with a committed row
never gets a later one (`CommittedIsLast`); and an attempt about to be made has
not acted (`NotYetActed`). From these no step acts in two sessions. The
violations `blind_query` and `requests_race` show that the assumptions are used.

`Accounted` is the unwinding, again whatever happens outside: sessions to come
and sessions that go forward have compensated nothing (`NothingAhead`,
`NothingYet`), what is off the list is settled, what is on it is older, only the
action in hand has a row besides, and `any_inconsistent` tells of letters
(`UndoneInTurn`). LIFO and `NothingSwept` are read off it. `Reckoned` says that what
the coordinator believes is so: a completed action and a key's success are
committed rows (`CompletedHasRow`), the loop passes nothing that is not completed
(`PlanFollowed`), and a compensation undid what its action completed with or is
filed (`UndoTraced`, `UndoAttempted`). `AllReckoned` is the converse for truthful
adapters, that nothing committed is missing from what a live process counts; with
`Ownership` and `Accounted` it makes ABORTED honest. `UnwoundLast`, that only the
last session has compensated, makes COMPLETED honest, and is exactly what
`resumed_unwinding` breaks.

`UndoneOrFiled` is what is left of "every failed compensation is filed" when crashes are
allowed (`lost_letter`): the letter and the row are two writes, one compensation is in hand
at a time (`InHand`), so a session can owe one letter and no more, and by
`UnfiledIsInHand` the one it owes is that of the compensation in hand; sessions that
are over owe no further ones (`UnfiledBefore`).

`SagaImplemented` maps each step of the run to one of `Saga` or to none. It needs
the history in the state: that what the loop has passed stands and nothing after
it was touched (`InPlanOrder`, with the completion order a resume rebuilds), that
an unwinding has undone or filed all that is off its list (`Reckoned`,
`LettersLast`), and that an escalated step is retryable, has not acted, and has
behind it a pivot that has (`Driven`, `PivotActed`). `SagaInv` is the conjunction;
the lemmas after it take the kinds of steps in turn: an effect is `Act`
(`ActingIsAct`), every way into `_recover` is `TurnBack`, a compensation that took
place is `Undo`, a letter is `Leave`, the ends are the saga's. `Orderly` has to ask for
each of its parts: a failed call that acted leaves an effect ABORTED does not know of, an
unwinding that is cut short is forgotten by the resume, a breaker may turn back a
step that the saga drives forward, and a retryable pivot is one that may be
escalated before it acted.

The reports are functions of a state, so what has to be proved is what that state
is when they are made. `Trail` only adds to `Coordinator`, so all of the above
holds of it (`TrailImplementsCoordinator`), and three lemmas carry the rest: an
action owes exactly the events its name stands for (`NewEvent`, `NewByKind`), only
an append changes what a reader of the log sees (`OnlyAppends`), and a live process
acts only when it owes nothing, or dies (`InTurn`). The invariants of
`TrailInvariants` then say how records and log lag behind:

* `Recorded`: the records follow the loop, need no log and survive nothing; a step
  before `cur` succeeded, one after it was not reached, and a compensation is on
  record as failed only with a letter and as done only with a row. `UndoOpen`, that
  a compensation in hand has no row that calls it done, makes the second half
  inductive.
* `TrailHonest`: what is on disk is never more than what happened. A crash may
  lose `ACTION_COMPLETE`, so side effects are counted from above, by the rows that
  say COMMITTED or COMPENSATED (`EffectsCounted`); `PIVOT_REACHED` is on disk before
  the pivot's tool is called, so it is not lost (`PivotShown`).
* `TrailComplete`: what is on disk, with what is owed, is not less either: every step
  the loop has passed is shown as successful or owes the event that will show it so,
  although the event of an earlier session may be lost, since the resume skips the
  step and says so; every compensation on record is shown or owed. This is where an
  unwinding that is cut short has to be excluded: nobody logs its compensations again.
* `UnknownPaired`, `RecoveryPaired`, `ApprovalPaired`: the kinds of events the scorer
  looks for come in pairs over all sessions, however a crash separates them: a second
  event that was lost is owed by whoever has to settle the row the first left behind.

With `Owing = {}`, which is when a report is made, the lag is gone. `StandsUnlessUndone`
ties the log to the world: an effect stands exactly if its step is completed and no
compensation of it is on record as done (`AllReckoned`, `UndoTraced`, `UnwoundLast`,
`UndosSeen`), and `ReplayAgrees` and `LeftoversListed` compare both sides of that.
`VerdictHonest` adds up the blockers of a run that is not honest (`AbortedLeavesNothing`,
`CompletedStands`, `LettersLast`), `BreakLocated` and `PassEarnsCredit` read off where the
loop stopped.

The assumptions are used. A compensation that acts and reports a failure
(`blind_undo`) is shown as standing by replay and break analysis; a deadline stops a
run without failing a step, so the break is looked for at the wrong step, and one
that passes while an approval is awaited leaves a request without an answer, which
costs points; both are counterexamples TLC finds when the run `crash_forward` is given
these faults.

Every step has a lemma per action and conjunct; long frames (actions that leave
the log alone, actions that only unwind) are shared lemmas.

The other machines, for every value of their constants:

| Theorems | Assumptions beside those of the constants |
|---|---|
| `CircuitBreakerProofs`: `BreakerTypeCorrect`, `ClosedBelowThresholdCorrect`, `TrialsCountedInvariant`, `TrialsBoundedCorrect`, `StuckOnlyUnheardCorrect` | none (the callers are finitely many) |
| `AuditLogProofs`: `AuditInvariant`, `ChainIntactCorrect`, `EditDetectedCorrect` | none; the properties themselves speak of logs whose writers took turns |
| `AuditLogProofs`: `HeadsInvariant`, `AnchorsStandCorrect`; `ArchiveInvariant`, `RemovalShowsCorrect` | none: writers may overlap |
| `ApprovalsProofs`: `ApprovalsTypeCorrect`, `DecidedOnceCorrect`, `GateFollowsRecordCorrect` | none |
| `RedriveProofs`: `RedriveInvariant`, `RedriveTypeCorrect`, `UndoneOnceCorrect`, `ResolvedIsLoggedCorrect` | none |
| `PlannerProofs`: `PlannerInvariant`, `SortIsStableCorrect`, `UnknownIsGatedCorrect`, `UndoableBeforePivotCorrect` | none |

* Breaker: `TrialsCounted` says that the counter is the number of trials under
  way plus those that were never reported, which is what both bounds follow from.
* Audit log: `AuditInv` says, as long as no two objects were open at once, that the
  lines up to the first ruined one are in their places, that behind it no line is, since
  the writer that ruined it counts the entry it lost there, and that whoever has the log
  open is not behind; once the file was edited, that some line is bad. A bad line stays
  bad because a line's place depends only on the line itself and the one before, and
  appends change neither. `audit_fork.cfg` shows that the chain needs writers that take
  turns. Anchors do not: by `HeadsInv`, while an unedited log verifies every cached or
  anchored head is that of the entry it names, for a writer whose head is not the
  file's writes a line that does not verify, and a half line it leaves spoils the next.
  Nor do removals: by `ArchiveInv` every entry has a stamp of its own, so no entry
  written after a removal has the hash of one that is gone.
* Approvals: between the gate's read of the store and its record only the operator can
  have decided (`UndecidedWhileAsking`).
* Redrive: compensations are the letters with a row and keep it (`RowsOfUndos`), and
  a redrive between the row and the marker has set the row to COMPENSATED
  (`CallsAreTrue`).
* Planner: `SortInv` says that a step's counter is the number of its dependencies
  not yet placed, that the ready list holds the unplaced steps whose counter is 0,
  and that what is placed is stable. When nothing is ready the steps left over
  wait for each other, so there is a cycle; when all are placed, the first of a
  set of steps that wait for each other cannot have been placed. `PlanInv` says
  what the planned steps and the issues are; that an accepted plan can be undone
  up to its pivot follows because that pivot is the first Tier-3 step.

Only model-checked: `SessionEnds`, since liveness under fairness is outside the
prover's reach. Every other property a run checks is a theorem, under the
assumptions in these tables, which the run's constants satisfy. The type
invariants of the smaller machines and the invariants of `TrailInvariants` are
proved and are no run's property.

## 5. Plan

Done: the core, the circuit breaker, the audit log, the approval gate, redrive,
the planner; the audit trail, replay and reports; the abstract saga and its
refinement; the recover request beside a run. Left, in order of what matters most:

1. Compensation planning after the planner: the generator's binding of
   parameters and the validator, whose outcome `Coordinator` has as a fault.
2. Two whole coordinators on one log (two `resume` requests at once), of which
   `Overlap` has the recovering half; an append-only log that `AuditLog`
   implements.
3. Replay and break analysis of a run that ended and was resumed, where only the
   unwinding itself must not be cut short: TLC finds no counterexample to
   `ReplayAgrees` there (`crash_forward` with `Reentry = {"resume"}`), but
   `TrailComplete` would have to speak of the compensations of all sessions.

## 6. Not modelled

Storage backends and migrations (SQL dialects, schema versions), redaction,
configuration, observability, the wording and rendering of reports and the CLI's
printing: I/O or formatting without a protocol. HMAC signatures of audit entries
(a verifier without the key skips them), the digest's strength, and the key under
which old dead letters are matched are left out. The audit events of a redrive (`replay.py:318-328`) are written
after the run and are left out of `Replay`. `Report` counts the audit chain as
valid; `AuditLog` says when it is. Failure injection is a test facility; its modes
are outcomes of `Execute`. Expression evaluation is pure and its verdict is a
choice (`vetoed`). Components planned for later are listed in section 5 and in
`PROJECT.json`.

Limits of the reporting code that a reader of the modules will notice, kept as they
are in the code: after a deadline, which fails no step, the break is blamed on
the last step that ran (`reporting/flow_view.py:188-191`), so `BreakLocated` is
checked without deadlines; a step whose compensation strategy is NONE counts as
rolled back; the state a run has while it unwinds (RECOVERING) is not among the flow view's
unclean states (`reporting/flow_view.py:33-35`).
