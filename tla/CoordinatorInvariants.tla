------------------------ MODULE CoordinatorInvariants ------------------------
(***************************************************************************)
(* What has to be true at every place of the program for the properties of  *)
(* Coordinator to hold: the inductive invariants CoordinatorProofs proves.  *)
(* TLC checks them first, as invariants of the crash runs.                  *)
(***************************************************************************)
EXTENDS Coordinator

\* Places at which the current attempt has its row.
Attempting == {"mark", "execute", "verify", "unknown", "query", "failed", "unresolved"}

(***************************************************************************)
(* Bookkeeping: holds whatever the tools, the environment and the callers   *)
(* do.                                                                     *)
(***************************************************************************)

\* Rows are written in session order, and within a session in plan order.
RowsInOrder ==
  /\ pc = "idle" => session = 0
  /\ \A s \in Steps, k \in Sessions : k > session => wal[s][k] = "absent"
  /\ pc \in ForwardPlaces => \A s \in Steps : s > cur => wal[s][session] = "absent"
  /\ pc \in {"loop", "claim"} \/ (pc = "admit" /\ attempt = 0) =>
       (cur \in Steps => wal[cur][session] = "absent")

\* The row of the attempt under way exists and is not final.
AttemptTracked ==
  /\ pc \in {"loop", "claim"} => attempt = 0
  /\ pc \in Attempting => attempt > 0
  /\ pc \in Attempting \/ (pc = "admit" /\ attempt > 0) =>
       wal[cur][session] \notin {"absent", "COMMITTED"}
  /\ pc \in {"undo_mark", "undo_execute", "undo_result"} => cwal[undoing][session] # "absent"

\* What may still happen is as tracked as what did.
LateIsTracked ==
  \A s \in Steps, k \in Sessions :
    /\ <<s, k>> \in inflight => wal[s][k] # "absent"
    /\ \A j \in Sessions : <<s, j, k>> \in inflight => cwal[s][j] # "absent"

SuccessIsReal == pc = "verify" /\ result = "ok" => <<cur, session>> \in eff

Bookkeeping ==
  /\ RowsInOrder
  /\ AttemptTracked
  /\ LateIsTracked
  /\ SuccessIsReal
  /\ WriteAhead
  /\ CommittedIsReal

(***************************************************************************)
(* Ownership: every effect on the world has one owner, the row that will    *)
(* decide what a later session does about it.  Holds for adapters that keep *)
(* their contract (phantom successes allowed: verification is there for     *)
(* them) and callers that resume a run rather than run its id again.        *)
(***************************************************************************)
Truthful == Faults \cap {"vetoed", "dirty", "late", "blind", "vague"} = {}
ResumedOnly == "run" \notin Reentry

EffectsHaveRows ==
  /\ inflight = {}
  /\ \A s \in Steps, k \in Sessions :
       <<s, k>> \in eff => /\ s \notin Adapterless
                            /\ wal[s][k] \in {"RUNNING", "UNKNOWN", "COMMITTED"}

\* Only the attempt under way, or the one a crash cut off, is pending.
OnePending ==
  /\ \A s \in Steps, k \in Sessions :
       wal[s][k] \in Pending =>
         /\ k = session
         /\ pc = "down" \/ (s = cur /\ pc \in Attempting \ {"unresolved"})
  /\ pc = "execute" => wal[cur][session] = "RUNNING"

\* Earlier sessions' committed steps are skipped, and skipped steps stay untouched.
CommittedSkipped ==
  pc # "down" =>
    /\ \A s \in Steps, k \in Sessions :
         wal[s][k] = "COMMITTED" /\ k < session => s \in skip
    /\ \A s \in skip : wal[s][session] = "absent"
    /\ pc \in ForwardPlaces \ {"loop"} => cur \notin skip

CommittedIsLast ==
  \A s \in Steps, j, k \in Sessions :
    wal[s][j] = "COMMITTED" /\ j < k => wal[s][k] = "absent"

\* An attempt that may be made (again), or is given up, has not acted.
NotYetActed ==
  pc \in {"admit", "mark", "execute", "failed", "unresolved"} \/ (pc = "verify" /\ result # "ok")
    => <<cur, session>> \notin eff

\* The process knows of the pivot's effect, unless it is about to ask.
PivotKnown ==
  pc # "down" =>
    /\ Pivot \in skip => pivotCrossed
    /\ <<Pivot, session>> \in eff => pivotCrossed \/ (pc \in {"unknown", "query"} /\ cur = Pivot)

Ownership ==
  /\ EffectsHaveRows
  /\ OnePending
  /\ CommittedSkipped
  /\ CommittedIsLast
  /\ NotYetActed
  /\ PivotKnown
  /\ NoDuplicateEffect

(***************************************************************************)
(* Accounted: what an unwinding has dealt with, and in which order.  Holds  *)
(* whatever the tools, the environment and the callers do.                 *)
(***************************************************************************)
HasLetter(k) == \E l \in dlq : l.session = k

\* Sessions to come have neither compensated nor given up anything.
NothingAhead ==
  /\ \A s \in Steps, k \in Sessions : k > session => cwal[s][k] = "absent"
  /\ \A l \in dlq : l.session <= session

\* Nor has a session that goes forward.
NothingYet ==
  pc \in ForwardPlaces \cup {"recover"} =>
    /\ undoing = 0
    /\ \A s \in Steps : cwal[s][session] = "absent"
    /\ ~HasLetter(session)

\* Once the list is made, what is off it is settled, what is on it is older, and only
\* the one being compensated has a row; any_inconsistent tells of letters.
UndoneInTurn ==
  pc \in RecoveryPlaces \ {"recover"} =>
    /\ todo \subseteq Tracked
    /\ \A s \in Tracked \ todo : Settled(s) /\ \A t \in todo : order[t] <= order[s]
    /\ \A s \in Steps : cwal[s][session] # "absent" => s \in (Tracked \ todo) \cup {undoing}
    /\ pc = "undo" \/ NextToUndo(undoing)
    /\ pc = "undo" => undoing = 0
    /\ clean <=> ~HasLetter(session)

Accounted ==
  /\ NothingAhead
  /\ NothingYet
  /\ UndoneInTurn
  /\ NothingSwept

(***************************************************************************)
(* Reckoned: what the coordinator believes it has done, and undone, is so.  *)
(* Holds whatever the tools, the environment and the callers do.           *)
(***************************************************************************)

\* A key's success, and a completed action, is a committed row.
CompletedHasRow ==
  \A s \in Steps : /\ reuse[s] # 0 => wal[s][reuse[s]] = "COMMITTED"
                   /\ order[s] > 0 => wal[s][src[s]] = "COMMITTED"

\* The loop passes no step that is not completed.
PlanFollowed ==
  /\ pc \in ForwardPlaces => \A s \in Steps : s < cur \/ s \in skip => order[s] > 0
  /\ pc = "record" => wal[cur][session] = "COMMITTED"
  /\ pc = "done" /\ run = "COMPLETED" => \A s \in Steps : order[s] > 0

ThisSessionsLetter(s) == [step |-> s, session |-> session, kind |-> "exhausted"] \in dlq

\* A compensation undoes what its action completed with; a row that says it did is
\* right, and one that does not is on its way or filed.
UndoTraced ==
  pc \in (RecoveryPlaces \ {"recover"}) \cup {"done"} =>
    /\ \A s \in Steps, k \in Sessions : <<s, session, k>> \in undone \cup inflight => k = src[s]
    /\ \A s \in Steps :
         /\ cwal[s][session] = "COMPENSATED" => <<s, session, src[s]>> \in undone
         /\ cwal[s][session] \in {"absent", "COMPENSATED"} \/ ThisSessionsLetter(s)
            \/ (s = undoing /\ pc # "done")

\* What the attempt at a compensation has come to.
UndoAttempted ==
  /\ pc = "undo_result" /\ result = "ok" => <<undoing, session, src[undoing]>> \in undone
  /\ pc \in {"undo_execute", "undo_result"} => tries > 0
  /\ pc = "letter" /\ tries = 0 => cwal[undoing][session] = "absent"

Reckoned ==
  /\ CompletedHasRow
  /\ PlanFollowed
  /\ UndoTraced
  /\ UndoAttempted

\* A step is attempted only while its key holds no success.
KeyOpen == pc \in Attempting \cup {"admit"} /\ cur \in Keyed => reuse[cur] = 0

\* With adapters that keep their contract the coordinator also knows of all it did.
AllReckoned ==
  pc \notin {"idle", "down"} =>
    \A s \in Steps, k \in Sessions :
      wal[s][k] = "COMMITTED" => order[s] > 0 \/ (pc = "record" /\ s = cur /\ k = session)

(***************************************************************************)
(* Where an unwinding is not cut short, and the run that ended is left      *)
(* alone, only the session that ends the run compensates anything.          *)
(***************************************************************************)
UnwindsOnce == CrashIn \subseteq {"forward"} /\ Reentry = {}

UnwoundLast ==
  \A s \in Steps, k \in Sessions :
    cwal[s][k] # "absent" =>
      /\ k = session
      /\ \/ pc \in RecoveryPlaces \ {"recover"}
         \/ pc = "done" /\ run \in {"ABORTED", "INCONSISTENT"}

(***************************************************************************)
(* InPlanOrder: what the abstract saga (Saga.tla) takes for granted of the  *)
(* order in which things are done.                                         *)
(***************************************************************************)

\* A step has a row only if every step before it is committed.
RowsFollowPlan ==
  \A s, t \in Steps, k \in Sessions :
    s < t /\ wal[t][k] # "absent" => \E j \in Sessions : wal[s][j] = "COMMITTED"

\* What is completed, or skipped, is the beginning of the plan.
LoopFollowsPlan ==
  pc \in ForwardPlaces =>
    /\ \A s, t \in Steps : s < t /\ t \in skip => s \in skip
    /\ \A t \in Steps : order[t] > 0 => t < cur \/ t \in skip

\* Completion order is plan order.
OrderFollowsPlan ==
  /\ \A s \in Steps : order[s] <= Cardinality({t \in Steps : order[t] > 0})
  /\ \A s, t \in Steps : s < t /\ order[s] > 0 /\ order[t] > 0 => order[s] < order[t]

InPlanOrder ==
  /\ LoopFollowsPlan
  /\ OrderFollowsPlan

\* Letters are about what the last session has dealt with, or escalated.
LettersLast ==
  \A l \in dlq :
    \/ pc \in RecoveryPlaces \ {"recover"} /\ l.session = session /\ l.step \in Tracked \ todo
    \/ pc = "done" /\ run = "INCONSISTENT"

(***************************************************************************)
(* Driven: a retryable step behind the pivot is driven forward.  Nothing    *)
(* but its own attempts can stop such a step if it has an adapter, needs no *)
(* approval, cannot trip its tool's breaker and there is no deadline.       *)
(***************************************************************************)
Unstoppable ==
  /\ "deadline" \notin Faults
  /\ Retryable \cap (NeedsApproval \cup Adapterless) = {}
  /\ \A s \in Retryable : MaxAttempts[s] <= FailureThreshold

DrivenForward == Retryable = {} \/ Unstoppable

\* Every completed step leaves a closed breaker without failures behind.
FreshBreakers ==
  pc \in ForwardPlaces =>
    \A tool \in Tools : pc \in {"loop", "claim"} \/ tool # Tool[cur] => breaker[tool] = FreshToolState

WithinBudget ==
  pc \in (Attempting \cup {"admit"}) /\ cur \in Retryable =>
    /\ breaker[Tool[cur]].state = "closed"
    /\ attempt <= MaxAttempts[cur]
    /\ IF pc = "admit" THEN attempt < MaxAttempts[cur] /\ breaker[Tool[cur]].failures <= attempt
                       ELSE breaker[Tool[cur]].failures < attempt

Driven ==
  /\ FreshBreakers
  /\ WithinBudget
  /\ pc = "escalate" => cur \in Retryable /\ pivotCrossed
  /\ RetryableNeverUnwindsPivot

\* With verified adapters a pivot behind the loop has acted.
PivotActed ==
  pc \in ForwardPlaces =>
    /\ pivotCrossed => (\E k \in Sessions : <<Pivot, k>> \in eff)
                       \/ (cur = Pivot /\ pc \notin {"loop", "claim"})
    /\ pc = "escalate" => <<cur, session>> \notin eff
==============================================================================
