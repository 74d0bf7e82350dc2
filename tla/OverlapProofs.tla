----------------------------- MODULE OverlapProofs -----------------------------
(***************************************************************************)
(* What a /recover request cannot spoil, whenever it settles whichever rows: *)
(*                                                                         *)
(*   OverlapTypeCorrect     types                                          *)
(*   OverlapApproved        no row of a gated step without its approval     *)
(*   OverlapWriteAhead      rows before acts                               *)
(*   OverlapCommittedIsReal committed rows are real                        *)
(*                                                                         *)
(* Bookkeeping is too much to ask here: a settled row may be final while    *)
(* its attempt is under way.  Tracing is what is left of it.                *)
(***************************************************************************)
EXTENDS Overlap, CoordinatorProofs

\* Places of a step whose gate has been passed.
Admitted == ForwardPlaces \ {"loop"}

Gated ==
  /\ ApprovedBeforeIntent
  /\ pc \in Admitted /\ cur \in NeedsApproval => approvals[cur] = "granted"

\* A row exists wherever one is relied upon, whatever its status.
RowsExist ==
  /\ pc \in {"loop", "claim"} => attempt = 0
  /\ pc \in Attempting \/ (pc = "admit" /\ attempt > 0) => wal[cur][session] # "absent"
  /\ pc \in {"undo_mark", "undo_execute", "undo_result"} => cwal[undoing][session] # "absent"

Tracing ==
  /\ RowsExist
  /\ LateIsTracked
  /\ SuccessIsReal
  /\ WriteAhead
  /\ CommittedIsReal

RequestTyped ==
  /\ seen.eff \subseteq eff
  /\ listed \subseteq Steps \X Sessions
  /\ listedUndo \subseteq Steps \X Sessions

------------------------------------------------------------------------------
(* The coordinator's own steps *)

\* The only new rows of forward intents are those of the step the loop admits.
RowsOnlyIfAdmitted ==
  \A s \in Steps, k \in Sessions :
    wal'[s][k] # "absent" => wal[s][k] # "absent" \/ (s = cur /\ pc \in Admitted)

\* A recorded grant is not taken back.
GrantsStay == \A s \in Steps : approvals[s] = "granted" => approvals'[s] = "granted"

\* Updating a row makes none.
LEMMA UpdatesMakeNoRows ==
  ASSUME TypeOK, NEW s \in Steps, NEW k \in Sessions, NEW status, SetRow(s, k, status)
  PROVE  RowsOnlyIfAdmitted
BY SetRowIs DEF TypeOK, OtherRowsStay, RowsOnlyIfAdmitted

\* Forward steps write rows past the gate only, and keep what it decided.
LEMMA ForwardGates == TypeOK /\ StepForward => RowsOnlyIfAdmitted /\ GrantsStay
<1> SUFFICES ASSUME TypeOK, StepForward PROVE RowsOnlyIfAdmitted /\ GrantsStay
  OBVIOUS
<1> USE DEF durable
<1>1. CASE SkipCommitted \/ DeadlinePasses \/ Complete \/ NoApprovalNeeded \/ ReuseResult \/ ClaimKey
           \/ PostconditionFails \/ QueryUndetermined \/ EscalateForward
           \/ (\E o \in Outcomes : Execute(o)) \/ RecordSuccess
  <2>1. UNCHANGED <<wal, approvals>>
    BY <1>1 DEF SkipCommitted, DeadlinePasses, Complete, NoApprovalNeeded, ReuseResult, ClaimKey,
                PostconditionFails, QueryUndetermined, EscalateForward, Execute, RecordSuccess
  <2> QED
    BY <2>1 DEF RowsOnlyIfAdmitted, GrantsStay
<1>2. ASSUME NEW d \in {"granted", "denied"}, ResolveApproval(d)
      PROVE  RowsOnlyIfAdmitted /\ GrantsStay
  BY <1>2 DEF ResolveApproval, RowsOnlyIfAdmitted, GrantsStay, TypeOK, StoresTyped
<1>3. CASE Admit
  <2>1. cur \in Steps /\ session \in Sessions /\ pc \in Admitted
    BY <1>3, AtStep DEF Admit, Admitted, ForwardPlaces
  <2>2. UNCHANGED approvals /\ (WriteIntent(cur, session) \/ UNCHANGED wal)
    BY <1>3 DEF Admit, WriteAtFirst
  <2> QED
    BY <2>1, <2>2, WriteIntentIs DEF TypeOK, OtherRowsStay, RowsOnlyIfAdmitted, GrantsStay
<1>4. CASE FailFast
  <2>1. cur \in Steps /\ session \in Sessions /\ pc \in Admitted
    BY <1>4, AtStep DEF FailFast, Admitted, ForwardPlaces
  <2> QED
    BY <1>4, <2>1 DEF FailFast, TypeOK, LogTyped, RowsOnlyIfAdmitted, GrantsStay
<1>5. CASE MarkRunning \/ MissingAdapter \/ PostconditionPasses \/ MarkUnknown \/ QueryFinds
           \/ QueryFindsNothing
  <2>1. cur \in Steps /\ session \in Sessions
    BY <1>5, AtStep
    DEF MarkRunning, MissingAdapter, PostconditionPasses, MarkUnknown, QueryFinds,
        QueryFindsNothing, ForwardPlaces
  <2>2. UNCHANGED approvals /\ \E status \in Statuses : SetRow(cur, session, status)
    BY <1>5
    DEF MarkRunning, MissingAdapter, PostconditionPasses, MarkUnknown, QueryFinds,
        QueryFindsNothing, Statuses, Pending
  <2> QED
    BY <2>1, <2>2, UpdatesMakeNoRows DEF GrantsStay
<1>6. CASE Retry \/ GiveUpForward \/ GiveUpUnwinding
  <2>1. PICK next : HandleFailure(next)
    BY <1>6 DEF Retry, GiveUpForward, GiveUpUnwinding
  <2>2. cur \in Steps /\ session \in Sessions
    BY <2>1, AtStep DEF HandleFailure, ForwardPlaces
  <2>3. UNCHANGED approvals /\ (SetRow(cur, session, "FAILED") \/ UNCHANGED wal)
    BY <2>1 DEF HandleFailure
  <2> QED
    BY <2>2, <2>3, UpdatesMakeNoRows DEF GrantsStay, RowsOnlyIfAdmitted
<1> QED
  BY <1>1, <1>2, <1>3, <1>4, <1>5, <1>6 DEF StepForward

\* What holds past the gate holds until the loop is at the next step.
LEMMA GatedForward == TypeOK /\ Gated /\ StepForward => Gated'
<1> SUFFICES ASSUME TypeOK, Gated, StepForward PROVE Gated'
  OBVIOUS
<1>1. RowsOnlyIfAdmitted /\ GrantsStay
  BY ForwardGates
<1>2. ApprovedBeforeIntent'
  BY <1>1, PlanAssumption DEF Gated, ApprovedBeforeIntent, RowsOnlyIfAdmitted, GrantsStay
<1>3. pc' \in Admitted /\ cur' \in NeedsApproval => approvals'[cur'] = "granted"
  <2> USE DEF Admitted, ForwardPlaces
  <2>1. CASE pc = "loop"
    BY <2>1, PlanAssumption
    DEF StepForward, SkipCommitted, DeadlinePasses, Complete, ResolveApproval, Granted,
        NoApprovalNeeded, ReuseResult, ClaimKey, Admit, FailFast, MarkRunning, MissingAdapter,
        Execute, PostconditionPasses, PostconditionFails, RecordSuccess, MarkUnknown, QueryFinds,
        QueryFindsNothing, QueryUndetermined, Retry, GiveUpForward, GiveUpUnwinding,
        HandleFailure, EscalateForward, progress, durable, TypeOK, StoresTyped
  <2>2. CASE pc # "loop"
    <3>1. pc \in Admitted /\ (UNCHANGED cur \/ pc' = "loop")
      BY <2>2
      DEF StepForward, SkipCommitted, DeadlinePasses, Complete, ResolveApproval,
          NoApprovalNeeded, ReuseResult, ClaimKey, MarkCompleted, Admit, FailFast, MarkRunning,
          MissingAdapter, Execute, PostconditionPasses, PostconditionFails, RecordSuccess,
          MarkUnknown, QueryFinds, QueryFindsNothing, QueryUndetermined, Retry, GiveUpForward,
          GiveUpUnwinding, HandleFailure, EscalateForward, progress
    <3> QED
      BY <3>1, <1>1, PlanAssumption DEF Gated, GrantsStay
  <2> QED
    BY <2>1, <2>2
<1> QED
  BY <1>2, <1>3 DEF Gated

\* A step that writes no row and takes no decision, and does not enter a step's body.
LEMMA GatedElsewhere ==
  ASSUME Gated, UNCHANGED approvals,
         \A s \in Steps, k \in Sessions : wal'[s][k] # "absent" => wal[s][k] # "absent",
         pc' \notin Admitted \/ UNCHANGED <<pc, cur>>
  PROVE  Gated'
BY PlanAssumption DEF Gated, ApprovedBeforeIntent

\* What settling a row does, whoever settles it and whenever: the row stays, and it is
\* committed only if its tool acted.
RowsSettled ==
  /\ UNCHANGED <<approvals, reuse, dlq, session, world, pc, run, progress, completed, breaker,
                 unwinding>>
  /\ \/ UNCHANGED <<wal, cwal>>
     \/ /\ UNCHANGED cwal
        /\ \E s \in Steps, k \in Sessions, status \in Statuses \ {"absent"} :
             /\ SetRow(s, k, status)
             /\ status = "COMMITTED" => <<s, k>> \in eff
     \/ /\ UNCHANGED wal
        /\ \E s \in Steps, k \in Sessions, status \in Statuses \ {"absent"} :
             SetUndoRow(s, k, status)

\* Recovery does.
LEMMA ReconcileSettles == Reconcile => RowsSettled
<1> SUFFICES ASSUME NEW s \in Steps, NEW k \in Sessions, ReconcileRow(s, k) \/ ReconcileUndoRow(s, k)
             PROVE  RowsSettled
  BY DEF Reconcile
<1>1. CASE ReconcileRow(s, k)
  <2>1. PICK answer \in Answers(<<s, k>> \in eff) :
          SetRow(s, k, IF s \in Adapterless THEN "ESCALATED"
                       ELSE IF answer = "found" THEN "COMMITTED" ELSE "FAILED")
    BY <1>1 DEF ReconcileRow
  <2>2. answer = "found" => <<s, k>> \in eff
    BY DEF Answers
  <2>3. \E status \in Statuses \ {"absent"} :
          SetRow(s, k, status) /\ (status = "COMMITTED" => <<s, k>> \in eff)
    BY <2>1, <2>2 DEF Statuses, Pending
  <2> QED
    BY <1>1, <2>3 DEF ReconcileRow, RowsSettled
<1>2. CASE ReconcileUndoRow(s, k)
  <2>1. \E status \in Statuses \ {"absent"} : SetUndoRow(s, k, status)
    BY <1>2 DEF ReconcileUndoRow, Statuses, Pending
  <2> QED
    BY <1>2, <2>1 DEF ReconcileUndoRow, RowsSettled
<1> QED
  BY <1>1, <1>2

\* Rows that are settled exist, so none appears before its approval.
LEMMA SettledGated == TypeOK /\ Gated /\ RowsSettled => Gated'
<1> SUFFICES ASSUME TypeOK, Gated, RowsSettled PROVE Gated'
  OBVIOUS
<1>1. LogTyped
  BY DEF TypeOK
<1>2. CASE UNCHANGED wal
  BY <1>2, GatedElsewhere DEF RowsSettled, progress
<1>3. ASSUME NEW s \in Steps, NEW k \in Sessions, NEW status \in Statuses \ {"absent"}, SetRow(s, k, status)
      PROVE  Gated'
  <2>1. \A i \in Steps, j \in Sessions : wal'[i][j] # "absent" => wal[i][j] # "absent"
    BY <1>1, <1>3, SetRowIs DEF OtherRowsStay
  <2> QED
    BY <2>1, GatedElsewhere DEF RowsSettled, progress
<1> QED
  BY <1>2, <1>3 DEF RowsSettled

\* Rows of forward intents only appear in the forward loop.
LEMMA GatedNext == TypeOK /\ Gated /\ [Next]_vars => Gated'
<1> SUFFICES ASSUME TypeOK, Gated, [Next]_vars PROVE Gated'
  OBVIOUS
<1> USE DEF durable, Admitted, ForwardPlaces
<1>1. CASE StepForward
  BY <1>1, GatedForward
<1>2. CASE StepBackward
  <2>1. UNCHANGED <<wal, approvals>> /\ pc' \notin Admitted
    BY <1>2
    DEF StepBackward, Recover, UndoBlocked, UndoStart, UndoMark, UndoExecute, UndoSucceeds,
        UndoFails, DeadLetter, NextAction, FinishRecovery
  <2> QED
    BY <2>1, GatedElsewhere
<1>3. CASE RunWorkflow \/ ResumeWorkflow \/ Crash \/ Reopen
  <2>1. UNCHANGED <<wal, approvals>> /\ pc' \notin Admitted
    BY <1>3 DEF RunWorkflow, ResumeWorkflow, NewSession, Crash, Reopen, LoseProcess
  <2> QED
    BY <2>1, GatedElsewhere
<1>4. CASE Reconcile
  BY <1>4, ReconcileSettles, SettledGated
<1>5. CASE Land \/ UNCHANGED vars
  <2>1. UNCHANGED <<wal, approvals, pc, cur>>
    BY <1>5 DEF Land, LandEffect, LandUndo, vars, progress
  <2> QED
    BY <2>1, GatedElsewhere
<1> QED
  BY <1>1, <1>2, <1>3, <1>4, <1>5 DEF Next, CoordinatorStep

\* No row, no decision, no step under way.
LEMMA GatedInit == Init => Gated
BY PlanAssumption DEF Init, Gated, ApprovedBeforeIntent, Admitted, ForwardPlaces

\* THEOREM: every intent of a step that needs approval has one, over all sessions.
THEOREM ApprovedBeforeIntentCorrect == Spec => []ApprovedBeforeIntent
<1>1. Gated => ApprovedBeforeIntent
  BY DEF Gated
<1> QED
  BY TypeCorrect, GatedInit, GatedNext, <1>1, PTL DEF Spec

------------------------------------------------------------------------------
(* The request's steps *)

\* A request finds what its adapters saw, and what they saw has happened.
LEMMA RequestSettles == RequestTyped /\ Request => RowsSettled
<1> SUFFICES ASSUME RequestTyped, Request PROVE RowsSettled
  OBVIOUS
<1>1. CASE LoadWorld \/ ListPending \/ Answered
  BY <1>1 DEF LoadWorld, ListPending, Answered, vars, durable, RowsSettled
<1>2. ASSUME NEW s \in Steps, NEW k \in Sessions, Settle(s, k) PROVE RowsSettled
  <2>1. PICK answer \in Answers(<<s, k>> \in seen.eff) :
          SetRow(s, k, IF s \in Adapterless THEN "ESCALATED" ELSE Settlement(answer))
    BY <1>2 DEF Settle
  <2> DEFINE status == IF s \in Adapterless THEN "ESCALATED" ELSE Settlement(answer)
  <2>2. status \in Statuses \ {"absent"} /\ (status = "COMMITTED" => answer = "found")
    BY DEF Settlement, Statuses, Pending
  <2>3. answer = "found" => <<s, k>> \in eff
    BY DEF Answers, RequestTyped
  <2> HIDE DEF status
  <2>4. \E st \in Statuses \ {"absent"} : SetRow(s, k, st) /\ (st = "COMMITTED" => <<s, k>> \in eff)
    BY <2>1, <2>2, <2>3 DEF status
  <2> QED
    BY <1>2, <2>4 DEF Settle, RowsSettled
<1>3. ASSUME NEW s \in Steps, NEW k \in Sessions, SettleUndo(s, k) PROVE RowsSettled
  <2>1. \A answer : Settlement(answer) \in Statuses \ {"absent"}
    BY DEF Settlement, Statuses, Pending
  <2>2. \E status \in Statuses \ {"absent"} : SetUndoRow(s, k, status)
    BY <1>3, <2>1 DEF SettleUndo
  <2> QED
    BY <1>3, <2>2 DEF SettleUndo, RowsSettled
<1> QED
  BY <1>1, <1>2, <1>3 DEF Request

\* A request's own state: what its adapters know of stays done.
LEMMA RequestKept ==
  TypeOK /\ RequestTyped /\ OverlapNext => RequestTyped'
<1> SUFFICES ASSUME TypeOK, RequestTyped, OverlapNext PROVE RequestTyped'
  OBVIOUS
<1>1. CASE Next /\ UNCHANGED requestVars
  <2>1. eff \subseteq eff'
    BY <1>1
    DEF Next, CoordinatorStep, StepForward, StepBackward, RunWorkflow, ResumeWorkflow, NewSession,
        SkipCommitted, DeadlinePasses, Complete, ResolveApproval, NoApprovalNeeded, ReuseResult,
        ClaimKey, Admit, FailFast, MarkRunning, MissingAdapter, Execute, PostconditionPasses,
        PostconditionFails, RecordSuccess, MarkUnknown, QueryFinds, QueryFindsNothing,
        QueryUndetermined, Retry, GiveUpForward, GiveUpUnwinding, HandleFailure, EscalateForward,
        Recover, UndoBlocked, UndoStart, UndoMark, UndoExecute, UndoSucceeds, UndoFails,
        DeadLetter, FinishRecovery, Crash, Reopen, LoseProcess, Reconcile, ReconcileRow,
        ReconcileUndoRow, Land, LandEffect, LandUndo, world
  <2> QED
    BY <1>1, <2>1 DEF requestVars, RequestTyped
<1>2. CASE LoadWorld \/ ListPending \/ Answered
  BY <1>2
  DEF LoadWorld, ListPending, Answered, NothingSeen, PendingRows, PendingUndoRows, RequestTyped,
      vars, world
<1>3. CASE \E s \in Steps, k \in Sessions : Settle(s, k) \/ SettleUndo(s, k)
  BY <1>3 DEF Settle, SettleUndo, RequestTyped, world
<1> QED
  BY <1>1, <1>2, <1>3 DEF OverlapNext, Request

\* Types survive the settling of rows.
LEMMA SettledTyped == TypeOK /\ RowsSettled => TypeOK'
<1> SUFFICES ASSUME TypeOK, RowsSettled PROVE TypeOK'
  OBVIOUS
<1>1. LogTyped'
  BY RowTyped DEF TypeOK, RowsSettled, LogTyped
<1>2. StoresTyped' /\ WorldTyped' /\ ProgressTyped' /\ CompletedTyped' /\ BreakerTyped'
      /\ UnwindingTyped' /\ PlacesTyped'
  BY DEF TypeOK, RowsSettled, StoresTyped, WorldTyped, ProgressTyped, CompletedTyped, BreakerTyped,
         UnwindingTyped, PlacesTyped, world, progress, completed, unwinding
<1> QED
  BY <1>1, <1>2 DEF TypeOK

\* The coordinator's steps keep types.
LEMMA TypeNext == TypeOK /\ [Next]_vars => TypeOK'
<1> SUFFICES ASSUME TypeOK, [Next]_vars PROVE TypeOK'
  OBVIOUS
<1>1. CASE Next
  BY <1>1, TypeForward, TypeBackward, TypeSessions, TypeWorld DEF Next, CoordinatorStep
<1>2. CASE UNCHANGED vars
  <2>1. ProgressTyped'
    BY <1>2 DEF TypeOK, ProgressTyped, vars, progress
  <2>2. PlacesTyped'
    BY <1>2 DEF TypeOK, PlacesTyped, vars, progress, completed, unwinding
  <2> QED
    BY <1>2, <2>1, <2>2, Frames DEF TypeOK, vars, durable
<1> QED
  BY <1>1, <1>2

\* Steps of either side, and of neither, for the variables of the coordinator.
LEMMA EitherSide ==
  RequestTyped /\ [OverlapNext]_overlapVars => [Next]_vars \/ RowsSettled
BY RequestSettles DEF OverlapNext, overlapVars

\* The request's state does not change with the others'.
LEMMA RequestStep == TypeOK /\ RequestTyped /\ [OverlapNext]_overlapVars => RequestTyped'
<1>1. RequestTyped /\ UNCHANGED overlapVars => RequestTyped'
  BY DEF RequestTyped, overlapVars, requestVars, vars, world
<1> QED
  BY <1>1, RequestKept

\* No request is under way at first.
LEMMA OverlapInitially == OverlapInit => TypeOK /\ RequestTyped /\ Gated
BY TypeInit, GatedInit DEF OverlapInit, NothingSeen, RequestTyped, Init

\* THEOREM: types hold with a request settling rows at any time.
THEOREM OverlapTypeCorrect == OverlapSpec => [](TypeOK /\ RequestTyped)
<1>1. TypeOK /\ RequestTyped /\ [OverlapNext]_overlapVars => (TypeOK /\ RequestTyped)'
  BY EitherSide, TypeNext, SettledTyped, RequestStep
<1> QED
  BY OverlapInitially, <1>1, PTL DEF OverlapSpec

\* THEOREM: so does the gate; no settled row stands for a step nobody approved.
THEOREM OverlapApproved == OverlapSpec => []ApprovedBeforeIntent
<1>1. TypeOK /\ RequestTyped /\ Gated /\ [OverlapNext]_overlapVars => Gated'
  BY EitherSide, GatedNext, SettledGated
<1>2. Gated => ApprovedBeforeIntent
  BY DEF Gated
<1> QED
  BY OverlapTypeCorrect, OverlapInitially, <1>1, <1>2, PTL DEF OverlapSpec

------------------------------------------------------------------------------
(* Tracing *)

\* What entitles the coordinator to commit the row of the attempt under way.
Evidence == (pc = "verify" /\ result = "ok") \/ <<cur, session>> \in eff

\* The forward loop writes one row at a time, never removes one, and commits on evidence.
ForwardWrite ==
  /\ UNCHANGED cwal
  /\ \/ UNCHANGED wal
     \/ /\ cur \in Steps /\ session \in Sessions
        /\ OtherRowsStay(cur, session)
        /\ wal'[cur][session] = "absent" => wal[cur][session] = "absent"
        /\ wal'[cur][session] = "COMMITTED" => wal[cur][session] = "COMMITTED" \/ Evidence

\* Every forward step writes so.
LEMMA ForwardWrites == TypeOK /\ StepForward => ForwardWrite
<1> SUFFICES ASSUME TypeOK, StepForward PROVE ForwardWrite
  OBVIOUS
<1> USE DEF durable
<1>1. CASE SkipCommitted \/ DeadlinePasses \/ Complete \/ NoApprovalNeeded \/ ReuseResult \/ ClaimKey
           \/ PostconditionFails \/ QueryUndetermined \/ EscalateForward \/ RecordSuccess
           \/ (\E o \in Outcomes : Execute(o)) \/ (\E d \in {"granted", "denied"} : ResolveApproval(d))
  BY <1>1 DEF SkipCommitted, DeadlinePasses, Complete, NoApprovalNeeded, ReuseResult, ClaimKey,
              PostconditionFails, QueryUndetermined, EscalateForward, Execute, RecordSuccess,
              ResolveApproval, ForwardWrite
<1>2. CASE Admit
  <2>1. cur \in Steps /\ session \in Sessions
    BY <1>2, AtStep DEF Admit, ForwardPlaces
  <2>2. UNCHANGED cwal /\ (WriteIntent(cur, session) \/ UNCHANGED wal)
    BY <1>2 DEF Admit, WriteAtFirst
  <2> QED
    BY <2>1, <2>2, WriteIntentIs DEF TypeOK, ForwardWrite
<1>3. CASE FailFast
  <2>1. cur \in Steps /\ session \in Sessions
    BY <1>3, AtStep DEF FailFast, ForwardPlaces
  <2> QED
    BY <1>3, <2>1 DEF FailFast, TypeOK, LogTyped, ForwardWrite, OtherRowsStay
<1>4. CASE MarkRunning \/ MissingAdapter \/ PostconditionPasses \/ MarkUnknown \/ QueryFinds
           \/ QueryFindsNothing
  <2>1. cur \in Steps /\ session \in Sessions
    BY <1>4, AtStep
    DEF MarkRunning, MissingAdapter, PostconditionPasses, MarkUnknown, QueryFinds,
        QueryFindsNothing, ForwardPlaces
  <2>2. /\ UNCHANGED cwal
        /\ \E status : /\ SetRow(cur, session, status)
                       /\ status # "absent"
                       /\ status = "COMMITTED" => Evidence
    BY <1>4
    DEF MarkRunning, MissingAdapter, PostconditionPasses, Verified, MarkUnknown, QueryFinds,
        Answers, QueryFindsNothing, Evidence
  <2> QED
    BY <2>1, <2>2, SetRowIs DEF TypeOK, ForwardWrite
<1>5. CASE Retry \/ GiveUpForward \/ GiveUpUnwinding
  <2>1. PICK next : HandleFailure(next)
    BY <1>5 DEF Retry, GiveUpForward, GiveUpUnwinding
  <2>2. cur \in Steps /\ session \in Sessions
    BY <2>1, AtStep DEF HandleFailure, ForwardPlaces
  <2>3. UNCHANGED cwal /\ (SetRow(cur, session, "FAILED") \/ UNCHANGED wal)
    BY <2>1 DEF HandleFailure
  <2> QED
    BY <2>2, <2>3, SetRowIs DEF TypeOK, ForwardWrite
<1> QED
  BY <1>1, <1>2, <1>3, <1>4, <1>5 DEF StepForward

\* Written so, rows stay and what is committed is real.
LEMMA ForwardWriteKeeps ==
  ASSUME Tracing, ForwardWrite, eff \subseteq eff'
  PROVE  RowsPersist /\ CommittedIsReal'
BY DEF Tracing, CommittedIsReal, SuccessIsReal, ForwardWrite, OtherRowsStay, RowsPersist, Evidence

\* Who calls, or reads an answer, has a row.
LEMMA RowsExistForward == TypeOK /\ Tracing /\ StepForward /\ RowsPersist => RowsExist'
<1> SUFFICES ASSUME TypeOK, Tracing, StepForward, RowsPersist PROVE RowsExist'
  OBVIOUS
<1> USE DEF Tracing, RowsExist, Attempting, durable, progress
<1>1. CASE SkipCommitted \/ DeadlinePasses \/ Complete \/ NoApprovalNeeded \/ ReuseResult \/ ClaimKey
           \/ EscalateForward \/ RecordSuccess \/ MissingAdapter \/ PostconditionPasses \/ FailFast
           \/ QueryFinds \/ GiveUpForward \/ GiveUpUnwinding
           \/ (\E d \in {"granted", "denied"} : ResolveApproval(d))
  BY <1>1, PlanAssumption
  DEF SkipCommitted, DeadlinePasses, Complete, NoApprovalNeeded, ReuseResult, ClaimKey,
      EscalateForward, RecordSuccess, MissingAdapter, PostconditionPasses, FailFast, QueryFinds,
      GiveUpForward, GiveUpUnwinding, HandleFailure, ResolveApproval, MarkCompleted
<1>2. CASE Admit
  <2>1. cur \in Steps /\ session \in Sessions /\ attempt \in Nat /\ LogTyped
    BY <1>2, AtStep DEF Admit, ForwardPlaces, TypeOK, ProgressTyped
  <2>2. wal'[cur][session] # "absent"
    BY <1>2, <2>1, WriteIntentIs DEF Admit, WriteAtFirst, RowsPersist
  <2> QED
    BY <1>2, <2>2 DEF Admit
<1>3. CASE MarkRunning \/ MarkUnknown \/ PostconditionFails \/ QueryFindsNothing \/ QueryUndetermined
           \/ Retry \/ \E o \in Outcomes : Execute(o)
  <2>1. cur \in Steps /\ session \in Sessions
    BY <1>3, AtStep
    DEF MarkRunning, MarkUnknown, PostconditionFails, QueryFindsNothing, QueryUndetermined, Retry,
        HandleFailure, Execute, ForwardPlaces
  <2>2. /\ UNCHANGED <<cur, session, attempt>> /\ pc \in Attempting
        /\ pc' \in Attempting \cup {"admit"}
    BY <1>3, OutcomeClassified
    DEF MarkRunning, MarkUnknown, PostconditionFails, QueryFindsNothing, QueryUndetermined, Retry,
        HandleFailure, Execute
  <2> QED
    BY <2>1, <2>2 DEF RowsPersist
<1> QED
  BY <1>1, <1>2, <1>3 DEF StepForward

\* A step of the forward loop acts only for a row that exists.
LEMMA TracingForward == TypeOK /\ Tracing /\ StepForward => Tracing'
<1> SUFFICES ASSUME TypeOK, Tracing, StepForward PROVE Tracing'
  OBVIOUS
<1>1. ASSUME NEW o \in Outcomes, Execute(o) PROVE Tracing'
  <2>1. cur \in Steps /\ session \in Sessions /\ wal[cur][session] # "absent"
    BY <1>1, AtStep DEF Execute, ForwardPlaces, Tracing, RowsExist, Attempting
  <2>2. RowsPersist /\ CommittedIsReal'
    BY <1>1, ForwardWrites, ForwardWriteKeeps DEF Execute
  <2>3. WriteAhead' /\ LateIsTracked'
    BY <1>1, <2>1 DEF Execute, durable, Tracing, WriteAhead, LateIsTracked
  <2>4. SuccessIsReal'
    BY <1>1, OkActs DEF Execute, SuccessIsReal
  <2> QED
    BY <2>2, <2>3, <2>4, RowsExistForward DEF Tracing
<1>2. CASE ~\E o \in Outcomes : Execute(o)
  <2>1. UNCHANGED world /\ pc' # "verify"
    BY <1>2
    DEF StepForward, SkipCommitted, DeadlinePasses, Complete, ResolveApproval, Granted,
        NoApprovalNeeded, ReuseResult, ClaimKey, MarkCompleted, Admit, FailFast, MarkRunning,
        MissingAdapter, PostconditionPasses, PostconditionFails, RecordSuccess, MarkUnknown,
        QueryFinds, QueryFindsNothing, QueryUndetermined, Retry, GiveUpForward, GiveUpUnwinding,
        HandleFailure, EscalateForward
  <2>2. RowsPersist /\ CommittedIsReal'
    BY <2>1, ForwardWrites, ForwardWriteKeeps DEF world
  <2>3. WriteAhead' /\ LateIsTracked'
    BY <2>1, <2>2, Persistence DEF Tracing, world
  <2> QED
    BY <2>1, <2>2, <2>3, RowsExistForward DEF Tracing, SuccessIsReal
<1> QED
  BY <1>1, <1>2

\* Nor does the unwinding act, or expect an answer, without a row.
LEMMA TracingBackward == TypeOK /\ Tracing /\ StepBackward => Tracing'
<1> SUFFICES ASSUME TypeOK, Tracing, StepBackward PROVE Tracing'
  OBVIOUS
<1> USE DEF Tracing, RowsExist, Attempting, durable, progress, unwinding, world, NextAction
<1>1. UNCHANGED <<wal, eff>> /\ pc' # "verify"
  BY DEF StepBackward, Recover, UndoBlocked, UndoStart, UndoMark, UndoExecute, UndoSucceeds,
         UndoFails, DeadLetter, FinishRecovery
<1>2. CommittedIsReal' /\ SuccessIsReal'
  BY <1>1 DEF CommittedIsReal, SuccessIsReal
<1>3. CASE Recover \/ (\E s \in Steps : UndoBlocked(s)) \/ DeadLetter \/ FinishRecovery
  <2>1. UNCHANGED <<cwal, undone, inflight>> /\ pc' \in {"undo", "letter", "done"}
    BY <1>3 DEF Recover, UndoBlocked, DeadLetter, FinishRecovery
  <2> QED
    BY <1>1, <1>2, <2>1 DEF WriteAhead, LateIsTracked
<1>4. ASSUME NEW s \in Steps, UndoStart(s) PROVE Tracing'
  <2>1. session \in Sessions /\ LogTyped
    BY <1>4, Running DEF UndoStart, TypeOK
  <2>2. cwal'[s][session] = "PENDING" /\ RowsPersist
    BY <1>1, <1>4, <2>1, WriteUndoIntentIs DEF UndoStart, OtherUndoRowsStay, RowsPersist
  <2>3. UNCHANGED <<eff, undone, inflight, session>> /\ undoing' = s /\ pc' = "undo_mark"
    BY <1>4 DEF UndoStart
  <2> QED
    BY <1>2, <2>2, <2>3, Persistence
<1>5. CASE UndoMark \/ UndoSucceeds \/ \E status \in {"FAILED", "UNKNOWN"} : UndoFails(status)
  <2>1. undoing \in Steps /\ session \in Sessions /\ LogTyped
    BY <1>5, Unwinding DEF UndoMark, UndoSucceeds, UndoFails, TypeOK
  <2>2. RowsPersist
    <3>1. PICK status : status # "absent" /\ SetUndoRow(undoing, session, status)
      BY <1>5 DEF UndoMark, UndoSucceeds, UndoFails
    <3> QED
      BY <1>1, <2>1, <3>1, SetUndoRowIs DEF OtherUndoRowsStay, RowsPersist
  <2>3. UNCHANGED <<undone, inflight, session>> /\ pc \in {"undo_mark", "undo_result"}
    BY <1>5 DEF UndoMark, UndoSucceeds, UndoFails
  <2>4. (pc' = "undo") \/ (UNCHANGED undoing /\ pc' \in {"undo_mark", "undo_execute", "letter"})
    BY <1>5 DEF UndoMark, UndoSucceeds, UndoFails
  <2>5. RowsExist'
    BY <2>1, <2>2, <2>3, <2>4 DEF RowsPersist
  <2> QED
    BY <1>1, <1>2, <2>2, <2>3, <2>5, Persistence
<1>6. ASSUME NEW o \in Outcomes, UndoExecute(o) PROVE Tracing'
  <2>1. /\ undoing \in Steps /\ session \in Sessions /\ src[undoing] \in Sessions
        /\ cwal[undoing][session] # "absent"
    BY <1>6, Unwinding DEF UndoExecute
  <2>2. WriteAhead' /\ LateIsTracked'
    BY <1>6, <2>1 DEF UndoExecute, WriteAhead, LateIsTracked
  <2>3. RowsExist'
    BY <1>6, <2>1 DEF UndoExecute
  <2> QED
    BY <1>2, <2>2, <2>3
<1> QED
  BY <1>3, <1>4, <1>5, <1>6 DEF StepBackward

\* A process that starts or ends has nothing under way.
LEMMA TracingSessions ==
  Tracing /\ (RunWorkflow \/ ResumeWorkflow \/ Crash \/ Reopen) => Tracing'
<1> SUFFICES ASSUME Tracing, RunWorkflow \/ ResumeWorkflow \/ Crash \/ Reopen PROVE Tracing'
  OBVIOUS
<1>1. UNCHANGED <<wal, cwal, eff, undone, inflight>> /\ pc' \in {"loop", "down"} /\ attempt' = 0
  BY DEF RunWorkflow, ResumeWorkflow, NewSession, Crash, Reopen, LoseProcess, durable, world
<1> QED
  BY <1>1
  DEF Tracing, RowsExist, Attempting, LateIsTracked, SuccessIsReal, WriteAhead, CommittedIsReal

\* Recovery, or a request, may finish off the row of a live attempt: it is still there.
LEMMA TracingSettled == TypeOK /\ Tracing /\ RowsSettled => Tracing'
<1> SUFFICES ASSUME TypeOK, Tracing, RowsSettled PROVE Tracing'
  OBVIOUS
<1>1. LogTyped
  BY DEF TypeOK
<1>2. RowsPersist /\ CommittedIsReal'
  <2>1. CASE UNCHANGED <<wal, cwal>>
    BY <2>1 DEF RowsSettled, Tracing, RowsPersist, CommittedIsReal, world
  <2>2. ASSUME UNCHANGED cwal, NEW s \in Steps, NEW k \in Sessions, NEW status \in Statuses \ {"absent"},
               SetRow(s, k, status), status = "COMMITTED" => <<s, k>> \in eff
        PROVE  RowsPersist /\ CommittedIsReal'
    BY <1>1, <2>2, SetRowIs
    DEF RowsSettled, OtherRowsStay, Tracing, RowsPersist, CommittedIsReal, world
  <2>3. ASSUME UNCHANGED wal, NEW s \in Steps, NEW k \in Sessions,
               NEW status \in Statuses \ {"absent"}, SetUndoRow(s, k, status)
        PROVE  RowsPersist /\ CommittedIsReal'
    BY <1>1, <2>3, SetUndoRowIs
    DEF RowsSettled, OtherUndoRowsStay, Tracing, RowsPersist, CommittedIsReal, world
  <2> QED
    BY <2>1, <2>2, <2>3 DEF RowsSettled
<1>3. WriteAhead' /\ LateIsTracked'
  BY <1>2, Persistence DEF RowsSettled, Tracing, world
<1>4. RowsExist'
  <2>1. pc \in Attempting \/ (pc = "admit" /\ attempt > 0) => cur \in Steps /\ session \in Sessions
    BY AtStep DEF Attempting, ForwardPlaces
  <2>2. pc \in {"undo_mark", "undo_execute", "undo_result"} => undoing \in Steps /\ session \in Sessions
    BY Unwinding
  <2> QED
    BY <1>2, <2>1, <2>2 DEF RowsSettled, Tracing, RowsExist, RowsPersist, Attempting, progress, unwinding
<1>5. SuccessIsReal'
  BY DEF RowsSettled, Tracing, SuccessIsReal, world, progress
<1> QED
  BY <1>2, <1>3, <1>4, <1>5 DEF Tracing

\* What a request given up on still does, has its row.
LEMMA TracingLand == TypeOK /\ Tracing /\ Land => Tracing'
<1> SUFFICES ASSUME TypeOK, Tracing, Land PROVE Tracing'
  OBVIOUS
<1> USE DEF Tracing, RowsExist, SuccessIsReal, CommittedIsReal, WriteAhead, LateIsTracked, durable,
            progress, unwinding
<1>1. ASSUME NEW s \in Steps, NEW k \in Sessions, LandEffect(s, k) PROVE Tracing'
  BY <1>1 DEF LandEffect
<1>2. ASSUME NEW s \in Steps, NEW j \in Sessions, NEW k \in Sessions, LandUndo(s, j, k)
      PROVE  Tracing'
  BY <1>2 DEF LandUndo
<1> QED
  BY <1>1, <1>2 DEF Land

\* All the coordinator's steps.
LEMMA TracingNext == TypeOK /\ Tracing /\ [Next]_vars => Tracing'
<1>1. Tracing /\ UNCHANGED vars => Tracing'
  BY DEF Tracing, RowsExist, Attempting, LateIsTracked, SuccessIsReal, WriteAhead, CommittedIsReal,
         vars, durable, world, progress, unwinding
<1> QED
  BY <1>1, TracingForward, TracingBackward, TracingSessions, ReconcileSettles, TracingSettled,
     TracingLand DEF Next, CoordinatorStep

\* Nothing happened yet.
LEMMA TracingInit == Init => Tracing
BY DEF Init, Tracing, RowsExist, Attempting, LateIsTracked, SuccessIsReal, WriteAhead,
       CommittedIsReal

\* What is traced stays traced, whatever a request settles.
LEMMA TracingAlways == OverlapSpec => []Tracing
<1>1. TypeOK /\ RequestTyped /\ Tracing /\ [OverlapNext]_overlapVars => Tracing'
  BY EitherSide, TracingNext, TracingSettled
<1>2. OverlapInit => Tracing
  BY TracingInit DEF OverlapInit
<1> QED
  BY OverlapTypeCorrect, <1>1, <1>2, PTL DEF OverlapSpec

\* THEOREM: a request never leaves an act without its row, ...
THEOREM OverlapWriteAhead == OverlapSpec => []WriteAhead
<1>1. Tracing => WriteAhead
  BY DEF Tracing
<1> QED
  BY TracingAlways, <1>1, PTL

\* THEOREM: ... nor a committed row whose tool did not act.
THEOREM OverlapCommittedIsReal == OverlapSpec => []CommittedIsReal
<1>1. Tracing => CommittedIsReal
  BY DEF Tracing
<1> QED
  BY TracingAlways, <1>1, PTL
==============================================================================
