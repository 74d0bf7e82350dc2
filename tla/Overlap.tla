-------------------------------- MODULE Overlap --------------------------------
(***************************************************************************)
(* The HTTP service beside the coordinator.  service.py serves every        *)
(* request in a thread of its own and nothing ties the requests for a run   *)
(* together, so POST /recover may go through the write-ahead log while the  *)
(* run's coordinator is at work in another thread, or after its process     *)
(* died or ended the run.                                                  *)
(*                                                                         *)
(* The recovering request is not atomic: its adapters load the state of the *)
(* outside world, then it reads the pending rows, then it settles them one  *)
(* by one, by what it saw in the beginning and with unconditional updates.  *)
(*                                                                         *)
(* Elsewhere: POST /run makes a run of its own, POST /approve is the        *)
(* decide() of Approvals.tla.                                              *)
(***************************************************************************)
EXTENDS Coordinator

VARIABLES
  request,    \* the /recover request: "none", "loaded" or "settling"
  seen,       \* what its adapters know to have happened, in eff and in undone
  listed,     \* forward rows it has still to settle
  listedUndo  \* rows of compensations it has still to settle

requestVars == <<request, seen, listed, listedUndo>>
overlapVars == <<vars, requestVars>>

NothingSeen == [eff |-> {}, undone |-> {}]

OverlapInit ==
  /\ Init
  /\ request = "none" /\ seen = NothingSeen /\ listed = {} /\ listedUndo = {}

\* AATMEngine.recover builds a registry of its own, over the world file as it is.
LoadWorld ==
  /\ request = "none" /\ pc # "idle"
  /\ request' = "loaded"
  /\ seen' = [eff |-> eff, undone |-> undone]
  /\ UNCHANGED <<vars, listed, listedUndo>>

\* RecoveryManager.recover: pending_entries, read once.
ListPending ==
  /\ request = "loaded"
  /\ request' = "settling"
  /\ listed' = PendingRows /\ listedUndo' = PendingUndoRows
  /\ UNCHANGED <<vars, seen>>

\* A bug: a row in doubt is committed.
Optimistic(answer) == "COMMITTED"
Settlement(answer) == IF answer = "found" THEN "COMMITTED" ELSE "FAILED"

\* _reconcile_entry, whatever has become of the row since it was listed.
Settle(s, k) ==
  /\ request = "settling" /\ <<s, k>> \in listed
  /\ \E answer \in Answers(<<s, k>> \in seen.eff) :
       SetRow(s, k, IF s \in Adapterless THEN "ESCALATED" ELSE Settlement(answer))
  /\ listed' = listed \ {<<s, k>>}
  /\ UNCHANGED <<cwal, approvals, reuse, dlq, session, world, pc, run, progress, completed,
                 breaker, unwinding, request, seen, listedUndo>>

SeenUndone(s, k) == \E j \in Sessions : <<s, k, j>> \in seen.undone
SettleUndo(s, k) ==
  /\ request = "settling" /\ <<s, k>> \in listedUndo
  /\ \E answer \in UndoAnswers(SeenUndone(s, k)) : SetUndoRow(s, k, Settlement(answer))
  /\ listedUndo' = listedUndo \ {<<s, k>>}
  /\ UNCHANGED <<wal, approvals, reuse, dlq, session, world, pc, run, progress, completed,
                 breaker, unwinding, request, seen, listed>>

Answered ==
  /\ request = "settling" /\ listed = {} /\ listedUndo = {}
  /\ request' = "none" /\ seen' = NothingSeen
  /\ UNCHANGED <<vars, listed, listedUndo>>

Request ==
  \/ LoadWorld \/ ListPending \/ Answered
  \/ \E s \in Steps, k \in Sessions : Settle(s, k) \/ SettleUndo(s, k)

OverlapNext == (Next /\ UNCHANGED requestVars) \/ Request

OverlapSpec == OverlapInit /\ [][OverlapNext]_overlapVars

(* WriteAhead, CommittedIsReal and ApprovedBeforeIntent hold here too.  What the log
   calls FAILED is not void any more (requests_race.cfg), a committed row is not
   final, and a resumed run may act twice. *)
==============================================================================
