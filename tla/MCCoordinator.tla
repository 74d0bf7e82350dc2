---------------------------- MODULE MCCoordinator ----------------------------
(***************************************************************************)
(* Small plans for TLC.  Steps are numbered in plan order.                  *)
(***************************************************************************)
EXTENDS CoordinatorInvariants

(* Which steps have a compensation *)
BothUndoable == <<"tool", "tool">>
AllUndoable == <<"tool", "tool", "tool">>
\* The second step has no verified compensation.
SecondManual == <<"tool", "manual", "tool", "tool">>
\* The last step declares nothing to undo.
LastPlain == <<"tool", "tool", "none">>

(* Which tool a step calls *)
ReserveCharge == <<"reserve", "charge">>
ChargeNotify == <<"charge", "notify">>
OwnTools == <<"reserve", "charge", "notify">>
\* The first and the last step call the same tool, as two bookings do, and share its breaker.
FirstLastShared == <<"reserve", "book", "charge", "reserve">>

(* retry.max_attempts *)
TwiceEach == <<2, 2>>
OneTwoOne == <<1, 2, 1>>
LastThrice == <<1, 1, 3>>
LastTwoTwice == <<1, 1, 2, 2>>
==============================================================================
