---------------------------------- MODULE Saga ----------------------------------
(***************************************************************************)
(* What a run promises to those who only see the world: steps act in plan   *)
(* order, each at most once; once the run turns back, what acted is undone  *)
(* newest first and each step at most once, or left to an operator; and the *)
(* verdict tells how the world was left.  No log, no attempts, no crashes:  *)
(* a crash and a resume are steps that change nothing here.                *)
(***************************************************************************)
EXTENDS Naturals

CONSTANTS
  N,          \* number of steps, in plan order
  Pivot,      \* the step behind which retryable steps are not unwound, or 0
  Retryable,
  Undoable    \* steps with a compensation

Steps == 1..N

VARIABLES
  effect,     \* effect[s]: "none", "standing" or "undone"
  left,       \* steps an operator has to look after
  course      \* "forward", "back", or the verdict

sagaVars == <<effect, left, course>>

Init ==
  /\ effect = [s \in Steps |-> "none"]
  /\ left = {}
  /\ course = "forward"

Standing(s) == effect[s] = "standing"
NextStep(s) == effect[s] = "none" /\ \A t \in Steps : t < s => Standing(t)
\* Everything that can be undone and came after s is dealt with.
LaterSettled(s) == \A t \in Undoable : t > s /\ Standing(t) => t \in left

Act(s) ==
  /\ course = "forward" /\ NextStep(s)
  /\ effect' = [effect EXCEPT ![s] = "standing"]
  /\ UNCHANGED <<left, course>>

\* A retryable step behind a pivot that stands is no reason to turn back.
TurnBack ==
  /\ course = "forward"
  /\ \A s \in Retryable : NextStep(s) => ~(Pivot # 0 /\ Standing(Pivot))
  /\ course' = "back"
  /\ UNCHANGED <<effect, left>>

Undo(s) ==
  /\ course = "back" /\ Standing(s) /\ s \in Undoable \ left /\ LaterSettled(s)
  /\ effect' = [effect EXCEPT ![s] = "undone"]
  /\ UNCHANGED <<left, course>>

\* The compensation could not be made, or could not be seen to have been made.
Leave(s) ==
  /\ course = "back" /\ s \in Undoable \ left
  /\ effect[s] # "none" /\ LaterSettled(s)
  /\ left' = left \cup {s}
  /\ UNCHANGED <<effect, course>>

Complete ==
  /\ course = "forward" /\ \A s \in Steps : Standing(s)
  /\ course' = "COMPLETED"
  /\ UNCHANGED <<effect, left>>

Abort ==
  /\ course = "back" /\ left = {} /\ \A s \in Undoable : ~Standing(s)
  /\ course' = "ABORTED"
  /\ UNCHANGED <<effect, left>>

\* Unwound as far as possible, the rest is with an operator.
EndInconsistent ==
  /\ course = "back" /\ left # {} /\ \A s \in Undoable : Standing(s) => s \in left
  /\ course' = "INCONSISTENT"
  /\ UNCHANGED <<effect, left>>

\* The next step is given to an operator, nothing is unwound.
Escalate(s) ==
  /\ course = "forward" /\ NextStep(s) /\ s \in Retryable /\ Standing(Pivot)
  /\ left' = left \cup {s}
  /\ course' = "INCONSISTENT"
  /\ UNCHANGED effect

Next ==
  \/ \E s \in Steps : Act(s) \/ Undo(s) \/ Leave(s) \/ Escalate(s)
  \/ TurnBack \/ Complete \/ Abort \/ EndInconsistent

Spec == Init /\ [][Next]_sagaVars
==============================================================================
