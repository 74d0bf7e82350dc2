------------------------------- MODULE Planner -------------------------------
(***************************************************************************)
(* SagaPlanner.plan (planner/saga_planner.py) with the classifier of        *)
(* planner/reversibility.py and the pivot rules of planner/pivot_detector.  *)
(* A parsed workflow goes in; a plan and its critical issues come out.      *)
(*                                                                         *)
(* The topological sort is a loop over counters and a ready list and is     *)
(* modelled turn by turn.  What follows it is computed from its result in   *)
(* one action, PlanSteps.                                                   *)
(*                                                                         *)
(* The parser has rejected a workflow without steps, with duplicate ids or  *)
(* with a dependency on a step that does not exist; a step is its place in  *)
(* the file.  A step may depend on itself and on steps that depend on it.   *)
(*                                                                         *)
(* Abstracted: of a compensation its strategy; of a side-effect scope       *)
(* whether it is "none"; of a risk whether it is "critical"; parameters,    *)
(* postconditions, timeouts and warnings.                                   *)
(***************************************************************************)
EXTENDS Integers, Sequences, FiniteSets

CONSTANTS
  N,          \* number of steps of the workflow
  Tools,      \* names of tools
  Raws,       \* what a step may declare
  Block,      \* Block[t]: the workflow's own tools[] entry for t, if it has one
  Registry,   \* Registry[t]: the entry of tool_registry.json for t, if it has one
  Template    \* Template[t]: strategy of the compensation template of t, if any

Steps == 1..N

Reversibilities ==
  {"fully_reversible", "compensatable", "irreversible", "retryable", "unknown"}
Strategies == {"restore", "compensate", "forward_fix", "manual_escalation", "none"}

Optional(S) == S \cup {"unset"}

RawSteps == [tool: Tools, pivot: BOOLEAN, approval: Optional({"yes", "no"}),
             comp: Optional(Strategies), retried: BOOLEAN]

Entries == [rev: Optional(Reversibilities), scope: Optional({"none", "external"}),
            risk: Optional({"medium", "critical"}), idempotent: Optional({"yes", "no"}),
            mode: Optional({"native", "wrapper", "none"}),
            approval: Optional({"yes", "no"}), contract: Optional(Strategies)]

ASSUME PlannerAssumption ==
  /\ N \in Nat \ {0}
  /\ Raws \subseteq RawSteps
  /\ DOMAIN Block \subseteq Tools /\ \A t \in DOMAIN Block : Block[t] \in Entries
  /\ DOMAIN Registry \subseteq Tools /\ \A t \in DOMAIN Registry : Registry[t] \in Entries
  /\ DOMAIN Template \subseteq Tools /\ \A t \in DOMAIN Template : Template[t] \in Strategies

VARIABLES
  raw,      \* raw[s]: what step s declares
  deps,     \* deps[s]: the steps it depends on
  phase,    \* "sort", "plan" or "done"
  indeg,    \* indeg[s]: dependencies of s not yet placed
  ready,    \* the ready list
  result,   \* the steps placed so far
  order,    \* what the sort returned
  planned,  \* the steps of the plan
  pivot,    \* the place of the pivot in it, or 0
  issues    \* plan.critical_issues

input == <<raw, deps>>
sorting == <<indeg, ready, result>>
plan == <<planned, pivot, issues>>
vars == <<input, phase, sorting, order, plan>>

Seen(seq) == {seq[i] : i \in 1..Len(seq)}

------------------------------------------------------------------------------
(* The topological sort *)

\* A bug: the last step of the ready list is taken.
LastOf(S) == CHOOSE x \in S : \A y \in S : y <= x

\* The ready list is kept in file order and only its first element is ever
\* taken: it is the set of its members.
First(S) == CHOOSE x \in S : \A y \in S : x <= y

InFileOrder == [i \in Steps |-> i]

Init ==
  /\ raw \in [Steps -> Raws]
  /\ deps \in [Steps -> SUBSET Steps]
  /\ phase = "sort"
  /\ indeg = [s \in Steps |-> Cardinality(deps[s])]
  /\ ready = {s \in Steps : deps[s] = {}}
  /\ result = <<>>
  /\ order = <<>>
  /\ planned = <<>>
  /\ pivot = 0
  /\ issues = {}

PlaceNext ==
  /\ phase = "sort" /\ ready # {}
  /\ LET node  == First(ready)
         freed == {s \in Steps : node \in deps[s] /\ indeg[s] = 1}
     IN  /\ result' = Append(result, node)
         /\ indeg' = [s \in Steps |-> IF node \in deps[s] THEN indeg[s] - 1 ELSE indeg[s]]
         /\ ready' = (ready \ {node}) \cup freed
  /\ UNCHANGED <<input, phase, order, plan>>

\* A bug: there is no fallback, and the steps of a cycle are dropped.
PlacedOnly == result

\* A cycle leaves steps unplaced; the file's order is used instead.
Sorted == IF Len(result) # N THEN InFileOrder ELSE result

EndSort ==
  /\ phase = "sort" /\ ready = {}
  /\ order' = Sorted
  /\ phase' = "plan"
  /\ UNCHANGED <<input, sorting, plan>>

------------------------------------------------------------------------------
(* Classification *)

Given(v, default) == IF v = "unset" THEN default ELSE v

Merged(entry, block) == [f \in DOMAIN entry |-> Given(block[f], entry[f])]

TierOf(rev, scope) ==
  CASE rev = "fully_reversible" /\ scope = "none" -> 0
    [] rev = "fully_reversible" /\ scope # "none" -> 1
    [] rev = "retryable"                          -> 1
    [] rev = "compensatable"                      -> 2
    [] rev \in {"irreversible", "unknown"}        -> 3

Build(rev, meta, source) ==
  LET scope == Given(meta.scope, "external") IN
  [rev    |-> rev,
   tier   |-> TierOf(rev, scope),
   scope  |-> scope,
   risk   |-> Given(meta.risk, "medium"),
   safe   |-> meta.idempotent = "yes" \/ Given(meta.mode, "none") # "none",
   gated  |-> meta.approval = "yes",
   source |-> source]

FailClosed ==
  [rev |-> "unknown", tier |-> 3, scope |-> "external", risk |-> "critical",
   safe |-> FALSE, gated |-> TRUE, source |-> "fail_closed"]

DeclaresReversibility(t) == t \in DOMAIN Block /\ Block[t].rev # "unset"

Classify(t) ==
  IF DeclaresReversibility(t) THEN Build(Block[t].rev, Block[t], "explicit")
  ELSE IF t \in DOMAIN Registry
       THEN Build(Given(Registry[t].rev, "unknown"),
                  IF t \in DOMAIN Block THEN Merged(Registry[t], Block[t]) ELSE Registry[t],
                  "registry")
       ELSE FailClosed

(***************************************************************************)
(* The authority hierarchy of compensations, highest first: the step, being *)
(* retryable, the workflow's tool block, the template, the registry.        *)
(***************************************************************************)
Offers(r, c) ==
  <<r.comp,
    IF c.rev = "retryable" THEN "none" ELSE "unset",
    IF r.tool \in DOMAIN Block THEN Block[r.tool].contract ELSE "unset",
    IF r.tool \in DOMAIN Template THEN Template[r.tool] ELSE "unset",
    IF r.tool \in DOMAIN Registry THEN Registry[r.tool].contract ELSE "unset",
    IF c.scope = "none" THEN "none" ELSE "manual_escalation">>

ResolveCompensation(r, c) ==
  LET offers == Offers(r, c) IN offers[First({i \in 1..6 : offers[i] # "unset"})]

PlanStep(s) ==
  LET r == raw[s]
      c == Classify(r.tool)
  IN  [step     |-> s,
       rev      |-> c.rev,
       tier     |-> c.tier,
       risk     |-> c.risk,
       source   |-> c.source,
       safe     |-> c.safe,
       retried  |-> r.retried,
       approval |-> IF r.approval = "unset" THEN c.gated ELSE r.approval = "yes",
       comp     |-> ResolveCompensation(r, c),
       pivot    |-> r.pivot,
       after    |-> FALSE]

------------------------------------------------------------------------------
(* Pivot and validation; ps is a plan's steps, p the place of its pivot or 0 *)

DetectPivot(ps) ==
  LET explicit == {i \in Steps : ps[i].pivot}
      third    == {i \in Steps : ps[i].tier = 3}
  IN  IF explicit # {} THEN First(explicit)
      ELSE IF third # {} THEN First(third) ELSE 0

\* A bug: without a pivot no step counts as pre-pivot.
PrePivotIfAny(i, p) == p # 0 /\ i < p

PrePivot(i, p) == p = 0 \/ i < p
PostPivot(i, p) == p # 0 /\ i > p

MarkPivot(ps, p) ==
  [i \in Steps |-> [ps[i] EXCEPT !.pivot = (i = p), !.after = PostPivot(i, p)]]

\* A bug: an approval is taken as read where the tool is unknown.
UngatedNothing(st) == FALSE

UngatedUnknown(st) == st.source = "fail_closed" /\ ~st.approval

CriticalIssues(ps, p) ==
  {<<i, "ungated">> : i \in {j \in Steps : UngatedUnknown(ps[j])}}
  \cup {<<i, "not_undoable">> : i \in {j \in Steps :
          /\ PrePivot(j, p) /\ ps[j].tier = 2
          /\ ps[j].comp \in {"manual_escalation", "none"}}}
  \cup {<<i, "unsafe_retry">> : i \in {j \in Steps : ps[j].retried /\ ~ps[j].safe}}
  \cup {<<i, "no_recovery">> : i \in {j \in Steps :
          PostPivot(j, p) /\ ps[j].risk = "critical" /\ ps[j].comp = "none"}}

PlanSteps ==
  /\ phase = "plan"
  /\ LET ps == [i \in Steps |-> PlanStep(order[i])]
         p  == DetectPivot(ps)
     IN  /\ planned' = MarkPivot(ps, p)
         /\ pivot' = p
         /\ issues' = CriticalIssues(MarkPivot(ps, p), p)
  /\ phase' = "done"
  /\ UNCHANGED <<input, sorting, order>>

Next == PlaceNext \/ EndSort \/ PlanSteps

Spec == Init /\ [][Next]_vars

\* Engine.run goes on with a plan that has no critical issues.
Accepted == phase = "done" /\ issues = {}

------------------------------------------------------------------------------
PlannedSteps ==
  [step: Steps, rev: Reversibilities, tier: 0..3, risk: {"medium", "critical"},
   source: {"explicit", "registry", "fail_closed"}, safe: BOOLEAN, retried: BOOLEAN,
   approval: BOOLEAN, comp: Strategies, pivot: BOOLEAN, after: BOOLEAN]

\* The planner's variables have the types of its data model.
TypeOK ==
  /\ raw \in [Steps -> Raws]
  /\ deps \in [Steps -> SUBSET Steps]
  /\ phase \in {"sort", "plan", "done"}
  /\ indeg \in [Steps -> 0..N]
  /\ ready \subseteq Steps
  /\ result \in Seq(Steps)
  /\ order \in IF phase = "sort" THEN {<<>>} ELSE [Steps -> Steps]
  /\ planned \in IF phase = "done" THEN [Steps -> PlannedSteps] ELSE {<<>>}
  /\ pivot \in 0..N
  /\ issues \subseteq Steps \X {"ungated", "not_undoable", "unsafe_retry", "no_recovery"}

\* A set of steps each of which waits for one of them.
Deadlocked(S) == S # {} /\ \A s \in S : deps[s] \cap S # {}
Cyclic == \E S \in SUBSET Steps : Deadlocked(S)

Before(seq, i) == {seq[j] : j \in 1..(i - 1)}
Available(seq, i) == {s \in Steps \ Before(seq, i) : deps[s] \subseteq Before(seq, i)}

\* Each step comes after those it depends on, and is the first in the file of all that
\* could have come in its place.
Stable(seq) ==
  \A i \in DOMAIN seq : /\ seq[i] \in Available(seq, i)
                        /\ \A s \in Available(seq, i) : seq[i] <= s

\* _topo_sort: without a cycle the order is the least one, in file order, that
\* respects the dependencies; with a cycle it is the file's.
SortIsStable ==
  phase # "sort" =>
    IF Cyclic THEN order = InFileOrder ELSE DOMAIN order = Steps /\ Stable(order)

\* The pivot is "the first point after which the entire pre-pivot state cannot be
\* restored exactly": in a plan the engine goes on with, and whose pivot nobody declared
\* by hand, no step before the pivot is irreversible or unknown, and each that has to be
\* compensated has something that does it.
UndoableBeforePivot ==
  Accepted /\ (\A s \in Steps : ~raw[s].pivot) =>
    \A i \in Steps : pivot = 0 \/ i < pivot =>
      /\ planned[i].tier < 3
      /\ planned[i].tier = 2 => planned[i].comp \in {"restore", "compensate", "forward_fix"}

\* A tool that neither the workflow nor the registry classifies is used by no plan the
\* engine goes on with unless a human is asked first, whatever its tool block, a
\* template or its step declare.
UnknownIsGated ==
  Accepted =>
    \A i \in Steps :
      LET t == raw[planned[i].step].tool IN
      ~DeclaresReversibility(t) /\ t \notin DOMAIN Registry => planned[i].approval

\* Refuted (plan_refuted.cfg): "a Tier-3 tool must have approval (explicit or globally
\* enforced)".  Nothing enforces it for a tool classified by the workflow or the registry.
TierThreeIsGated == Accepted => \A i \in Steps : planned[i].tier = 3 => planned[i].approval

\* Refuted (plan_refuted.cfg): "detects cycles and raises via the plan's critical issues".
CycleIsFlagged == Accepted => ~Cyclic

\* Refuted (plan_refuted.cfg): a retryable step is "never chosen as a pivot".
RetryableNeverPivot == Accepted /\ pivot # 0 => planned[pivot].rev # "retryable"

\* Refuted (plan_refuted.cfg): when a step fails before the pivot "no
\* irreversible action has occurred".
NothingIrreversibleBeforePivot ==
  Accepted /\ pivot # 0 => \A i \in Steps : i < pivot => planned[i].rev # "irreversible"
==============================================================================
