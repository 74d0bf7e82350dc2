------------------------------ MODULE MCPlanner ------------------------------
(***************************************************************************)
(* The tools of a travel workflow, one that the workflow declares itself,   *)
(* one it declares badly and one nobody knows.                              *)
(***************************************************************************)
EXTENDS Planner

MCTools == {"book", "refund", "notify", "custom", "alien"}

Plain == [rev |-> "unset", scope |-> "external", risk |-> "medium", idempotent |-> "no",
          mode |-> "wrapper", approval |-> "unset", contract |-> "unset"]
Silent == [f \in DOMAIN Plain |-> "unset"]

\* As in tool_registry.json: refund_payment is irreversible and asks for no approval.
MCRegistry ==
  [book   |-> [Plain EXCEPT !.rev = "compensatable"],
   refund |-> [Plain EXCEPT !.rev = "irreversible", !.contract = "forward_fix"]]

MCTemplate == [book |-> "compensate"]

\* The workflow overrides a detail of book, and says nothing of what alien does.
MCBlock ==
  [book   |-> [Silent EXCEPT !.risk = "critical"],
   notify |-> [Silent EXCEPT !.rev = "retryable", !.mode = "native"],
   custom |-> [Silent EXCEPT !.rev = "compensatable"],
   alien  |-> [Silent EXCEPT !.approval = "no", !.contract = "compensate"]]

Uses(t) == [tool |-> t, pivot |-> FALSE, approval |-> "unset", comp |-> "unset", retried |-> FALSE]

MCRaws ==
  {Uses("book"), Uses("custom"), Uses("refund"),
   [Uses("alien") EXCEPT !.comp = "none"],
   [Uses("alien") EXCEPT !.approval = "no"],
   [Uses("notify") EXCEPT !.retried = TRUE, !.pivot = TRUE],
   [Uses("custom") EXCEPT !.retried = TRUE, !.comp = "compensate"]}
==============================================================================
