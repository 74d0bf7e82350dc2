------------------------------- MODULE Approvals -------------------------------
(***************************************************************************)
(* The durable approval gate of one step: storage/approvals.py, the gate in *)
(* runtime/coordinator.py (_execute_step, _resolve_approval) over the       *)
(* sessions of a run, and an operator who runs `aatm approve` or            *)
(* `aatm deny`, or posts to the service, whenever he likes.                 *)
(*                                                                         *)
(* The store is a file of appended records.  The gate reads it once, and    *)
(* then records a decision of its own: at once if the request has expired,  *)
(* or when the callback, which may ask a human, has answered.  Time passes  *)
(* and others append in between.                                            *)
(***************************************************************************)
EXTENDS Naturals, Sequences, SequencesExt

CONSTANTS
  Timeout,       \* approval_timeout_s, in ticks
  MaxTime,       \* bound: ticks of the clock
  MaxSessions,   \* bound: sessions of the run
  MaxOrders      \* bound: decisions of the operator

ASSUME ApprovalsAssumption ==
  /\ Timeout \in Nat
  /\ MaxTime \in Nat
  /\ MaxSessions \in Nat \ {0}
  /\ MaxOrders \in Nat

VARIABLES
  log,         \* decisions on file, each [granted, by]
  requests,    \* deadlines of the requests on file, in order
  now,         \* the clock
  gate,        \* where the live session stands: see GateStates
  session      \* number of the session

vars == <<log, requests, now, gate, session>>

\* "before" the gate, "requested", found "expired", "asking" the callback, past it or dead.
GateStates == {"before", "requested", "expired", "asking", "granted", "denied", "dead"}

Decision == [granted: BOOLEAN, by: {"operator", "timeout", "callback"}]

TypeOK ==
  /\ log \in Seq(Decision)
  /\ requests \in Seq(Nat)
  /\ now \in 0..MaxTime
  /\ gate \in GateStates
  /\ session \in 1..MaxSessions

Init ==
  /\ log = <<>>
  /\ requests = <<>>
  /\ now = 0
  /\ gate = "before"
  /\ session = 1

\* Two bugs: the oldest decision wins; the gate heeds only the operator's.
OldestDecision(decisions) == decisions[1]
OperatorHasDecided == \E i \in DOMAIN log : log[i].by = "operator"

LatestDecision(decisions) == Last(decisions)
Decided == log # <<>>

\* A bug: who decided is not recorded.
DecideUnattributed(granted, by) == log' = Append(log, [granted |-> granted, by |-> "unknown"])

Decide(granted, by) == log' = Append(log, [granted |-> granted, by |-> by])

Verdict(granted) == IF granted THEN "granted" ELSE "denied"

\* The request is on file, with its deadline, before anything is decided.
Request ==
  /\ gate = "before"
  /\ requests' = Append(requests, now + Timeout)
  /\ gate' = "requested"
  /\ UNCHANGED <<log, now, session>>

\* A decision on file decides, whoever made it and in whatever session.
FollowRecord ==
  /\ gate = "requested"
  /\ Decided
  /\ gate' = Verdict(LatestDecision(log).granted)
  /\ UNCHANGED <<log, requests, now, session>>

\* is_expired, asked of the request this session has just filed.
Expired == now > Last(requests)

FindExpired ==
  /\ gate = "requested"
  /\ ~Decided
  /\ Expired
  /\ gate' = "expired"
  /\ UNCHANGED <<log, requests, now, session>>

\* The read is not repeated: what others have appended since stays unseen.
DenyExpired ==
  /\ gate = "expired"
  /\ Decide(FALSE, "timeout")
  /\ gate' = "denied"
  /\ UNCHANGED <<requests, now, session>>

AskCallback ==
  /\ gate = "requested"
  /\ ~Decided
  /\ ~Expired
  /\ gate' = "asking"
  /\ UNCHANGED <<log, requests, now, session>>

CallbackAnswers(granted) ==
  /\ gate = "asking"
  /\ Decide(granted, "callback")
  /\ gate' = Verdict(granted)
  /\ UNCHANGED <<requests, now, session>>

\* cmd_approve, _handle_approve: the operator's decision is appended as it comes.
OperatorDecides(granted) ==
  /\ Len(SelectSeq(log, LAMBDA d : d.by = "operator")) < MaxOrders
  /\ Decide(granted, "operator")
  /\ UNCHANGED <<requests, now, gate, session>>

Crash ==
  /\ gate # "dead"
  /\ gate' = "dead"
  /\ UNCHANGED <<log, requests, now, session>>

\* A resumed session comes to the gate again unless its step is committed.
Resume ==
  /\ gate = "dead"
  /\ session < MaxSessions
  /\ session' = session + 1
  /\ gate' = "before"
  /\ UNCHANGED <<log, requests, now>>

Tick ==
  /\ now < MaxTime
  /\ now' = now + 1
  /\ UNCHANGED <<log, requests, gate, session>>

Next ==
  \/ Request \/ FollowRecord \/ FindExpired \/ DenyExpired \/ AskCallback
  \/ \E granted \in BOOLEAN : CallbackAnswers(granted) \/ OperatorDecides(granted)
  \/ Crash \/ Resume \/ Tick

Spec == Init /\ [][Next]_vars
------------------------------------------------------------------------------
(* Properties *)

Automatic(i) == log[i].by # "operator"

\* The policy is asked for at most one decision in the life of a run: whatever
\* it decided is on file before it has effect, and binds every later session.
DecidedOnce ==
  \A i, j \in DOMAIN log : Automatic(i) /\ Automatic(j) => i = j

\* The gate never opens or closes against the last decision on file: a step
\* passes it only if the record an auditor reads last at that time is a grant.
GateFollowsRecord ==
  [][\A granted \in BOOLEAN :
       gate' # gate /\ gate' = Verdict(granted) =>
         log' # <<>> /\ log'[Len(log')].granted = granted]_vars

\* Refuted (approvals_expiry.cfg): a request whose deadline passes undecided is
\* never granted by the policy.
ExpiredNeverGranted ==
  [][\A i \in DOMAIN requests :
       log = <<>> /\ now > requests[i] /\ log' # <<>> /\ log'[1].granted
         => log'[1].by = "operator"]_vars

\* Refuted (approvals_overruled.cfg): a decision the operator has put on file is
\* not overruled by the policy.
OperatorWins ==
  \A i, j \in DOMAIN log : i < j /\ ~Automatic(i) => ~Automatic(j)
==============================================================================
