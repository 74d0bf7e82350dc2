------------------------------- MODULE Redrive -------------------------------
(***************************************************************************)
(* Engine.redrive over the dead-letter queue of one run: engine.py          *)
(* (redrive, _redrive_one) and storage/dead_letter.py, by several callers   *)
(* that may overlap and die anywhere.                                       *)
(*                                                                         *)
(* Letters are numbered in the order of the file.  What a letter stands for *)
(* decides what redrive can know of it:                                     *)
(*   "undo"     a compensation that ran and failed: it has an intent and a  *)
(*              row in the log;                                             *)
(*   "forward"  a retryable step escalated after the pivot: the letter      *)
(*              names no intent;                                            *)
(*   "blocked"  a compensation whose validation failed: it has a tool, but  *)
(*              no intent was ever made and no parameters are kept;         *)
(*   "manual"   a manual escalation: it has no tool.                        *)
(* Intents are numbered per letter: 0 is the one the run made, if any, and  *)
(* the others are made by redrives.  A tool that is called again under an   *)
(* intent acts at most once (docs/adapter-contract.md); what it reports     *)
(* need not be true, and redrive verifies nothing.                          *)
(***************************************************************************)
EXTENDS Naturals, Sequences, FiniteSets, FiniteSetsExt

CONSTANTS
  Kind,         \* kinds of the letters, in order
  Unserved,     \* letters whose tool has no adapter any more
  Redrivers,    \* calls of redrive
  MaxFresh      \* bound: fresh intents per letter

Letters == DOMAIN Kind

ASSUME RedriveAssumption ==
  /\ Kind \in Seq({"undo", "forward", "blocked", "manual"})
  /\ Unserved \subseteq Letters
  /\ MaxFresh \in Nat

VARIABLES
  effects,    \* per letter: intents under which its tool did what the letter asks for
  stray,      \* blocked letters whose tool acted on whatever it takes for want of parameters
  row,        \* per letter: status of the run's own intent in the log, or "none"
  fresh,      \* per letter: fresh intents made so far
  resolved,   \* letters with a resolution marker
  todo,       \* per redriver: letters of its work list still to do
  heard       \* per redriver: what its call for the next letter answered, or "none"

vars == <<effects, stray, row, fresh, resolved, todo, heard>>

Rows == {"none", "FAILED", "UNKNOWN", "COMPENSATED"}

TypeOK ==
  /\ effects \in [Letters -> SUBSET (0..MaxFresh)]
  /\ stray \subseteq Letters
  /\ row \in [Letters -> Rows]
  /\ fresh \in [Letters -> 0..MaxFresh]
  /\ resolved \subseteq Letters
  /\ todo \in [Redrivers -> SUBSET Letters]
  /\ heard \in [Redrivers -> {"none", "success", "failure", "unknown", "updated"}]

\* A failed compensation, and a step given up as unresolved, may have acted.
Init ==
  /\ effects \in {f \in [Letters -> {{}, {0}}] :
                    \A l \in Letters : Kind[l] \in {"blocked", "manual"} => f[l] = {}}
  /\ stray = {}
  /\ row \in {f \in [Letters -> {"none", "FAILED", "UNKNOWN"}] :
                \A l \in Letters : f[l] = "none" <=> Kind[l] # "undo"}
  /\ fresh = [l \in Letters |-> 0]
  /\ resolved = {}
  /\ todo = [p \in Redrivers |-> {}]
  /\ heard = [p \in Redrivers |-> "none"]

OpenEntries == Letters \ resolved

Current(p) == Min(todo[p])

\* The work list is read once; what others resolve meanwhile stays on it.
Start(p) ==
  /\ todo[p] = {}
  /\ OpenEntries # {}
  /\ todo' = [todo EXCEPT ![p] = OpenEntries]
  /\ UNCHANGED <<effects, stray, row, fresh, resolved, heard>>

Done(p) == todo' = [todo EXCEPT ![p] = @ \ {Current(p)}]

\* No tool recorded, or no adapter for it: the letter stays open.
CannotRedrive(p) ==
  /\ todo[p] # {}
  /\ heard[p] = "none"
  /\ Kind[Current(p)] = "manual" \/ Current(p) \in Unserved
  /\ Done(p)
  /\ UNCHANGED <<effects, stray, row, fresh, resolved, heard>>

\* A bug: the row's intent is not reused.
AlwaysFresh(l) == fresh[l] + 1

\* reuse_intent_id: the intent of the letter's row, if it has a row.
IntentFor(l) == IF row[l] # "none" THEN 0 ELSE fresh[l] + 1

\* What execute() answers, whatever the tool did: a success may be a phantom, and
\* a failure may be reported by a tool that acted.
Answers == {"success", "failure", "unknown"}

\* adapter.execute: the tool acts or not.  A blocked letter has no parameters, so
\* what its tool then does is not what the letter asks for.
Call(p, acts, answer) ==
  /\ todo[p] # {}
  /\ heard[p] = "none"
  /\ LET l == Current(p)
         own == Kind[l] # "blocked" IN
       /\ Kind[l] # "manual" /\ l \notin Unserved
       /\ IntentFor(l) <= MaxFresh
       /\ effects' = IF acts /\ own THEN [effects EXCEPT ![l] = @ \cup {IntentFor(l)}] ELSE effects
       /\ stray' = IF acts /\ ~own THEN stray \cup {l} ELSE stray
       /\ fresh' = [fresh EXCEPT ![l] = IF IntentFor(l) = 0 THEN @ ELSE IntentFor(l)]
  /\ heard' = [heard EXCEPT ![p] = answer]
  /\ UNCHANGED <<row, resolved, todo>>

\* result.is_success, taken at its word: there is no verify_postcondition.
Succeeded(answer) == answer = "success"

\* A bug: the row is left as it is.
RowLeft(l) == row[l]

\* A compensation's row becomes COMPENSATED; other letters have no row.
RowAfter(l) == IF row[l] # "none" THEN "COMPENSATED" ELSE "none"

UpdateRow(p) ==
  /\ Succeeded(heard[p])
  /\ row' = [row EXCEPT ![Current(p)] = RowAfter(Current(p))]
  /\ heard' = [heard EXCEPT ![p] = "updated"]
  /\ UNCHANGED <<effects, stray, fresh, resolved, todo>>

Resolve(p) ==
  /\ heard[p] = "updated"
  /\ resolved' = resolved \cup {Current(p)}
  /\ heard' = [heard EXCEPT ![p] = "none"]
  /\ Done(p)
  /\ UNCHANGED <<effects, stray, row, fresh>>

\* Failed or unknown: the letter stays open for a later redrive.
LeaveOpen(p) ==
  /\ heard[p] \in {"failure", "unknown"}
  /\ ~Succeeded(heard[p])
  /\ heard' = [heard EXCEPT ![p] = "none"]
  /\ Done(p)
  /\ UNCHANGED <<effects, stray, row, fresh, resolved>>

Crash(p) ==
  /\ todo[p] # {}
  /\ todo' = [todo EXCEPT ![p] = {}]
  /\ heard' = [heard EXCEPT ![p] = "none"]
  /\ UNCHANGED <<effects, stray, row, fresh, resolved>>

Next ==
  \E p \in Redrivers :
    \/ Start(p) \/ CannotRedrive(p) \/ UpdateRow(p) \/ Resolve(p) \/ LeaveOpen(p) \/ Crash(p)
    \/ \E acts \in BOOLEAN : \E answer \in Answers : Call(p, acts, answer)

Spec == Init /\ [][Next]_vars
------------------------------------------------------------------------------
(* Properties *)

\* Redriving a compensation never performs it under a second intent, over lost
\* answers, crashes and overlapping redrives: every attempt carries the stable one
\* of its row.  That a tool acts once per intent is the adapter's part.
UndoneOnce == \A l \in Letters : Kind[l] = "undo" => effects[l] \subseteq {0}

\* A resolved compensation is COMPENSATED in the log: a crash between the two
\* writes leaves the letter open, never a resolved letter over a row that failed.
ResolvedIsLogged == \A l \in resolved : Kind[l] = "undo" => row[l] = "COMPENSATED"

\* Refuted (redrive_refuted.cfg): a compensation whose letter is resolved was
\* done, its postcondition being verified (docs/recovery-semantics.md:21-22).
ResolvedIsDone == \A l \in resolved : Kind[l] = "undo" => effects[l] # {}

\* Refuted (redrive_refuted.cfg): redrive is "dedup-safe", an escalated step is
\* driven forward once.
ForwardOnce == \A l \in Letters : Kind[l] = "forward" => Cardinality(effects[l]) <= 1

\* Refuted (redrive_refuted.cfg): nothing acts for an intent the log does not know.
ActsAreLogged == \A l \in Letters : effects[l] \subseteq {0}

\* Refuted (redrive_refuted.cfg): no tool acts for a compensation that was blocked.
BlockedStaysBlocked == stray = {}
==============================================================================
