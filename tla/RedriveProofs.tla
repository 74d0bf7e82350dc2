----------------------------- MODULE RedriveProofs -----------------------------
(***************************************************************************)
(* What redrive promises for every dead-letter queue and any number of      *)
(* overlapping redrives that fail and die anywhere.                         *)
(***************************************************************************)
EXTENDS Redrive, WellFoundedInduction, TLAPS

\* A set of naturals that is not empty has a least element.
LEMMA LeastNatural ==
  ASSUME NEW S \in SUBSET Nat, S # {}
  PROVE  Min(S) \in S
<1>1. PICK x \in S : \A y \in S : ~(<<y, x>> \in OpToRel(<, Nat))
  BY NatLessThanWellFounded, WFMin
<1>2. \A y \in S : x <= y
  <2> SUFFICES ASSUME NEW y \in S, y < x PROVE FALSE
    OBVIOUS
  <2>1. <<y, x>> \in OpToRel(<, Nat)
    BY DEF OpToRel
  <2> QED BY <1>1, <2>1
<1> QED BY <1>2 DEF Min

\* The letter a redriver is at is on its work list (letters come in file order).
LEMMA CurrentIsThere ==
  ASSUME TypeOK, NEW p \in Redrivers, todo[p] # {}
  PROVE  Current(p) \in todo[p] /\ Current(p) \in Letters
<1>1. todo[p] \subseteq Letters
  BY DEF TypeOK
<1>2. Letters \subseteq Nat
  BY RedriveAssumption DEF Letters
<1> QED BY <1>1, <1>2, LeastNatural DEF Current

\* A call under way is of a letter on the list, and what its row says.
CallsAreTrue ==
  \A p \in Redrivers :
    /\ heard[p] # "none" => todo[p] # {}
    /\ heard[p] = "updated" /\ Kind[Current(p)] = "undo" => row[Current(p)] = "COMPENSATED"

\* A compensation that ran has a row, and no other letter has.
RowsOfUndos == \A l \in Letters : row[l] = "none" <=> Kind[l] # "undo"

RedriveInv ==
  /\ TypeOK
  /\ RowsOfUndos
  /\ CallsAreTrue
  /\ UndoneOnce
  /\ ResolvedIsLogged

\* Before the first redrive.
LEMMA InitRedrive == Init => RedriveInv
<1> SUFFICES ASSUME Init PROVE RedriveInv
  OBVIOUS
<1> USE RedriveAssumption
<1>1. 0 \in 0..MaxFresh
  OBVIOUS
<1>2. TypeOK
  <2>1. effects \in [Letters -> {{}, {0}}] /\ row \in [Letters -> {"none", "FAILED", "UNKNOWN"}]
    BY DEF Init
  <2>2. effects \in [Letters -> SUBSET (0..MaxFresh)]
    BY <1>1, <2>1
  <2> QED BY <1>1, <2>1, <2>2 DEF Init, TypeOK, Rows
<1>3. RowsOfUndos
  BY DEF Init, RowsOfUndos
<1>4. UndoneOnce
  BY DEF Init, UndoneOnce
<1> QED BY <1>2, <1>3, <1>4 DEF Init, RedriveInv, CallsAreTrue, ResolvedIsLogged

\* A step of one redriver leaves the letter another is at, and what it heard.
LEMMA OthersStay ==
  ASSUME TypeOK, NEW p \in Redrivers, NEW q \in Redrivers, q # p,
         NEW list, NEW answer,
         todo' = [todo EXCEPT ![p] = list], heard' = [heard EXCEPT ![p] = answer]
  PROVE  todo'[q] = todo[q] /\ heard'[q] = heard[q] /\ Current(q)' = Current(q)
BY DEF TypeOK, Current, Min

\* The call: it acts for the letter's own intent, or for one never used before.
LEMMA CallStep ==
  ASSUME RedriveInv, NEW p \in Redrivers, NEW acts \in BOOLEAN, NEW answer \in Answers,
         Call(p, acts, answer)
  PROVE  RedriveInv'
<1> DEFINE l == Current(p)
<1> USE RedriveAssumption
<1>1. /\ todo[p] # {}
      /\ heard[p] = "none"
      /\ IntentFor(l) <= MaxFresh
      /\ effects' = effects \/ effects' = [effects EXCEPT ![l] = @ \cup {IntentFor(l)}]
      /\ stray' = stray \/ stray' = stray \cup {l}
      /\ fresh' = [fresh EXCEPT ![l] = IF IntentFor(l) = 0 THEN @ ELSE IntentFor(l)]
      /\ heard' = [heard EXCEPT ![p] = answer]
      /\ UNCHANGED <<row, resolved, todo>>
  BY DEF Call
<1>2. TypeOK /\ l \in Letters
  BY <1>1, CurrentIsThere DEF RedriveInv
<1>3. IntentFor(l) \in 0..MaxFresh
  BY <1>1, <1>2 DEF IntentFor, TypeOK
<1>4. Kind[l] = "undo" => IntentFor(l) = 0
  BY <1>2 DEF IntentFor, RedriveInv, RowsOfUndos
<1>5. answer \in {"success", "failure", "unknown"}
  BY DEF Answers
<1>6. \A q \in Redrivers : Current(q)' = Current(q)
  BY <1>1 DEF Current, Min
<1> HIDE DEF l
<1>7. TypeOK'
  <2>1. effects' \in [Letters -> SUBSET (0..MaxFresh)]
    BY <1>1, <1>2, <1>3 DEF TypeOK
  <2>2. fresh' \in [Letters -> 0..MaxFresh]
    BY <1>1, <1>2, <1>3 DEF TypeOK
  <2>3. heard' \in [Redrivers -> {"none", "success", "failure", "unknown", "updated"}]
    BY <1>1, <1>2, <1>5 DEF TypeOK
  <2> QED BY <1>1, <1>2, <2>1, <2>2, <2>3 DEF TypeOK
<1>8. \A m \in Letters : effects[m] \subseteq effects'[m] /\ (m # l => effects'[m] = effects[m])
  BY <1>1, <1>2 DEF TypeOK
<1>10. UndoneOnce'
  <2>1. Kind[l] = "undo" => effects'[l] \subseteq {0}
    BY <1>1, <1>2, <1>4 DEF RedriveInv, UndoneOnce, TypeOK
  <2> QED BY <1>8, <2>1 DEF RedriveInv, UndoneOnce
<1>11. ResolvedIsLogged' /\ RowsOfUndos'
  <2>1. resolved \subseteq Letters
    BY <1>2 DEF TypeOK
  <2> QED BY <1>1, <1>8, <2>1 DEF RedriveInv, ResolvedIsLogged, RowsOfUndos
<1>12. CallsAreTrue'
  <2> SUFFICES ASSUME NEW q \in Redrivers
               PROVE  /\ heard'[q] # "none" => todo'[q] # {}
                      /\ heard'[q] = "updated" /\ Kind[Current(q)] = "undo"
                           => row'[Current(q)] = "COMPENSATED"
    BY <1>6 DEF CallsAreTrue
  <2>1. CASE q = p
    <3>1. heard'[q] = answer
      BY <1>1, <1>2, <2>1 DEF TypeOK
    <3> QED BY <1>1, <1>5, <2>1, <3>1 DEF l
  <2>2. CASE q # p
    <3>1. heard'[q] = heard[q] /\ todo'[q] = todo[q]
      BY <1>1, <1>2, <2>2 DEF TypeOK
    <3>2. heard[q] # "none" => Current(q) \in Letters
      BY <1>2, CurrentIsThere DEF RedriveInv, CallsAreTrue
    <3> QED BY <1>1, <1>8, <3>1, <3>2 DEF RedriveInv, CallsAreTrue
  <2> QED BY <2>1, <2>2
<1> QED BY <1>7, <1>10, <1>11, <1>12 DEF RedriveInv

\* The row's update, which only a success brings about.
LEMMA UpdateRowStep ==
  ASSUME RedriveInv, NEW p \in Redrivers, UpdateRow(p)
  PROVE  RedriveInv'
<1> DEFINE l == Current(p)
<1>1. /\ heard[p] = "success"
      /\ row' = [row EXCEPT ![l] = RowAfter(l)]
      /\ heard' = [heard EXCEPT ![p] = "updated"]
      /\ UNCHANGED <<effects, stray, fresh, resolved, todo>>
  BY DEF UpdateRow, Succeeded
<1>2. TypeOK /\ l \in Letters /\ todo[p] # {}
  BY <1>1, CurrentIsThere DEF RedriveInv, CallsAreTrue
<1>3. \A q \in Redrivers : Current(q)' = Current(q)
  BY <1>1 DEF Current, Min
<1>4. IF Kind[l] = "undo" THEN RowAfter(l) = "COMPENSATED" ELSE RowAfter(l) = "none"
  BY <1>2 DEF RowAfter, RedriveInv, RowsOfUndos
<1> HIDE DEF l
<1>5. TypeOK'
  BY <1>1, <1>2, <1>4 DEF TypeOK, Rows
<1>6. \A m \in Letters : row'[m] = row[m] \/ (m = l /\ row'[m] = RowAfter(l))
  BY <1>1, <1>2 DEF TypeOK
<1>7. \A m \in Letters : Kind[m] = "undo" /\ row[m] = "COMPENSATED" => row'[m] = "COMPENSATED"
  BY <1>4, <1>6
<1>8. RowsOfUndos' /\ UndoneOnce' /\ ResolvedIsLogged'
  <2>1. resolved \subseteq Letters
    BY <1>2 DEF TypeOK
  <2>2. RowsOfUndos'
    BY <1>4, <1>6 DEF RedriveInv, RowsOfUndos
  <2> QED BY <1>1, <1>7, <2>1, <2>2 DEF RedriveInv, UndoneOnce, ResolvedIsLogged
<1>9. CallsAreTrue'
  <2> SUFFICES ASSUME NEW q \in Redrivers
               PROVE  /\ heard'[q] # "none" => todo'[q] # {}
                      /\ heard'[q] = "updated" /\ Kind[Current(q)] = "undo"
                           => row'[Current(q)] = "COMPENSATED"
    BY <1>3 DEF CallsAreTrue
  <2>1. CASE q = p
    <3>1. row'[l] = RowAfter(l)
      BY <1>1, <1>2 DEF TypeOK
    <3> QED BY <1>1, <1>2, <1>4, <2>1, <3>1 DEF l, RedriveInv, CallsAreTrue
  <2>2. CASE q # p
    <3>1. heard'[q] = heard[q] /\ todo'[q] = todo[q]
      BY <1>1, <1>2, <2>2 DEF TypeOK
    <3>2. heard[q] # "none" => Current(q) \in Letters
      BY <1>2, CurrentIsThere DEF RedriveInv, CallsAreTrue
    <3> QED BY <1>1, <1>7, <3>1, <3>2 DEF RedriveInv, CallsAreTrue
  <2> QED BY <2>1, <2>2
<1> QED BY <1>5, <1>8, <1>9 DEF RedriveInv

\* Steps that leave tools and rows alone: they move a work list on, and may
\* resolve the letter whose row has been updated.
LEMMA QuietStep ==
  ASSUME RedriveInv, NEW p \in Redrivers, NEW list \in SUBSET Letters,
         UNCHANGED <<effects, stray, row, fresh>>,
         \/ resolved' = resolved
         \/ heard[p] = "updated" /\ resolved' = resolved \cup {Current(p)},
         todo' = [todo EXCEPT ![p] = list],
         heard' = [heard EXCEPT ![p] = "none"]
  PROVE  RedriveInv'
<1>1. TypeOK /\ CallsAreTrue
  BY DEF RedriveInv
<1>2. heard[p] = "updated" =>
        /\ Current(p) \in Letters
        /\ Kind[Current(p)] = "undo" => row[Current(p)] = "COMPENSATED"
  BY <1>1, CurrentIsThere DEF CallsAreTrue
<1>3. resolved' \subseteq Letters
  BY <1>1, <1>2 DEF TypeOK
<1>4. TypeOK'
  BY <1>1, <1>3 DEF TypeOK
<1>5. ResolvedIsLogged'
  BY <1>2 DEF RedriveInv, ResolvedIsLogged
<1>6. RowsOfUndos' /\ UndoneOnce'
  BY DEF RedriveInv, RowsOfUndos, UndoneOnce
<1>7. CallsAreTrue'
  <2> SUFFICES ASSUME NEW q \in Redrivers, heard'[q] # "none"
               PROVE  /\ todo'[q] # {}
                      /\ heard'[q] = "updated" /\ Kind[Current(q)'] = "undo"
                           => row[Current(q)'] = "COMPENSATED"
    BY DEF CallsAreTrue
  <2>1. q # p
    BY <1>1 DEF TypeOK
  <2>2. todo'[q] = todo[q] /\ heard'[q] = heard[q] /\ Current(q)' = Current(q)
    BY <1>1, <2>1, OthersStay
  <2> QED BY <1>1, <2>2 DEF CallsAreTrue
<1> QED BY <1>4, <1>5, <1>6, <1>7 DEF RedriveInv

\* Every step of every redrive.
LEMMA RedriveStep == RedriveInv /\ [Next]_vars => RedriveInv'
<1> SUFFICES ASSUME RedriveInv, [Next]_vars PROVE RedriveInv'
  OBVIOUS
<1>1. TypeOK
  BY DEF RedriveInv
<1>2. \A p \in Redrivers : todo[p] \ {Current(p)} \in SUBSET Letters
  BY <1>1 DEF TypeOK
<1>3. ASSUME NEW p \in Redrivers, heard[p] = "none"
      PROVE  heard = [heard EXCEPT ![p] = "none"]
  BY <1>1, <1>3 DEF TypeOK
<1>4. ASSUME NEW p \in Redrivers, Start(p) PROVE RedriveInv'
  <2>1. heard[p] = "none"
    BY <1>4 DEF Start, RedriveInv, CallsAreTrue
  <2>2. OpenEntries \in SUBSET Letters
    BY DEF OpenEntries
  <2> QED BY <1>3, <1>4, <2>1, <2>2, QuietStep DEF Start
<1>5. ASSUME NEW p \in Redrivers, CannotRedrive(p) PROVE RedriveInv'
  <2>1. /\ heard[p] = "none"
        /\ todo' = [todo EXCEPT ![p] = todo[p] \ {Current(p)}]
        /\ UNCHANGED <<effects, stray, row, fresh, resolved, heard>>
    BY <1>5 DEF CannotRedrive, Done
  <2>2. heard' = [heard EXCEPT ![p] = "none"]
    BY <1>3, <2>1
  <2> QED BY <1>2, <2>1, <2>2, QuietStep
<1>6. ASSUME NEW p \in Redrivers, Resolve(p) PROVE RedriveInv'
  BY <1>2, <1>6, QuietStep DEF Resolve, Done
<1>7. ASSUME NEW p \in Redrivers, LeaveOpen(p) PROVE RedriveInv'
  BY <1>2, <1>7, QuietStep DEF LeaveOpen, Done
<1>8. ASSUME NEW p \in Redrivers, Crash(p) PROVE RedriveInv'
  <2>1. {} \in SUBSET Letters
    OBVIOUS
  <2> QED BY <1>8, <2>1, QuietStep DEF Crash
<1>9. CASE UNCHANGED vars
  <2>1. UNCHANGED <<effects, stray, row, fresh, resolved, todo, heard>>
    BY <1>9 DEF vars
  <2>2. TypeOK' /\ RowsOfUndos' /\ UndoneOnce' /\ ResolvedIsLogged'
    BY <2>1 DEF RedriveInv, TypeOK, RowsOfUndos, UndoneOnce, ResolvedIsLogged
  <2>3. CallsAreTrue'
    BY <2>1 DEF RedriveInv, CallsAreTrue, Current, Min
  <2> QED BY <2>2, <2>3 DEF RedriveInv
<1> QED BY <1>4, <1>5, <1>6, <1>7, <1>8, <1>9, CallStep, UpdateRowStep DEF Next

\* The invariant of any number of redrives of any queue.
THEOREM RedriveInvariant == Spec => []RedriveInv
BY InitRedrive, RedriveStep, PTL DEF Spec

\* Types, for every queue (Engine.redrive).
THEOREM RedriveTypeCorrect == Spec => []TypeOK
<1>1. RedriveInv => TypeOK
  BY DEF RedriveInv
<1> QED BY <1>1, RedriveInvariant, PTL

\* Redriving a compensation never performs it a second time: every attempt, of
\* every redrive, carries the intent of its row (_redrive_one).
THEOREM UndoneOnceCorrect == Spec => []UndoneOnce
<1>1. RedriveInv => UndoneOnce
  BY DEF RedriveInv
<1> QED BY <1>1, RedriveInvariant, PTL

\* No letter is marked as resolved before the log has the outcome, so a crash between
\* the two leaves a letter that is redriven, never one that is lost (redrive).
THEOREM ResolvedIsLoggedCorrect == Spec => []ResolvedIsLogged
<1>1. RedriveInv => ResolvedIsLogged
  BY DEF RedriveInv
<1> QED BY <1>1, RedriveInvariant, PTL
==============================================================================
