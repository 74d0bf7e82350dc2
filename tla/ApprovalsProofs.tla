---------------------------- MODULE ApprovalsProofs ----------------------------
(***************************************************************************)
(* What the approval gate promises for any number of sessions, crashes and  *)
(* decisions of the operator.                                               *)
(***************************************************************************)
EXTENDS Approvals, SequenceTheorems, TLAPS

\* The records on file keep their types (ApprovalStore.decide, request).
LEMMA ApprovalsTypeStep == TypeOK /\ [Next]_vars => TypeOK'
<1> SUFFICES ASSUME TypeOK, [Next]_vars PROVE TypeOK'
  OBVIOUS
<1> USE ApprovalsAssumption DEF TypeOK, GateStates
<1>1. CASE Request
  BY <1>1 DEF Request
<1>2. CASE FollowRecord
  BY <1>2 DEF FollowRecord, Verdict
<1>3. CASE DenyExpired
  BY <1>3 DEF DenyExpired, Decide, Decision
<1>4. CASE AskCallback
  BY <1>4 DEF AskCallback
<1>5. ASSUME NEW granted \in BOOLEAN, CallbackAnswers(granted) PROVE TypeOK'
  BY <1>5 DEF CallbackAnswers, Decide, Decision, Verdict
<1>6. ASSUME NEW granted \in BOOLEAN, OperatorDecides(granted) PROVE TypeOK'
  BY <1>6 DEF OperatorDecides, Decide, Decision
<1>7. CASE Crash
  BY <1>7 DEF Crash
<1>8. CASE Resume
  BY <1>8 DEF Resume
<1>9. CASE Tick
  BY <1>9 DEF Tick
<1>10. CASE FindExpired
  BY <1>10 DEF FindExpired
<1>11. CASE UNCHANGED vars
  BY <1>11 DEF vars
<1> QED BY <1>1, <1>2, <1>3, <1>4, <1>5, <1>6, <1>7, <1>8, <1>9, <1>10, <1>11 DEF Next

\* Types, for every deadline, clock and number of sessions.
THEOREM ApprovalsTypeCorrect == Spec => []TypeOK
<1>1. Init => TypeOK
  BY ApprovalsAssumption DEF Init, TypeOK, GateStates
<1> QED BY <1>1, ApprovalsTypeStep, PTL DEF Spec

\* Between the read of the store and the record of the gate no policy has decided:
\* only the operator may have put anything on file.
UndecidedWhileAsking ==
  gate \in {"asking", "expired"} => \A i \in DOMAIN log : ~Automatic(i)

\* A decision at the end of the log leaves those before it in their places.
LEMMA DecideAppends ==
  ASSUME TypeOK, NEW granted, NEW by, Decide(granted, by)
  PROVE  /\ Len(log) \in Nat
         /\ DOMAIN log = 1..Len(log)
         /\ DOMAIN log' = 1..(Len(log) + 1)
         /\ \A i \in 1..Len(log) : log'[i] = log[i]
         /\ log'[Len(log) + 1] = [granted |-> granted, by |-> by]
<1>1. log \in Seq(Decision) /\ Len(log) \in Nat /\ DOMAIN log = 1..Len(log)
  BY LenProperties DEF TypeOK
<1> DEFINE d == [granted |-> granted, by |-> by]
<1>2. log' = Append(log, d)
  BY DEF Decide
<1> HIDE DEF d
<1>3. log \in Seq(Decision \cup {d})
  BY <1>1, SeqMonotonic
<1>4. /\ Append(log, d) \in Seq(Decision \cup {d})
      /\ Len(Append(log, d)) = Len(log) + 1
      /\ \A i \in 1..Len(log) : Append(log, d)[i] = log[i]
      /\ Append(log, d)[Len(log) + 1] = d
  BY <1>3, AppendProperties
<1>5. DOMAIN log' = 1..(Len(log) + 1)
  BY <1>2, <1>4, LenProperties
<1> QED BY <1>1, <1>2, <1>4, <1>5 DEF d

\* A decision makes the log longer by one.
LEMMA AppendLength ==
  ASSUME NEW S, NEW s \in Seq(S), NEW d
  PROVE  Len(Append(s, d)) = Len(s) + 1 /\ Append(s, d) # <<>>
<1>1. s \in Seq(S \cup {d}) /\ Len(s) \in Nat
  BY SeqMonotonic, LenProperties
<1>2. Len(Append(s, d)) = Len(s) + 1 /\ Append(s, d) \in Seq(S \cup {d})
  BY <1>1, AppendProperties
<1> QED BY <1>1, <1>2, EmptySeq

\* A decision of the operator adds no automatic one.
LEMMA OperatorAddsNone ==
  ASSUME TypeOK, NEW granted, Decide(granted, "operator")
  PROVE  \A i \in DOMAIN log' : Automatic(i)' => i \in DOMAIN log /\ Automatic(i)
<1>1. /\ Len(log) \in Nat
      /\ DOMAIN log = 1..Len(log)
      /\ DOMAIN log' = 1..(Len(log) + 1)
      /\ \A i \in 1..Len(log) : log'[i] = log[i]
      /\ log'[Len(log) + 1] = [granted |-> granted, by |-> "operator"]
  BY DecideAppends
<1> SUFFICES ASSUME NEW i \in DOMAIN log', log'[i].by # "operator"
             PROVE  i \in DOMAIN log /\ log[i].by # "operator"
  BY DEF Automatic
<1> QED BY <1>1

\* The policy's first decision is its only one.
LEMMA FirstAutomatic ==
  ASSUME TypeOK, NEW granted, NEW by, Decide(granted, by),
         \A i \in DOMAIN log : ~Automatic(i)
  PROVE  DecidedOnce'
<1>1. /\ Len(log) \in Nat
      /\ DOMAIN log = 1..Len(log)
      /\ DOMAIN log' = 1..(Len(log) + 1)
      /\ \A i \in 1..Len(log) : log'[i] = log[i]
      /\ log'[Len(log) + 1] = [granted |-> granted, by |-> by]
  BY DecideAppends
<1> SUFFICES ASSUME NEW i \in DOMAIN log', log'[i].by # "operator" PROVE i = Len(log) + 1
  BY DEF DecidedOnce, Automatic
<1> QED BY <1>1 DEF Automatic

\* The policy decides at most once in the life of a run (_resolve_approval reads
\* the store before it asks, and a resumed session reads what an earlier one wrote).
THEOREM DecidedOnceCorrect == Spec => [](DecidedOnce /\ UndecidedWhileAsking)
<1>1. Init => DecidedOnce /\ UndecidedWhileAsking
  BY DEF Init, DecidedOnce, UndecidedWhileAsking
<1>2. TypeOK /\ DecidedOnce /\ UndecidedWhileAsking /\ [Next]_vars
        => (DecidedOnce /\ UndecidedWhileAsking)'
  <2> SUFFICES ASSUME TypeOK, DecidedOnce, UndecidedWhileAsking, [Next]_vars
               PROVE  DecidedOnce' /\ UndecidedWhileAsking'
    OBVIOUS
  <2>1. ASSUME UNCHANGED log,
             gate' \in {"asking", "expired"} => gate' = gate \/ log = <<>>
        PROVE  DecidedOnce' /\ UndecidedWhileAsking'
    BY <2>1 DEF DecidedOnce, UndecidedWhileAsking, Automatic
  <2>2. CASE DenyExpired
    <3>1. gate = "expired" /\ Decide(FALSE, "timeout") /\ gate' = "denied"
      BY <2>2 DEF DenyExpired
    <3> QED BY <3>1, FirstAutomatic DEF UndecidedWhileAsking
  <2>3. ASSUME NEW granted \in BOOLEAN, CallbackAnswers(granted)
        PROVE  DecidedOnce' /\ UndecidedWhileAsking'
    <3>1. gate = "asking" /\ Decide(granted, "callback") /\ gate' \in {"granted", "denied"}
      BY <2>3 DEF CallbackAnswers, Verdict
    <3> QED BY <3>1, FirstAutomatic DEF UndecidedWhileAsking
  <2>4. ASSUME NEW granted \in BOOLEAN, OperatorDecides(granted)
        PROVE  DecidedOnce' /\ UndecidedWhileAsking'
    <3>1. Decide(granted, "operator") /\ gate' = gate
      BY <2>4 DEF OperatorDecides
    <3> QED BY <3>1, OperatorAddsNone DEF DecidedOnce, UndecidedWhileAsking
  <2>5. CASE FollowRecord
    BY <2>1, <2>5 DEF FollowRecord, Verdict
  <2>6. CASE AskCallback \/ FindExpired
    BY <2>1, <2>6 DEF AskCallback, FindExpired, Decided
  <2>7. CASE Request \/ Crash \/ Resume \/ Tick \/ UNCHANGED vars
    BY <2>1, <2>7 DEF Request, Crash, Resume, Tick, vars
  <2> QED BY <2>2, <2>3, <2>4, <2>5, <2>6, <2>7 DEF Next
<1> QED BY <1>1, <1>2, ApprovalsTypeCorrect, PTL DEF Spec

\* The gate opens and closes only as the last decision on file says, at the very
\* moment it does so (_resolve_approval records before it returns).
THEOREM GateFollowsRecordCorrect == Spec => GateFollowsRecord
<1> DEFINE Follows ==
      \A granted \in BOOLEAN :
        gate' # gate /\ gate' = Verdict(granted) =>
          log' # <<>> /\ log'[Len(log')].granted = granted
<1>1. TypeOK /\ [Next]_vars => [Follows]_vars
  <2> SUFFICES ASSUME TypeOK, Next, NEW granted \in BOOLEAN,
                      gate' # gate, gate' = Verdict(granted)
               PROVE  log' # <<>> /\ log'[Len(log')].granted = granted
    OBVIOUS
  <2>1. gate' \in {"granted", "denied"}
    BY DEF Verdict
  <2>2. ASSUME NEW verdict, NEW by, Decide(verdict, by), verdict = granted
        PROVE  log' # <<>> /\ log'[Len(log')].granted = granted
    <3>1. Len(log) \in Nat /\ log'[Len(log) + 1] = [granted |-> verdict, by |-> by]
      BY <2>2, DecideAppends
    <3>2. log' = Append(log, [granted |-> verdict, by |-> by])
      BY <2>2 DEF Decide
    <3>3. Len(log') = Len(log) + 1 /\ log' # <<>>
      BY <3>2, AppendLength DEF TypeOK
    <3> QED BY <2>2, <3>1, <3>3
  <2>3. CASE FollowRecord
    <3>1. log # <<>> /\ log' = log /\ gate' = Verdict(Last(log).granted)
      BY <2>3 DEF FollowRecord, Decided, LatestDecision
    <3>2. Last(log).granted \in BOOLEAN /\ Last(log) = log[Len(log)]
      <4>1. log \in Seq(Decision) /\ Len(log) \in Nat /\ Len(log) # 0
        BY <3>1, LenProperties, EmptySeq DEF TypeOK
      <4>2. log[Len(log)] \in Decision
        BY <4>1, ElementOfSeq
      <4> QED BY <4>2 DEF Last, Decision
    <3>3. Last(log).granted = granted
      BY <3>1, <3>2 DEF Verdict
    <3> QED BY <3>1, <3>2, <3>3
  <2>4. CASE DenyExpired
    <3>1. Decide(FALSE, "timeout") /\ gate' = "denied"
      BY <2>4 DEF DenyExpired
    <3>2. granted = FALSE
      BY <3>1 DEF Verdict
    <3> QED BY <2>2, <3>1, <3>2
  <2>5. ASSUME NEW answer \in BOOLEAN, CallbackAnswers(answer)
        PROVE  log' # <<>> /\ log'[Len(log')].granted = granted
    <3>1. Decide(answer, "callback") /\ gate' = Verdict(answer)
      BY <2>5 DEF CallbackAnswers
    <3>2. answer = granted
      BY <3>1 DEF Verdict
    <3> QED BY <2>2, <3>1, <3>2
  <2>6. ASSUME NEW answer \in BOOLEAN, OperatorDecides(answer) PROVE FALSE
    BY <2>6 DEF OperatorDecides
  <2>7. CASE Request \/ FindExpired \/ AskCallback \/ Crash \/ Resume \/ Tick
    BY <2>1, <2>7 DEF Request, FindExpired, AskCallback, Crash, Resume, Tick
  <2> QED BY <2>3, <2>4, <2>5, <2>6, <2>7 DEF Next
<1> QED BY <1>1, ApprovalsTypeCorrect, PTL DEF Spec, GateFollowsRecord
==============================================================================
