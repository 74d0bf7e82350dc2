---------------------------- MODULE PlannerProofs ----------------------------
(***************************************************************************)
(* Theorems about Planner, for workflows of any length, any dependencies    *)
(* and any tools: the sort is the stable topological one unless there is a  *)
(* cycle, and what a plan without critical issues guarantees.               *)
(***************************************************************************)
EXTENDS Planner, FiniteSetTheorems, SequenceTheorems, WellFoundedInduction, TLAPS

\* The steps placed so far are a stable prefix, the counters count the dependencies
\* still open and the ready list holds what may come next.
SortInv ==
  /\ raw \in [Steps -> Raws]
  /\ deps \in [Steps -> SUBSET Steps]
  /\ phase \in {"sort", "plan", "done"}
  /\ result \in Seq(Steps)
  /\ Cardinality(Seen(result)) = Len(result)
  /\ indeg = [s \in Steps |-> Cardinality(deps[s] \ Seen(result))]
  /\ ready = {s \in Steps \ Seen(result) : deps[s] \subseteq Seen(result)}
  /\ Stable(result)
  /\ phase # "sort" => ready = {} /\ order = Sorted

PlanInv ==
  phase = "done" =>
    /\ planned = MarkPivot([i \in Steps |-> PlanStep(order[i])], pivot)
    /\ pivot = DetectPivot([i \in Steps |-> PlanStep(order[i])])
    /\ issues = CriticalIssues(planned, pivot)

------------------------------------------------------------------------------
\* A nonempty set of natural numbers has a first element.
LEMMA FirstIsLeast ==
  ASSUME NEW S, S \subseteq Nat, S # {}
  PROVE  First(S) \in S /\ \A y \in S : First(S) <= y
<1> DEFINE R == {ss \in Nat \X Nat : ss[1] < ss[2]}
<1>1. IsWellFoundedOn(R, Nat)
  BY NatLessThanWellFounded DEF OpToRel
<1>2. \E x \in S : \A y \in S : <<y, x>> \notin R
  <2> HIDE DEF R
  <2> QED
    BY <1>1, WFMin
<1>3. PICK x \in S : \A y \in S : ~(y < x)
  BY <1>2
<1>4. x \in S /\ \A y \in S : x <= y
  BY <1>3
<1> QED
  BY <1>4 DEF First

\* Subsets of Steps are finite, and none but Steps itself has N members.
LEMMA StepsAreFinite ==
  ASSUME NEW S, S \subseteq Steps
  PROVE  /\ IsFiniteSet(S) /\ Cardinality(S) \in 0..N
         /\ Cardinality(S) = N <=> S = Steps
<1>1. N \in Nat \ {0}
  BY PlannerAssumption
<1>2. IsFiniteSet(Steps) /\ Cardinality(Steps) = N
  BY <1>1, FS_Interval DEF Steps
<1>3. /\ IsFiniteSet(S) /\ Cardinality(S) <= Cardinality(Steps)
      /\ Cardinality(Steps) = Cardinality(S) => Steps = S
  BY <1>2, FS_Subset
<1>4. Cardinality(S) \in Nat
  BY <1>3, FS_CardinalityType
<1> QED
  BY <1>1, <1>2, <1>3, <1>4

\* One more step placed.
LEMMA SeenAppend ==
  ASSUME NEW seq \in Seq(Steps), NEW node \in Steps
  PROVE  /\ Seen(Append(seq, node)) = Seen(seq) \cup {node}
         /\ Seen(seq) \subseteq Steps
         /\ Before(Append(seq, node), Len(seq) + 1) = Seen(seq)
         /\ \A i \in 1..Len(seq) : /\ Append(seq, node)[i] = seq[i]
                                 /\ Before(Append(seq, node), i) = Before(seq, i)
         /\ \A i \in 1..Len(seq) : Before(seq, i) \subseteq Seen(seq)
<1> DEFINE app == Append(seq, node)
<1>1. /\ Len(seq) \in Nat /\ Len(app) = Len(seq) + 1
      /\ \A i \in 1..Len(seq) : app[i] = seq[i]
      /\ app[Len(seq) + 1] = node
  BY AppendProperties, LenProperties
<1>2. \A i \in 1..Len(seq) : seq[i] \in Steps
  BY ElementOfSeq
<1> HIDE DEF app
<1>3. Seen(app) = Seen(seq) \cup {node}
  BY <1>1 DEF Seen
<1>4. Seen(seq) \subseteq Steps
  BY <1>2 DEF Seen
<1>5. Before(app, Len(seq) + 1) = Seen(seq)
  <2>1. (Len(seq) + 1) - 1 = Len(seq)
    BY <1>1
  <2> QED
    BY <1>1, <2>1 DEF Before, Seen
<1>6. ASSUME NEW i \in 1..Len(seq)
      PROVE  Before(app, i) = Before(seq, i) /\ Before(seq, i) \subseteq Seen(seq)
  <2>1. \A j \in 1..(i - 1) : j \in 1..Len(seq)
    BY <1>1
  <2> QED
    BY <1>1, <2>1 DEF Before, Seen
<1> QED
  BY <1>1, <1>3, <1>4, <1>5, <1>6 DEF app

\* A placed step has had its dependencies placed.
LEMMA PlacedIsServed ==
  ASSUME SortInv, NEW s \in Seen(result)
  PROVE  deps[s] \subseteq Seen(result)
<1>1. PICK i \in 1..Len(result) : s = result[i]
  BY DEF Seen
<1>2. DOMAIN result = 1..Len(result) /\ 1 \in Steps
  BY LenProperties, PlannerAssumption DEF SortInv, Steps
<1>3. deps[s] \subseteq Before(result, i)
  BY <1>1, <1>2 DEF SortInv, Stable, Available
<1>4. Before(result, i) \subseteq Seen(result)
  BY <1>2, SeenAppend DEF SortInv
<1> QED
  BY <1>3, <1>4

------------------------------------------------------------------------------
LEMMA SortInvInit == Init => SortInv /\ PlanInv
<1> SUFFICES ASSUME Init PROVE SortInv /\ PlanInv
  OBVIOUS
<1>1. Seen(<<>>) = {}
  BY DEF Seen
<1>2. \A s \in Steps : deps[s] \ {} = deps[s]
  OBVIOUS
<1>3. /\ <<>> \in Seq(Steps) /\ Len(<<>>) = 0 /\ DOMAIN <<>> = {}
      /\ Cardinality({}) = 0
  BY FS_EmptySet
<1>4. Stable(result)
  BY <1>3 DEF Init, Stable
<1>5. ready = {s \in Steps \ {} : deps[s] \subseteq {}}
  BY DEF Init
<1> QED
  BY <1>1, <1>2, <1>3, <1>4, <1>5 DEF Init, SortInv, PlanInv

LEMMA PlaceNextSort ==
  ASSUME SortInv, PlaceNext
  PROVE  SortInv'
<1> DEFINE node == First(ready)
           freed == {s \in Steps : node \in deps[s] /\ indeg[s] = 1}
<1>1. /\ phase = "sort" /\ ready # {} /\ UNCHANGED <<raw, deps, phase, order>>
      /\ result' = Append(result, node)
      /\ indeg' = [s \in Steps |-> IF node \in deps[s] THEN indeg[s] - 1 ELSE indeg[s]]
      /\ ready' = (ready \ {node}) \cup freed
  BY DEF PlaceNext, input
<1>2. node \in ready /\ \A y \in ready : node <= y
  <2>1. ready \subseteq Nat
    BY PlannerAssumption DEF SortInv, Steps
  <2> QED
    BY <1>1, <2>1, FirstIsLeast
<1> HIDE DEF node
<1>3. node \in Steps /\ node \notin Seen(result) /\ deps[node] \subseteq Seen(result)
  BY <1>2 DEF SortInv
<1>4. /\ Seen(result') = Seen(result) \cup {node}
      /\ Seen(result) \subseteq Steps
  BY <1>1, <1>3, SeenAppend DEF SortInv
<1>5. raw' \in [Steps -> Raws] /\ deps' \in [Steps -> SUBSET Steps] /\ deps' = deps
  BY <1>1 DEF SortInv
<1>6. result' \in Seq(Steps) /\ Len(result') = Len(result) + 1 /\ Len(result) \in Nat
  BY <1>1, <1>3, AppendProperties, LenProperties DEF SortInv
<1>7. Cardinality(Seen(result')) = Len(result')
  <2>1. IsFiniteSet(Seen(result))
    BY <1>4, StepsAreFinite
  <2>2. Cardinality(Seen(result) \cup {node}) = Cardinality(Seen(result)) + 1
    BY <2>1, <1>3, FS_AddElement
  <2> QED
    BY <2>2, <1>4, <1>6 DEF SortInv
<1>8. \A s \in Steps :
        /\ deps[s] \ Seen(result') = (deps[s] \ Seen(result)) \ {node}
        /\ IsFiniteSet(deps[s] \ Seen(result))
        /\ deps[s] \subseteq Steps
  <2>1. ASSUME NEW s \in Steps
        PROVE  deps[s] \subseteq Steps /\ deps[s] \ Seen(result) \subseteq Steps
    BY DEF SortInv
  <2> QED
    BY <2>1, <1>4, StepsAreFinite
<1>9. indeg' = [s \in Steps |-> Cardinality(deps'[s] \ Seen(result'))]
  <2>1. ASSUME NEW s \in Steps
        PROVE  Cardinality(deps[s] \ Seen(result')) =
                 IF node \in deps[s] THEN indeg[s] - 1 ELSE indeg[s]
    <3>1. Cardinality((deps[s] \ Seen(result)) \ {node}) =
            IF node \in deps[s] \ Seen(result)
            THEN Cardinality(deps[s] \ Seen(result)) - 1
            ELSE Cardinality(deps[s] \ Seen(result))
      BY <1>8, FS_RemoveElement
    <3> QED
      BY <3>1, <1>3, <1>8 DEF SortInv
  <2> QED
    BY <2>1, <1>1, <1>5
<1>10. ready' = {s \in Steps \ Seen(result') : deps'[s] \subseteq Seen(result')}
  <2>1. ASSUME NEW s \in Steps
        PROVE  s \in freed <=> node \in deps[s] /\ deps[s] \subseteq Seen(result')
    <3>1. indeg[s] = 1 <=> \E x : deps[s] \ Seen(result) = {x}
      BY <1>8, FS_Singleton DEF SortInv
    <3>2. node \in deps[s] => node \in deps[s] \ Seen(result)
      BY <1>3
    <3> QED
      BY <3>1, <3>2, <1>3, <1>4
  <2>2. ASSUME NEW s \in freed
        PROVE  s \in Steps \ Seen(result')
    <3>1. s \notin Seen(result)
      BY <1>3, PlacedIsServed
    <3>2. s # node
      BY <1>3
    <3> QED
      BY <3>1, <3>2, <1>4
  <2>3. ASSUME NEW s \in Steps
        PROVE  s \in ready <=> s \notin Seen(result) /\ deps[s] \subseteq Seen(result)
    BY DEF SortInv
  <2>4. ready \subseteq Steps /\ freed \subseteq Steps
    BY DEF SortInv
  <2>5. ASSUME NEW s \in Steps \ Seen(result'), deps[s] \subseteq Seen(result'),
               node \notin deps[s]
        PROVE  s \in ready /\ s # node
    BY <2>3, <2>5, <1>4
  <2> HIDE DEF freed
  <2> QED
    BY <1>1, <1>4, <1>5, <2>1, <2>2, <2>3, <2>4, <2>5
<1>11. Stable(result)'
  <2>1. DOMAIN result' = 1..(Len(result) + 1) /\ DOMAIN result = 1..Len(result)
    BY <1>6, LenProperties DEF SortInv
  <2>2. \A i \in 1..Len(result) :
          result'[i] = result[i] /\ Before(result', i) = Before(result, i)
    BY <1>1, <1>3, SeenAppend DEF SortInv
  <2>3. Before(result', Len(result) + 1) = Seen(result) /\ result'[Len(result) + 1] = node
    BY <1>1, <1>3, SeenAppend, AppendProperties DEF SortInv
  <2>4. ASSUME NEW i \in 1..Len(result)
        PROVE  /\ result'[i] \in Available(result', i)
               /\ \A s \in Available(result', i) : result'[i] <= s
    <3>1. Available(result', i) = Available(result, i)
      BY <2>2 DEF Available
    <3> QED
      BY <2>1, <2>2, <3>1 DEF SortInv, Stable
  <2>5. Available(result', Len(result) + 1) = ready
    BY <2>3 DEF Available, SortInv
  <2>6. ASSUME NEW i \in DOMAIN result'
        PROVE  /\ result'[i] \in Available(result', i)
               /\ \A s \in Available(result', i) : result'[i] <= s
    <3>1. CASE i \in 1..Len(result)
      BY <3>1, <2>4
    <3>2. CASE i = Len(result) + 1
      BY <3>2, <2>3, <2>5, <1>2
    <3> QED
      BY <3>1, <3>2, <2>1, <1>6
  <2> QED
    BY <2>6, <1>5 DEF Stable, Available
<1> QED
  BY <1>1, <1>5, <1>6, <1>7, <1>9, <1>10, <1>11 DEF SortInv

\* Once the loop has ended nothing touches what it worked on.
LEMMA SortFrame ==
  ASSUME SortInv, UNCHANGED <<raw, deps, indeg, ready, result>>,
         phase' \in {"sort", "plan", "done"},
         phase' # "sort" => ready = {} /\ order' = Sorted
  PROVE  SortInv'
<1>1. Seen(result)' = Seen(result) /\ Sorted' = Sorted
  BY DEF Seen, Sorted
<1>2. \A i : Available(result, i)' = Available(result, i)
  BY DEF Available, Before
<1>3. Stable(result)'
  <2>1. \A i \in DOMAIN result : /\ result[i] \in Available(result, i)
                                /\ \A s \in Available(result, i) : result[i] <= s
    BY DEF SortInv, Stable
  <2>2. \A i \in DOMAIN result : /\ result[i] \in Available(result, i)'
                                /\ \A s \in Available(result, i)' : result[i] <= s
    BY <1>2, <2>1
  <2> QED
    BY <2>2 DEF Stable
<1>4. indeg' = [s \in Steps |-> Cardinality(deps'[s] \ Seen(result)')]
  BY <1>1 DEF SortInv
<1>5. ready' = {s \in Steps \ Seen(result)' : deps'[s] \subseteq Seen(result)'}
  BY <1>1 DEF SortInv
<1>6. Cardinality(Seen(result))' = Len(result)'
  BY <1>1 DEF SortInv
<1> QED
  BY <1>1, <1>3, <1>4, <1>5, <1>6 DEF SortInv

LEMMA SortInvStep == SortInv /\ PlanInv /\ [Next]_vars => SortInv' /\ PlanInv'
<1> SUFFICES ASSUME SortInv, PlanInv, [Next]_vars
             PROVE  SortInv' /\ PlanInv'
  OBVIOUS
<1>1. CASE PlaceNext
  <2>1. phase' # "done"
    BY <1>1 DEF PlaceNext
  <2> QED
    BY <1>1, <2>1, PlaceNextSort DEF PlanInv
<1>2. CASE EndSort
  <2>1. phase' = "plan" /\ ready = {} /\ order' = Sorted
        /\ UNCHANGED <<raw, deps, indeg, ready, result>>
    BY <1>2 DEF EndSort, input, sorting
  <2>2. SortInv'
    BY <2>1, SortFrame
  <2> QED
    BY <2>1, <2>2 DEF PlanInv
<1>3. CASE PlanSteps
  <2> DEFINE ps == [i \in Steps |-> PlanStep(order[i])]
  <2>1. /\ phase' = "done" /\ phase = "plan"
        /\ pivot' = DetectPivot(ps) /\ planned' = MarkPivot(ps, pivot')
        /\ issues' = CriticalIssues(planned', pivot')
        /\ UNCHANGED <<raw, deps, indeg, ready, result, order>>
    BY <1>3 DEF PlanSteps, input, sorting
  <2>2. ps = [i \in Steps |-> PlanStep(order[i])]'
    BY <2>1 DEF PlanStep
  <2>3. ready = {} /\ order' = Sorted
    BY <2>1 DEF SortInv
  <2>4. SortInv'
    BY <2>1, <2>3, SortFrame
  <2> HIDE DEF ps
  <2> QED
    BY <2>1, <2>2, <2>4 DEF PlanInv
<1>4. CASE UNCHANGED vars
  <2>1. UNCHANGED <<raw, deps, phase, indeg, ready, result, order, planned, pivot, issues>>
    BY <1>4 DEF vars, input, sorting, plan
  <2>2. phase' \in {"sort", "plan", "done"} /\ (phase' # "sort" => ready = {} /\ order' = Sorted)
    BY <2>1 DEF SortInv
  <2>3. SortInv'
    BY <2>1, <2>2, SortFrame
  <2>4. [i \in Steps |-> PlanStep(order[i])]' = [i \in Steps |-> PlanStep(order[i])]
    BY <2>1 DEF PlanStep
  <2> QED
    BY <2>1, <2>3, <2>4 DEF PlanInv
<1> QED
  BY <1>1, <1>2, <1>3, <1>4 DEF Next

\* The loop's state and the plan computed after it, in every workflow.
THEOREM PlannerInvariant == Spec => [](SortInv /\ PlanInv)
<1> QED
  BY SortInvInit, SortInvStep, PTL DEF Spec

------------------------------------------------------------------------------
\* A stable sequence of all steps leaves no room for a cycle: the first of its members
\* to be placed would have to wait for another.
LEMMA PlacedIsAcyclic ==
  ASSUME SortInv, Seen(result) = Steps
  PROVE  ~Cyclic
<1> SUFFICES ASSUME NEW S \in SUBSET Steps, Deadlocked(S)
             PROVE  FALSE
  BY DEF Cyclic
<1> DEFINE I == {i \in 1..Len(result) : result[i] \in S}
<1>1. I \subseteq Nat /\ I # {}
  BY DEF Deadlocked, Seen
<1>2. First(I) \in I /\ \A j \in I : First(I) <= j
  BY <1>1, FirstIsLeast
<1>3. PICK i \in I : \A j \in I : i <= j
  BY <1>2
<1>4. DOMAIN result = 1..Len(result)
  BY LenProperties DEF SortInv
<1>5. deps[result[i]] \subseteq Before(result, i)
  BY <1>3, <1>4 DEF SortInv, Stable, Available
<1>6. PICK d \in deps[result[i]] : d \in S
  BY <1>3 DEF Deadlocked
<1>7. PICK j \in 1..(i - 1) : d = result[j]
  BY <1>5, <1>6 DEF Before
<1>8. j \in I /\ j < i
  BY <1>3, <1>6, <1>7, LenProperties DEF SortInv
<1> QED
  BY <1>3, <1>8

\* When nothing is ready, the steps left over wait for each other.
LEMMA LeftoverIsCyclic ==
  ASSUME SortInv, ready = {}, Seen(result) # Steps
  PROVE  Cyclic
<1> DEFINE S == Steps \ Seen(result)
<1>1. Seen(result) \subseteq Steps
  <2>1. 1 \in Steps
    BY PlannerAssumption DEF Steps
  <2> QED
    BY <2>1, SeenAppend DEF SortInv
<1>2. S # {}
  BY <1>1
<1>3. ASSUME NEW s \in S
      PROVE  deps[s] \cap S # {}
  BY DEF SortInv
<1>4. Deadlocked(S)
  BY <1>2, <1>3 DEF Deadlocked
<1> QED
  BY <1>4 DEF Cyclic

\* The sort keeps its promise for workflows of any length: without a cycle, the least
\* order that respects the dependencies; with one, the file's.
THEOREM SortIsStableCorrect == Spec => []SortIsStable
<1>1. SortInv => SortIsStable
  <2> SUFFICES ASSUME SortInv, phase # "sort"
               PROVE  IF Cyclic THEN order = InFileOrder
                      ELSE DOMAIN order = Steps /\ Stable(order)
    BY DEF SortIsStable
  <2>1. ready = {} /\ order = Sorted
    BY DEF SortInv
  <2>2. Seen(result) \subseteq Steps
    <3>1. 1 \in Steps
      BY PlannerAssumption DEF Steps
    <3> QED
      BY <3>1, SeenAppend DEF SortInv
  <2>3. Len(result) = N <=> Seen(result) = Steps
    BY <2>2, StepsAreFinite DEF SortInv
  <2>4. CASE Seen(result) = Steps
    <3>1. ~Cyclic
      BY <2>4, PlacedIsAcyclic
    <3>2. order = result /\ DOMAIN result = Steps
      BY <2>1, <2>3, <2>4, LenProperties DEF Sorted, SortInv, Steps
    <3> QED
      BY <3>1, <3>2 DEF SortInv
  <2>5. CASE Seen(result) # Steps
    BY <2>1, <2>3, <2>5, LeftoverIsCyclic DEF Sorted
  <2> QED
    BY <2>4, <2>5
<1> QED
  BY <1>1, PlannerInvariant, PTL

------------------------------------------------------------------------------
\* What the sort returned is a sequence of steps, one for each place.
LEMMA OrderIsOfSteps ==
  ASSUME SortInv, phase # "sort"
  PROVE  order \in [Steps -> Steps]
<1>1. CASE Len(result) # N
  BY <1>1 DEF SortInv, Sorted, InFileOrder
<1>2. CASE Len(result) = N
  BY <1>2, LenProperties DEF SortInv, Sorted, Steps
<1> QED
  BY <1>1, <1>2

\* The compensation of a step is one of the strategies there are: the last offer of the
\* hierarchy is always made.
LEMMA CompensationType ==
  ASSUME NEW r \in Raws, NEW c
  PROVE  ResolveCompensation(r, c) \in Strategies
<1> DEFINE offers == Offers(r, c)
           made   == {i \in 1..6 : offers[i] # "unset"}
<1>1. r \in RawSteps
  BY PlannerAssumption
<1>2. \A i \in 1..6 : offers[i] \in Optional(Strategies)
  <2>1. r.tool \in DOMAIN Block => Block[r.tool].contract \in Optional(Strategies)
    BY PlannerAssumption DEF Entries
  <2>2. r.tool \in DOMAIN Registry => Registry[r.tool].contract \in Optional(Strategies)
    BY PlannerAssumption DEF Entries
  <2>3. r.tool \in DOMAIN Template => Template[r.tool] \in Strategies
    BY PlannerAssumption
  <2>4. r.comp \in Optional(Strategies)
    BY <1>1 DEF RawSteps
  <2> QED
    BY <2>1, <2>2, <2>3, <2>4 DEF Offers, Optional, Strategies
<1>3. 6 \in made
  BY DEF Offers
<1>4. First(made) \in made
  <2> HIDE DEF made
  <2>1. made \subseteq Nat
    BY DEF made
  <2> QED
    BY <1>3, <2>1, FirstIsLeast
<1> QED
  BY <1>2, <1>4 DEF ResolveCompensation, Optional

\* A classification has its types, whatever the workflow and the registry say.
Classifications ==
  [rev: Reversibilities, tier: 0..3, scope: {"none", "external"}, risk: {"medium", "critical"},
   safe: BOOLEAN, gated: BOOLEAN, source: {"explicit", "registry", "fail_closed"}]

LEMMA BuildType ==
  ASSUME NEW rev \in Reversibilities, NEW meta \in Entries, NEW source \in {"explicit", "registry"}
  PROVE  Build(rev, meta, source) \in Classifications
<1>1. Given(meta.scope, "external") \in {"none", "external"}
  BY DEF Entries, Optional, Given
<1>2. Given(meta.risk, "medium") \in {"medium", "critical"}
  BY DEF Entries, Optional, Given
<1>3. TierOf(rev, Given(meta.scope, "external")) \in 0..3
  BY DEF TierOf, Reversibilities
<1> QED
  BY <1>1, <1>2, <1>3 DEF Build, Classifications

LEMMA ClassifyType ==
  ASSUME NEW t \in Tools
  PROVE  Classify(t) \in Classifications
<1>1. CASE DeclaresReversibility(t)
  <2>1. Block[t] \in Entries /\ Block[t].rev # "unset"
    BY <1>1, PlannerAssumption DEF DeclaresReversibility
  <2>2. Block[t].rev \in Reversibilities
    BY <2>1 DEF Entries, Optional
  <2> QED
    BY <1>1, <2>1, <2>2, BuildType DEF Classify
<1>2. CASE ~DeclaresReversibility(t) /\ t \in DOMAIN Registry
  <2>1. Registry[t] \in Entries
    BY <1>2, PlannerAssumption
  <2>2. Given(Registry[t].rev, "unknown") \in Reversibilities
    BY <2>1 DEF Entries, Optional, Given, Reversibilities
  <2>3. ASSUME t \in DOMAIN Block
        PROVE  Merged(Registry[t], Block[t]) \in Entries
    <3>1. Block[t] \in Entries
      BY <2>3, PlannerAssumption
    <3>2. DOMAIN Registry[t] = {"rev", "scope", "risk", "idempotent", "mode", "approval", "contract"}
      BY <2>1 DEF Entries
    <3> DEFINE m == Merged(Registry[t], Block[t])
    <3>3. m = [rev        |-> m.rev,  scope |-> m.scope,       risk     |-> m.risk,
               idempotent |-> m.idempotent, mode |-> m.mode, approval |-> m.approval,
               contract   |-> m.contract]
      BY <3>2 DEF Merged
    <3>4. /\ m.rev \in Optional(Reversibilities) /\ m.scope \in Optional({"none", "external"})
          /\ m.risk \in Optional({"medium", "critical"})
          /\ m.idempotent \in Optional({"yes", "no"})
          /\ m.mode \in Optional({"native", "wrapper", "none"})
          /\ m.approval \in Optional({"yes", "no"}) /\ m.contract \in Optional(Strategies)
      BY <2>1, <3>1, <3>2 DEF Merged, Given, Entries
    <3> HIDE DEF m
    <3>5. m \in Entries
      BY <3>3, <3>4 DEF Entries
    <3> QED
      BY <3>5 DEF m
  <2> QED
    BY <1>2, <2>1, <2>2, <2>3, BuildType DEF Classify
<1>3. CASE ~DeclaresReversibility(t) /\ t \notin DOMAIN Registry
  <2>1. FailClosed \in Classifications
    BY DEF FailClosed, Classifications, Reversibilities
  <2> QED
    BY <1>3, <2>1 DEF Classify
<1> QED
  BY <1>1, <1>2, <1>3

LEMMA PlanStepType ==
  ASSUME raw \in [Steps -> Raws], NEW s \in Steps
  PROVE  PlanStep(s) \in PlannedSteps /\ PlanStep(s).step = s
<1>1. raw[s] \in Raws /\ raw[s] \in RawSteps
  BY PlannerAssumption
<1>2. Classify(raw[s].tool) \in Classifications
  BY <1>1, ClassifyType DEF RawSteps
<1>3. ResolveCompensation(raw[s], Classify(raw[s].tool)) \in Strategies
  BY <1>1, CompensationType
<1> QED
  BY <1>1, <1>2, <1>3 DEF PlanStep, PlannedSteps, RawSteps, Classifications, Optional

\* What the steps of a finished plan are, and that no place of an accepted one has an issue.
LEMMA PlannedIs ==
  ASSUME SortInv, PlanInv, phase = "done", NEW i \in Steps
  PROVE  /\ PlanStep(order[i]) \in PlannedSteps /\ order[i] \in Steps
         /\ planned[i] = [PlanStep(order[i]) EXCEPT !.pivot = (i = pivot),
                                                   !.after = PostPivot(i, pivot)]
         /\ planned[i].step = order[i] /\ planned[i] \in PlannedSteps
         /\ planned[i].tier = PlanStep(order[i]).tier
         /\ planned[i].source = PlanStep(order[i]).source
<1>1. order[i] \in Steps
  BY OrderIsOfSteps
<1>2. PlanStep(order[i]) \in PlannedSteps /\ PlanStep(order[i]).step = order[i]
  BY <1>1, PlanStepType DEF SortInv
<1>3. planned[i] = [PlanStep(order[i]) EXCEPT !.pivot = (i = pivot), !.after = PostPivot(i, pivot)]
  BY DEF PlanInv, MarkPivot
<1>4. (i = pivot) \in BOOLEAN /\ PostPivot(i, pivot) \in BOOLEAN
  BY DEF PostPivot
<1> QED
  BY <1>1, <1>2, <1>3, <1>4 DEF PlannedSteps

\* A tool nobody classifies is behind an approval in every accepted plan.
THEOREM UnknownIsGatedCorrect == Spec => []UnknownIsGated
<1>1. SortInv /\ PlanInv => UnknownIsGated
  <2> SUFFICES ASSUME SortInv, PlanInv, Accepted, NEW i \in Steps,
                      ~DeclaresReversibility(raw[planned[i].step].tool),
                      raw[planned[i].step].tool \notin DOMAIN Registry
               PROVE  planned[i].approval
    BY DEF UnknownIsGated
  <2>1. planned[i].step = order[i] /\ planned[i].source = PlanStep(order[i]).source
        /\ planned[i] \in PlannedSteps
    BY PlannedIs DEF Accepted
  <2>2. PlanStep(order[i]).source = "fail_closed"
    BY <2>1 DEF PlanStep, Classify, FailClosed
  <2>3. ~UngatedUnknown(planned[i])
    BY DEF Accepted, PlanInv, CriticalIssues
  <2> QED
    BY <2>1, <2>2, <2>3 DEF UngatedUnknown, PlannedSteps
<1> QED
  BY <1>1, PlannerInvariant, PTL

\* A plan the engine accepts, and whose pivot it found itself, can be undone up to it.
THEOREM UndoableBeforePivotCorrect == Spec => []UndoableBeforePivot
<1>1. SortInv /\ PlanInv => UndoableBeforePivot
  <2> SUFFICES ASSUME SortInv, PlanInv, Accepted, \A s \in Steps : ~raw[s].pivot,
                      NEW i \in Steps, pivot = 0 \/ i < pivot
               PROVE  /\ planned[i].tier < 3
                      /\ planned[i].tier = 2 =>
                           planned[i].comp \in {"restore", "compensate", "forward_fix"}
    BY DEF UndoableBeforePivot
  <2> DEFINE ps    == [j \in Steps |-> PlanStep(order[j])]
             third == {j \in Steps : ps[j].tier = 3}
  <2>1. \A j \in Steps : /\ order[j] \in Steps /\ ps[j].pivot = raw[order[j]].pivot
                         /\ ps[j].tier \in 0..3
    BY PlannedIs DEF Accepted, PlanStep, PlannedSteps
  <2>2. {j \in Steps : ps[j].pivot} = {}
    BY <2>1
  <2>3. pivot = IF third # {} THEN First(third) ELSE 0
    BY <2>2 DEF PlanInv, Accepted, DetectPivot
  <2>4. i \notin third
    <3>1. third \subseteq Nat /\ i \in Nat \ {0}
      BY DEF Steps
    <3>2. CASE third = {}
      BY <3>2
    <3>3. CASE third # {}
      <4> HIDE DEF third
      <4>1. First(third) \in third /\ \A j \in third : First(third) <= j
        BY <3>1, <3>3, FirstIsLeast
      <4>2. 0 \notin third
        BY DEF third, Steps
      <4> QED
        <5>1. pivot = First(third) /\ pivot \in Nat /\ pivot # 0
          BY <2>3, <3>1, <3>3, <4>1, <4>2
        <5> QED
          BY <3>1, <4>1, <5>1
    <3> QED
      BY <3>2, <3>3
  <2>5. planned[i].tier = ps[i].tier /\ planned[i].tier \in 0..3 /\ planned[i].comp \in Strategies
    <3>1. planned[i].tier = PlanStep(order[i]).tier /\ planned[i] \in PlannedSteps
      BY PlannedIs DEF Accepted
    <3> QED
      BY <3>1 DEF PlannedSteps
  <2>6. ~(/\ PrePivot(i, pivot) /\ planned[i].tier = 2
          /\ planned[i].comp \in {"manual_escalation", "none"})
    BY DEF Accepted, PlanInv, CriticalIssues
  <2> QED
    BY <2>4, <2>5, <2>6 DEF PrePivot, Strategies
<1> QED
  BY <1>1, PlannerInvariant, PTL
==============================================================================
