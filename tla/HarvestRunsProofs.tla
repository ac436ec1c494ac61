-------------------------- MODULE HarvestRunsProofs --------------------------
(***************************************************************************)
(* Theorems about HarvestRuns, for any number of flows and days and any     *)
(* bounds. The boundary is honest because a plan never begins later than    *)
(* the first day nobody has accounted for (Settled, below), and a run moves *)
(* the boundary only past days it has walked through.                       *)
(***************************************************************************)
EXTENDS HarvestRuns, TLAPS

-----------------------------------------------------------------------------
(* The inductive invariant.                                                *)

\* A run that has planned days ends no later than today, and before it is
\* closed it stands on a day of its window.
Walking ==
  \A r \in Flows :
    /\ until[r] <= today
    /\ pc[r] \in {"open", "ingest"} /\ until[r] # Never =>
         next[r] \in Days /\ next[r] < until[r]
    /\ pc[r] = "beat" => next[r] > 0
    /\ pc[r] = "close" => until[r] <= next[r]

\* Every day before the one a run has come to is accounted for.
Settled ==
  \A r \in Flows, d \in Days :
    pc[r] \in {"open", "ingest", "beat", "close"} /\ until[r] # Never /\ d < next[r] =>
      d \in asked \cup forgone \cup jumped

IInv == TypeOK /\ OnlyFinishedDays /\ BoundaryIsHonest /\ Walking /\ Settled

-----------------------------------------------------------------------------
\* Arithmetic of days.
LEMMA DayFacts ==
  ASSUME TypeOK
  PROVE  /\ today \in Nat /\ covered \in Nat /\ covered <= MaxDay
         /\ Yesterday + 1 = today
         /\ \A d \in Days : d \in Nat /\ d # Never /\ d > 0
         /\ \A r \in Flows : until[r] \in Nat /\ next[r] \in Nat
  BY HarvestAssumption DEF TypeOK, Days, Never, Yesterday

\* A plan that catches up begins at or before yesterday, on a real day, and
\* leaves nothing behind but what it gives up aloud.
LEMMA CatchUp ==
  ASSUME TypeOK, covered <= Yesterday
  PROVE  /\ CatchUpFrom \in Days /\ CatchUpFrom < today
         /\ LeftBehind \subseteq Days
         /\ \A d \in Days : d >= covered /\ d < CatchUpFrom => d \in LeftBehind
  BY HarvestAssumption
  DEF TypeOK, Days, Never, CatchUpFrom, LeftBehind, Larger, Horizon, Yesterday

LEMMA InitHolds == Init => IInv
<1> SUFFICES ASSUME Init PROVE IInv
  OBVIOUS
<1>1. TypeOK
  <2> USE HarvestAssumption DEF Init, Days, PC, Never, Off
  <2>1. today \in 2..MaxDay
    OBVIOUS
  <2>7. covered \in {Never} \cup Days /\ quiet \in BOOLEAN
    OBVIOUS
  <2>2. running \in Flows \cup {NoRun, Orphan}
    OBVIOUS
  <2>3. pc \in [Flows -> PC]
    OBVIOUS
  <2>4. next \in [Flows -> Nat] /\ until \in [Flows -> {Never} \cup Days]
    OBVIOUS
  <2>5. asked \subseteq Days /\ forgone \subseteq Days /\ jumped \subseteq Days
    OBVIOUS
  <2>6. manual \in 0..MaxManual /\ failures \in 0..MaxFailures /\ evictions \in 0..MaxEvictions
    OBVIOUS
  <2> QED
    BY <2>1, <2>2, <2>3, <2>4, <2>5, <2>6, <2>7 DEF TypeOK
<1>2. OnlyFinishedDays /\ BoundaryIsHonest
  BY DEF Init, OnlyFinishedDays, BoundaryIsHonest, Days, Never
<1>3. Walking /\ Settled
  BY DEF Init, Walking, Settled, Never, Off
<1> QED
  BY <1>1, <1>2, <1>3 DEF IInv

-----------------------------------------------------------------------------
\* Steps of a flow. Each preserves the invariant.
LEMMA PlanCatchUpKeeps ==
  ASSUME IInv, NEW r \in Flows, PlanCatchUp(r)
  PROVE  IInv'
<1> USE DEF IInv
<1>1. /\ CatchUpFrom \in Days /\ CatchUpFrom < today /\ LeftBehind \subseteq Days
      /\ \A d \in Days : d >= covered /\ d < CatchUpFrom => d \in LeftBehind
  BY CatchUp DEF PlanCatchUp
<1>2. /\ today' = today /\ running' = running /\ quiet' = quiet /\ covered' = covered
      /\ asked' = asked /\ jumped' = jumped /\ forgone' = forgone \cup LeftBehind
      /\ manual' = manual /\ failures' = failures /\ evictions' = evictions
  BY DEF PlanCatchUp, tableVars, budget
<1>3. /\ next' = [next EXCEPT ![r] = CatchUpFrom]
      /\ until' = [until EXCEPT ![r] = today]
      /\ pc' = [pc EXCEPT ![r] = "open"]
  BY DayFacts DEF PlanCatchUp, Plan
<1>4. today \in Days /\ CatchUpFrom \in Nat
  BY <1>1, HarvestAssumption DEF TypeOK, Days
<1>5. TypeOK'
  <2>1. next' \in [Flows -> Nat] /\ until' \in [Flows -> {Never} \cup Days]
    BY <1>3, <1>4 DEF TypeOK
  <2>2. pc' \in [Flows -> PC]
    BY <1>3 DEF TypeOK, PC
  <2> QED
    BY <1>1, <1>2, <2>1, <2>2 DEF TypeOK
<1>6. OnlyFinishedDays' /\ BoundaryIsHonest'
  BY <1>2 DEF OnlyFinishedDays, BoundaryIsHonest
<1>7. Walking'
  BY <1>1, <1>2, <1>3, DayFacts DEF Walking, TypeOK
<1>8. Settled'
  BY <1>1, <1>2, <1>3, DayFacts DEF Settled, BoundaryIsHonest, TypeOK
<1> QED
  BY <1>5, <1>6, <1>7, <1>8

\* A flow that ends leaves the others, the boundary and the corpus as they were.
LEMMA LeaveKeeps ==
  ASSUME IInv, NEW r \in Flows, Leave(r),
         running' \in Flows \cup {NoRun, Orphan}, quiet' \in BOOLEAN,
         failures' \in 0..MaxFailures,
         UNCHANGED <<today, covered, asked, history, manual, evictions>>
  PROVE  IInv'
<1> USE DEF IInv
<1>1. /\ today' = today /\ covered' = covered /\ asked' = asked
      /\ forgone' = forgone /\ jumped' = jumped
      /\ manual' = manual /\ evictions' = evictions
  BY DEF history
<1>2. TypeOK'
  BY <1>1 DEF TypeOK, Leave, PC, Never
<1>3. OnlyFinishedDays' /\ BoundaryIsHonest'
  BY <1>1 DEF OnlyFinishedDays, BoundaryIsHonest
<1>4. Walking' /\ Settled'
  BY <1>1, DayFacts DEF Walking, Settled, Leave, TypeOK, Never, Off
<1> QED
  BY <1>2, <1>3, <1>4

LEMMA PlanNothingNewKeeps ==
  ASSUME IInv, NEW r \in Flows, PlanNothingNew(r)
  PROVE  IInv'
<1> USE DEF IInv
<1>1. CASE Leave(r)
  BY <1>1, LeaveKeeps DEF PlanNothingNew, tableVars, budget, TypeOK
<1>2. CASE Plan(r, Yesterday, Yesterday + 1)
  <2>1. /\ today' = today /\ running' = running /\ quiet' = quiet /\ covered' = covered
        /\ asked' = asked /\ jumped' = jumped /\ forgone' = forgone
        /\ manual' = manual /\ failures' = failures /\ evictions' = evictions
    BY DEF PlanNothingNew, tableVars, budget, history
  <2>2. /\ next' = [next EXCEPT ![r] = Yesterday]
        /\ until' = [until EXCEPT ![r] = today]
        /\ pc' = [pc EXCEPT ![r] = "open"]
    BY <1>2, DayFacts DEF Plan
  <2>3. Yesterday \in Days /\ Yesterday < today /\ Yesterday < covered /\ today \in Days
    BY HarvestAssumption, DayFacts DEF Yesterday, Days, TypeOK, PlanNothingNew
  <2>4. TypeOK'
    BY <2>1, <2>2, <2>3, DayFacts DEF TypeOK, PC
  <2>5. OnlyFinishedDays' /\ BoundaryIsHonest'
    BY <2>1 DEF OnlyFinishedDays, BoundaryIsHonest
  <2>6. Walking'
    BY <2>1, <2>2, <2>3, DayFacts DEF Walking, TypeOK
  <2>7. Settled'
    BY <2>1, <2>2, <2>3, DayFacts DEF Settled, BoundaryIsHonest, TypeOK
  <2> QED
    BY <2>4, <2>5, <2>6, <2>7
<1> QED
  BY <1>1, <1>2 DEF PlanNothingNew

LEMMA PlanDatesKeeps ==
  ASSUME IInv, NEW r \in Flows, NEW first \in Days, NEW last \in Days,
         PlanDates(r, first, last)
  PROVE  IInv'
<1> USE DEF IInv
<1> DEFINE end == Smaller(last, Yesterday) + 1
<1>1. CASE first > Yesterday
  BY <1>1, LeaveKeeps, DayFacts DEF PlanDates, tableVars, budget, history, TypeOK, Yesterday, Days
<1>2. CASE first <= Yesterday
  <2>1. /\ today' = today /\ running' = running /\ quiet' = quiet /\ covered' = covered
        /\ asked' = asked /\ forgone' = forgone /\ jumped' = jumped \cup PassedOver(first)
        /\ manual' = manual /\ failures' = failures /\ evictions' = evictions
    BY <1>2, DayFacts DEF PlanDates, tableVars, budget, Yesterday
  <2>2. /\ next' = [next EXCEPT ![r] = first]
        /\ until' = [until EXCEPT ![r] = end]
        /\ pc' = [pc EXCEPT ![r] = "open"]
    BY <1>2, DayFacts DEF PlanDates, Plan, Yesterday
  <2>3. end \in Days /\ end \in Nat /\ end <= today /\ first < end /\ first \in Nat
    BY <1>2, HarvestAssumption DEF Smaller, Yesterday, Days, TypeOK, PlanDates
  <2>4. /\ PassedOver(first) \subseteq Days
        /\ \A d \in Days : d < first => d < covered \/ d \in PassedOver(first)
    BY <2>3, DayFacts DEF PassedOver
  <2> HIDE DEF end
  <2>5. TypeOK'
    BY <2>1, <2>2, <2>3, <2>4 DEF TypeOK, PC
  <2>6. OnlyFinishedDays' /\ BoundaryIsHonest'
    BY <2>1 DEF OnlyFinishedDays, BoundaryIsHonest
  <2>7. Walking'
    BY <2>1, <2>2, <2>3, DayFacts DEF Walking, TypeOK
  <2>8. Settled'
    BY <2>1, <2>2, <2>3, <2>4, DayFacts DEF Settled, BoundaryIsHonest, TypeOK
  <2> QED
    BY <2>5, <2>6, <2>7, <2>8
<1> QED
  BY <1>1, <1>2, DayFacts DEF Yesterday, Days

LEMMA PlanOpenWindowKeeps ==
  ASSUME IInv, NEW r \in Flows, PlanOpenWindow(r)
  PROVE  IInv'
<1> USE DEF IInv
<1>1. /\ today' = today /\ running' = running /\ quiet' = quiet /\ covered' = covered
      /\ asked' = asked /\ jumped' = jumped /\ forgone' = forgone
      /\ manual' = manual /\ failures' = failures /\ evictions' = evictions
  BY DEF PlanOpenWindow, tableVars, budget, history
<1>2. TypeOK'
  BY <1>1 DEF PlanOpenWindow, Plan, TypeOK, PC, Never
<1>3. OnlyFinishedDays' /\ BoundaryIsHonest'
  BY <1>1 DEF OnlyFinishedDays, BoundaryIsHonest
<1>4. Walking' /\ Settled'
  BY <1>1, DayFacts DEF Walking, Settled, PlanOpenWindow, Plan, TypeOK, Never
<1> QED
  BY <1>2, <1>3, <1>4

LEMMA OpenRunKeeps ==
  ASSUME IInv, NEW r \in Flows, OpenRun(r)
  PROVE  IInv'
<1> USE DEF IInv
<1>1. CASE Leave(r) /\ UNCHANGED <<running, quiet>>
  BY <1>1, LeaveKeeps DEF OpenRun, budget, TypeOK
<1>2. CASE /\ pc' = [pc EXCEPT ![r] = "ingest"]
           /\ running' = r /\ quiet' = FALSE
           /\ UNCHANGED <<next, until>>
  <2>1. /\ today' = today /\ covered' = covered /\ asked' = asked
        /\ jumped' = jumped /\ forgone' = forgone
        /\ manual' = manual /\ failures' = failures /\ evictions' = evictions
    BY DEF OpenRun, budget, history
  <2>2. TypeOK'
    BY <1>2, <2>1 DEF TypeOK, PC, Harvesting
  <2>3. OnlyFinishedDays' /\ BoundaryIsHonest'
    BY <2>1 DEF OnlyFinishedDays, BoundaryIsHonest
  <2>4. Walking' /\ Settled'
    BY <1>2, <2>1, DayFacts DEF Walking, Settled, OpenRun, TypeOK
  <2> QED
    BY <2>2, <2>3, <2>4
<1> QED
  BY <1>1, <1>2 DEF OpenRun

LEMMA IngestKeeps ==
  ASSUME IInv, NEW r \in Flows, Ingest(r)
  PROVE  IInv'
<1> USE DEF IInv
<1>1. /\ today' = today /\ running' = running /\ quiet' = quiet /\ covered' = covered
      /\ until' = until /\ jumped' = jumped /\ forgone' = forgone
      /\ manual' = manual /\ failures' = failures /\ evictions' = evictions
      /\ asked' = asked \cup ThisDay(r)
      /\ next' = [next EXCEPT ![r] = next[r] + 1]
      /\ pc' = [pc EXCEPT ![r] = "beat"] /\ pc[r] = "ingest"
  BY DEF Ingest, tableVars, budget, history
<1>2. /\ ThisDay(r) \subseteq Days
      /\ \A d \in ThisDay(r) : d < today
      /\ until[r] # Never => next[r] \in ThisDay(r)
  BY <1>1, DayFacts DEF ThisDay, Walking
<1>3. TypeOK'
  BY <1>1, <1>2, DayFacts DEF TypeOK, PC, Harvesting
<1>4. OnlyFinishedDays' /\ BoundaryIsHonest'
  BY <1>1, <1>2 DEF OnlyFinishedDays, BoundaryIsHonest
<1>5. Walking'
  BY <1>1, DayFacts DEF Walking, TypeOK
<1>6. Settled'
  <2> SUFFICES ASSUME NEW s \in Flows, NEW d \in Days,
                      pc'[s] \in {"open", "ingest", "beat", "close"},
                      until[s] # Never, d < next'[s]
               PROVE  d \in asked' \cup forgone' \cup jumped'
    BY <1>1 DEF Settled
  <2>1. CASE s # r
    BY <2>1, <1>1 DEF Settled, TypeOK
  <2>2. CASE s = r
    <3>1. d < next[r] \/ d = next[r]
      BY <2>2, <1>1, DayFacts DEF TypeOK
    <3> QED
      BY <3>1, <2>2, <1>1, <1>2 DEF Settled
  <2> QED
    BY <2>1, <2>2
<1> QED
  BY <1>3, <1>4, <1>5, <1>6

LEMMA BeatKeeps ==
  ASSUME IInv, NEW r \in Flows, Beat(r)
  PROVE  IInv'
<1> USE DEF IInv
<1>1. /\ today' = today /\ running' = running /\ covered' = covered /\ asked' = asked
      /\ next' = next /\ until' = until /\ jumped' = jumped /\ forgone' = forgone
      /\ manual' = manual /\ failures' = failures /\ evictions' = evictions
      /\ quiet' \in BOOLEAN /\ pc[r] = "beat"
  BY DEF Beat, budget, history, TypeOK
<1>2. \/ pc' = [pc EXCEPT ![r] = "ingest"] /\ next[r] < until[r]
      \/ pc' = [pc EXCEPT ![r] = "close"] /\ until[r] <= next[r]
  <2>1. CASE next[r] < until[r]
    BY <2>1 DEF Beat
  <2>2. CASE ~(next[r] < until[r])
    BY <2>2, DayFacts DEF Beat
  <2> QED
    BY <2>1, <2>2
<1>3. TypeOK'
  BY <1>1, <1>2 DEF TypeOK, PC, Harvesting
<1>4. OnlyFinishedDays' /\ BoundaryIsHonest'
  BY <1>1 DEF OnlyFinishedDays, BoundaryIsHonest
<1>5. next[r] > 0
  BY <1>1 DEF Walking
<1>6. Walking' /\ Settled'
  BY <1>1, <1>2, <1>5, DayFacts, HarvestAssumption DEF Walking, Settled, TypeOK, Days, Never
<1> QED
  BY <1>3, <1>4, <1>6

\* The boundary moves over days the run has walked through.
LEMMA CloseSucceededKeeps ==
  ASSUME IInv, NEW r \in Flows, CloseSucceeded(r)
  PROVE  IInv'
<1> USE DEF IInv
<1>1. /\ today' = today /\ asked' = asked /\ jumped' = jumped /\ forgone' = forgone
      /\ manual' = manual /\ failures' = failures /\ evictions' = evictions
      /\ covered' = BoundaryAfter(r)
  BY DEF CloseSucceeded, budget, history
<1>2. covered' = covered \/ covered' = until[r]
  BY <1>1 DEF BoundaryAfter, Larger
<1>3. TypeOK'
  <2>1. running' \in Flows \cup {NoRun, Orphan} /\ quiet' \in BOOLEAN
    BY DEF CloseSucceeded, CloseRow, TypeOK
  <2>2. covered' \in {Never} \cup Days
    BY <1>2 DEF TypeOK
  <2>3. pc' \in [Flows -> PC] /\ next' \in [Flows -> Nat] /\ until' \in [Flows -> {Never} \cup Days]
    BY DEF CloseSucceeded, Leave, TypeOK, PC, Never
  <2> QED
    BY <1>1, <2>1, <2>2, <2>3 DEF TypeOK
<1>4. OnlyFinishedDays'
  BY <1>1, <1>2 DEF OnlyFinishedDays, Walking
<1>5. BoundaryIsHonest'
  <2> SUFFICES ASSUME NEW d \in Days, d < covered'
               PROVE  d \in asked \cup forgone \cup jumped
    BY <1>1 DEF BoundaryIsHonest
  <2>1. CASE covered' = covered
    BY <2>1 DEF BoundaryIsHonest
  <2>2. CASE covered' = until[r]
    <3>1. pc[r] = "close" /\ until[r] <= next[r]
      BY DEF CloseSucceeded, Walking
    <3>2. until[r] # Never /\ d < next[r]
      BY <2>2, <3>1, DayFacts DEF Never
    <3> QED
      BY <3>1, <3>2 DEF Settled
  <2> QED
    BY <1>2, <2>1, <2>2
<1>6. Walking' /\ Settled'
  BY <1>1, DayFacts DEF CloseSucceeded, Leave, Walking, Settled, TypeOK, Never, Off
<1> QED
  BY <1>3, <1>4, <1>5, <1>6

LEMMA FailureKeeps ==
  ASSUME IInv, NEW r \in Flows, CloseFailed(r) \/ Raises(r) \/ Dies(r)
  PROVE  IInv'
<1> USE DEF IInv
<1>1. CASE CloseFailed(r)
  <2>1. running' \in Flows \cup {NoRun, Orphan} /\ quiet' \in BOOLEAN
    BY <1>1 DEF CloseFailed, CloseRow, TypeOK
  <2> QED
    BY <1>1, <2>1, LeaveKeeps DEF CloseFailed, budget, TypeOK
<1>2. CASE Dies(r)
  <2>1. running' \in Flows \cup {NoRun, Orphan} /\ quiet' \in BOOLEAN
    BY <1>2 DEF Dies, TypeOK
  <2>2. failures' \in 0..MaxFailures
    BY <1>2, HarvestAssumption DEF Dies, TypeOK
  <2> QED
    BY <1>2, <2>1, <2>2, LeaveKeeps DEF Dies
<1>3. CASE Raises(r)
  <2>1. /\ today' = today /\ running' = running /\ quiet' = quiet /\ covered' = covered
        /\ asked' = asked /\ next' = next /\ until' = until
        /\ jumped' = jumped /\ forgone' = forgone
        /\ manual' = manual /\ evictions' = evictions
        /\ pc' = [pc EXCEPT ![r] = "fail"]
    BY <1>3 DEF Raises, tableVars, history
  <2>2. failures' \in 0..MaxFailures
    BY <1>3, HarvestAssumption DEF Raises, TypeOK
  <2>3. TypeOK'
    BY <2>1, <2>2 DEF TypeOK, PC, Harvesting
  <2>4. OnlyFinishedDays' /\ BoundaryIsHonest'
    BY <2>1 DEF OnlyFinishedDays, BoundaryIsHonest
  <2>5. Walking' /\ Settled'
    BY <2>1 DEF Walking, Settled, TypeOK
  <2> QED
    BY <2>3, <2>4, <2>5
<1> QED
  BY <1>1, <1>2, <1>3

\* Steps that move no flow but to its start.
LEMMA StartRunKeeps ==
  ASSUME IInv, NEW r \in Flows, StartRun(r)
  PROVE  IInv'
<1> USE DEF IInv
<1>1. /\ today' = today /\ covered' = covered /\ asked' = asked
      /\ next' = next /\ until' = until /\ jumped' = jumped /\ forgone' = forgone
      /\ failures' = failures /\ evictions' = evictions
      /\ pc' = [pc EXCEPT ![r] = "plan"]
  BY DEF StartRun, history
<1>2. TypeOK'
  <2>1. manual' \in 0..MaxManual
    BY HarvestAssumption DEF StartRun, TypeOK
  <2>2. running' \in Flows \cup {NoRun, Orphan}
    BY DEF StartRun, TypeOK
  <2>3. quiet' \in BOOLEAN
    BY DEF StartRun, TypeOK
  <2>4. pc' \in [Flows -> PC]
    BY <1>1 DEF TypeOK, PC
  <2> QED
    BY <1>1, <2>1, <2>2, <2>3, <2>4 DEF TypeOK
<1>3. OnlyFinishedDays' /\ BoundaryIsHonest'
  BY <1>1 DEF OnlyFinishedDays, BoundaryIsHonest
<1>4. Walking' /\ Settled'
  BY <1>1 DEF Walking, Settled, TypeOK
<1> QED
  BY <1>2, <1>3, <1>4

LEMMA WorldKeeps ==
  ASSUME IInv, Tomorrow \/ OrphanFallsQuiet \/ LiveFallsQuiet \/ AbortRunning \/ UNCHANGED vars
  PROVE  IInv'
<1> USE DEF IInv
<1>1. /\ covered' = covered /\ asked' = asked /\ forgone' = forgone /\ jumped' = jumped
      /\ pc' = pc /\ next' = next /\ until' = until
      /\ manual' = manual /\ failures' = failures
  BY DEF Tomorrow, OrphanFallsQuiet, LiveFallsQuiet, AbortRunning, vars, tableVars, flowVars,
         history, budget
<1>2. today' \in 2..MaxDay /\ today <= today'
  BY HarvestAssumption
  DEF Tomorrow, OrphanFallsQuiet, LiveFallsQuiet, AbortRunning, vars, TypeOK
<1>3. running' \in Flows \cup {NoRun, Orphan} /\ quiet' \in BOOLEAN
  BY DEF Tomorrow, OrphanFallsQuiet, LiveFallsQuiet, AbortRunning, vars, tableVars, TypeOK
<1>4. evictions' \in 0..MaxEvictions
  BY HarvestAssumption
  DEF Tomorrow, OrphanFallsQuiet, LiveFallsQuiet, AbortRunning, vars, budget, TypeOK
<1>5. TypeOK'
  BY <1>1, <1>2, <1>3, <1>4 DEF TypeOK
<1>6. OnlyFinishedDays' /\ BoundaryIsHonest'
  BY <1>1, <1>2, DayFacts DEF OnlyFinishedDays, BoundaryIsHonest, TypeOK
<1>7. Walking' /\ Settled'
  BY <1>1, <1>2, DayFacts DEF Walking, Settled, TypeOK
<1> QED
  BY <1>5, <1>6, <1>7

LEMMA StepKeeps == IInv /\ [Next]_vars => IInv'
<1> SUFFICES ASSUME IInv, [Next]_vars PROVE IInv'
  OBVIOUS
<1>1. ASSUME NEW r \in Flows, FlowStep(r) PROVE IInv'
  BY <1>1, PlanCatchUpKeeps, PlanNothingNewKeeps, PlanOpenWindowKeeps, PlanDatesKeeps,
     OpenRunKeeps, IngestKeeps, BeatKeeps, CloseSucceededKeeps, FailureKeeps DEF FlowStep
<1> QED
  BY <1>1, StartRunKeeps, FailureKeeps, WorldKeeps DEF Next

\* In every reachable state the variables have their types.
THEOREM TypeCorrect == Spec => []TypeOK
<1>1. IInv => TypeOK
  BY DEF IInv
<1> QED
  BY <1>1, InitHolds, StepKeeps, PTL DEF Spec

\* No day before last_covered_until was silently left out: the sources were
\* asked for it, or it lay beyond the horizon of a plan, or a run for given
\* dates passed over it - whatever number of runs fail, die, lose their row or
\* overlap.
THEOREM BoundaryIsAlwaysHonest == Spec => []BoundaryIsHonest
<1>1. IInv => BoundaryIsHonest
  BY DEF IInv
<1> QED
  BY <1>1, InitHolds, StepKeeps, PTL DEF Spec

\* last_complete_day holds: no run collects a day, and no boundary passes it,
\* before midnight UTC.
THEOREM DaysAreFinished == Spec => []OnlyFinishedDays
<1>1. IInv => OnlyFinishedDays
  BY DEF IInv
<1> QED
  BY <1>1, InitHolds, StepKeeps, PTL DEF Spec

-----------------------------------------------------------------------------
(* One harvest at a time.                                                  *)

\* While no live run was evicted, a run under way owns the running row, and
\* only an orphaned row is quiet, so reclaiming takes nothing from the living.
OwnsRow ==
  evictions = 0 =>
    /\ \A r \in Flows : pc[r] \in Harvesting => running = r
    /\ quiet => running \notin Flows

\* The unique index and the reclaiming of stale rows keep harvests apart as
\* long as no day outlasts the threshold and nobody presses abort.
THEOREM OneHarvestAtATime == Spec => []OneHarvest
<1>1. Init => OwnsRow
  BY HarvestAssumption DEF Init, OwnsRow, Harvesting, Off
<1>2. TypeOK /\ OwnsRow /\ [Next]_vars => OwnsRow'
  <2> SUFFICES ASSUME TypeOK, OwnsRow, [Next]_vars PROVE OwnsRow'
    OBVIOUS
  <2> USE HarvestAssumption DEF Harvesting, Off
  <2>1. ASSUME NEW r \in Flows, StartRun(r) PROVE OwnsRow'
    BY <2>1 DEF StartRun, Abandoned, OwnsRow, TypeOK
  <2>2. ASSUME NEW r \in Flows, FlowStep(r) PROVE OwnsRow'
    <3>1. CASE OpenRun(r)
      BY <3>1 DEF OpenRun, Leave, budget, OwnsRow, TypeOK
    <3>2. CASE Ingest(r) \/ Beat(r)
      BY <3>2 DEF Ingest, Beat, tableVars, budget, OwnsRow, TypeOK
    <3>3. CASE CloseSucceeded(r) \/ CloseFailed(r)
      BY <3>3 DEF CloseSucceeded, CloseFailed, CloseRow, Leave, budget, OwnsRow, TypeOK
    <3>4. CASE PlanCatchUp(r) \/ PlanNothingNew(r) \/ PlanOpenWindow(r)
      BY <3>4 DEF PlanCatchUp, PlanNothingNew, PlanOpenWindow, Plan, Leave, tableVars, budget,
                  OwnsRow, TypeOK
    <3>5. CASE \E first, last \in Days : PlanDates(r, first, last)
      BY <3>5 DEF PlanDates, Plan, Leave, tableVars, budget, OwnsRow, TypeOK
    <3> QED
      BY <2>2, <3>1, <3>2, <3>3, <3>4, <3>5 DEF FlowStep
  <2>3. ASSUME NEW r \in Flows, Raises(r) \/ Dies(r) PROVE OwnsRow'
    BY <2>3 DEF Raises, Dies, Leave, tableVars, OwnsRow, TypeOK
  <2>4. CASE Tomorrow \/ OrphanFallsQuiet \/ LiveFallsQuiet \/ AbortRunning \/ UNCHANGED vars
    BY <2>4 DEF Tomorrow, OrphanFallsQuiet, LiveFallsQuiet, AbortRunning, vars, tableVars,
                flowVars, budget, OwnsRow, TypeOK
  <2> QED
    BY <2>1, <2>2, <2>3, <2>4 DEF Next
<1>3. OwnsRow => OneHarvest
  BY DEF OwnsRow, OneHarvest
<1> QED
  BY <1>1, <1>2, <1>3, TypeCorrect, PTL DEF Spec
=============================================================================
