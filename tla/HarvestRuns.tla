----------------------------- MODULE HarvestRuns -----------------------------
(***************************************************************************)
(* The runs of the global harvest: which days a run collects, the one       *)
(* 'running' row the unique index allows, its heartbeat, and the boundary   *)
(* the next run continues from (workflows/harvest.py,                       *)
(* services/harvest_window.py, api/admin/routers/harvest.py).               *)
(*                                                                         *)
(* Days of UTC are numbered; a boundary is the first day not covered, as    *)
(* harvest_runs.until is exclusive. Closed rows matter only through         *)
(* max(until) of those that succeeded.                                      *)
(***************************************************************************)
EXTENDS Integers

CONSTANTS
  Flows,         \* slots for concurrent runs of global_harvest_flow
  ByHand,        \* those started by hand: trigger # 'schedule'
  Modes,         \* which of "dates", "open_window" a manual run may be given
  MaxCatchup,    \* HARVEST_MAX_CATCHUP_DAYS
  MaxDay,        \* the model's last day
  MaxManual,     \* bound on manual runs
  MaxFailures,   \* bound on runs that raise or die
  MaxEvictions,  \* bound on live runs that lose their row
  NoRun, Orphan

ASSUME HarvestAssumption ==
  /\ ByHand \subseteq Flows
  /\ MaxCatchup \in Nat \ {0}
  /\ MaxDay \in Nat /\ MaxDay >= 2
  /\ MaxManual \in Nat /\ MaxFailures \in Nat /\ MaxEvictions \in Nat
  /\ NoRun \notin Flows /\ Orphan \notin Flows /\ NoRun # Orphan

VARIABLES
  today,
  \* harvest_runs
  running,    \* whose row has status 'running'; Orphan when its flow has died
  quiet,      \* its heartbeat, or else its start, is older than the threshold
  covered,    \* max(until) of succeeded runs, Never before the first
  asked,      \* days the sources were asked for; what a failing one did not
              \* give is reported and left to the administrator
  \* memory of the flows
  pc,
  next,       \* the day whose turn it is
  until,      \* until of the last chunk; Never for an open window
  \* history
  forgone,    \* days a plan left behind: too long ago to catch up with
  jumped,     \* days beyond the boundary that a plan for given dates passed over
  manual, failures, evictions

tableVars == <<running, quiet, covered>>
flowVars == <<pc, next, until>>
history == <<forgone, jumped>>
budget == <<manual, failures, evictions>>
vars == <<today, tableVars, asked, flowVars, history, budget>>

Never == 0
Days == 1..MaxDay
Off == "off"
Harvesting == {"ingest", "beat", "close", "fail"}
PC == {Off, "plan", "open"} \cup Harvesting

TypeOK ==
  /\ today \in 2..MaxDay
  /\ running \in Flows \cup {NoRun, Orphan}
  /\ quiet \in BOOLEAN
  /\ covered \in {Never} \cup Days
  /\ asked \subseteq Days
  /\ pc \in [Flows -> PC]
  /\ next \in [Flows -> Nat]
  /\ until \in [Flows -> {Never} \cup Days]
  /\ forgone \subseteq Days
  /\ jumped \subseteq Days
  /\ manual \in 0..MaxManual
  /\ failures \in 0..MaxFailures
  /\ evictions \in 0..MaxEvictions

Init ==
  /\ today = 2
  /\ running = NoRun /\ quiet = FALSE /\ covered = Never
  /\ asked = {}
  /\ pc = [r \in Flows |-> Off]
  /\ next = [r \in Flows |-> Never]
  /\ until = [r \in Flows |-> Never]
  /\ forgone = {} /\ jumped = {}
  /\ manual = 0 /\ failures = 0 /\ evictions = 0

-----------------------------------------------------------------------------
(* Slips: plausible mistakes, used by no action.                           *)

AnyRunning == running # NoRun
NoneAbandoned == FALSE
OnlyYesterday == today - 1

-----------------------------------------------------------------------------
(* Decisions of the code.                                                  *)

Larger(m, n) == IF m >= n THEN m ELSE n
Smaller(m, n) == IF m <= n THEN m ELSE n

\* last_complete_day.
Yesterday == today - 1

\* scheduled_windows: the first day of a run that catches up.
Horizon == Yesterday - (MaxCatchup - 1)
CatchUpFrom == IF covered = Never THEN Yesterday ELSE Larger(covered, Horizon)

\* The days no later run will take: before the horizon, or before the start of
\* all harvesting.
LeftBehind ==
  {d \in Days : d < Yesterday /\ d >= covered /\ (covered = Never \/ d < Horizon)}

PassedOver(first) == {d \in Days : covered <= d /\ d < first}

\* reclaim_stale_runs.
Abandoned == running # NoRun /\ quiet

\* last_covered_until, once r's row says 'succeeded'. An open window has no until.
BoundaryAfter(r) == Larger(covered, until[r])

\* The day of the chunk in hand; an open window has none to its name.
ThisDay(r) == IF until[r] = Never THEN {} ELSE {next[r]}

-----------------------------------------------------------------------------
(* Time.                                                                   *)

Tomorrow ==
  /\ today < MaxDay
  /\ today' = today + 1
  /\ UNCHANGED <<tableVars, asked, flowVars, history, budget>>

\* Nobody writes the heartbeat of an orphan.
OrphanFallsQuiet ==
  /\ running = Orphan /\ ~quiet
  /\ quiet' = TRUE
  /\ UNCHANGED <<today, running, covered, asked, flowVars, history, budget>>

\* A live run is quiet when a single day takes longer than the threshold, or
\* when its heartbeats keep failing.
LiveFallsQuiet ==
  /\ running \in Flows /\ ~quiet
  /\ evictions < MaxEvictions
  /\ quiet' = TRUE
  /\ evictions' = evictions + 1
  /\ UNCHANGED <<today, running, covered, asked, flowVars, history, manual, failures>>

-----------------------------------------------------------------------------
(* global_harvest_flow.                                                    *)

Leave(r) ==
  /\ pc' = [pc EXCEPT ![r] = Off]
  /\ next' = [next EXCEPT ![r] = Never]
  /\ until' = [until EXCEPT ![r] = Never]

Plan(r, first, bound) ==
  /\ next' = [next EXCEPT ![r] = first]
  /\ until' = [until EXCEPT ![r] = bound]
  /\ pc' = [pc EXCEPT ![r] = "open"]

\* reclaim_stale_runs opens every run, manual or scheduled.
StartRun(r) ==
  /\ pc[r] = Off
  /\ r \in ByHand => manual < MaxManual
  /\ manual' = IF r \in ByHand THEN manual + 1 ELSE manual
  /\ running' = IF Abandoned THEN NoRun ELSE running
  /\ quiet' = IF Abandoned THEN FALSE ELSE quiet
  /\ pc' = [pc EXCEPT ![r] = "plan"]
  /\ UNCHANGED <<today, covered, asked, next, until, history, failures, evictions>>

\* scheduled_windows with something to catch up with.
PlanCatchUp(r) ==
  /\ pc[r] = "plan" /\ covered <= Yesterday
  /\ Plan(r, CatchUpFrom, Yesterday + 1)
  /\ forgone' = forgone \cup LeftBehind
  /\ UNCHANGED <<today, tableVars, asked, jumped, budget>>

\* scheduled_windows with yesterday already covered: a scheduled run ends
\* without a row, a manual one collects the day again.
PlanNothingNew(r) ==
  /\ pc[r] = "plan" /\ covered > Yesterday
  /\ \/ r \in ByHand /\ Plan(r, Yesterday, Yesterday + 1)
     \/ r \notin ByHand /\ Leave(r)
  /\ UNCHANGED <<today, tableVars, asked, history, budget>>

\* day, since_day .. until_day, days_back: day_range cuts at yesterday and
\* refuses a range that begins after it.
PlanDates(r, first, last) ==
  /\ pc[r] = "plan" /\ r \in ByHand /\ "dates" \in Modes /\ first <= last
  /\ \/ /\ first <= Yesterday
        /\ Plan(r, first, Smaller(last, Yesterday) + 1)
        /\ jumped' = jumped \cup PassedOver(first)
     \/ /\ first > Yesterday
        /\ Leave(r)
        /\ UNCHANGED jumped
  /\ UNCHANGED <<today, tableVars, asked, forgone, budget>>

PlanOpenWindow(r) ==
  /\ pc[r] = "plan" /\ r \in ByHand /\ "open_window" \in Modes
  /\ Plan(r, Never, Never)
  /\ UNCHANGED <<today, tableVars, asked, history, budget>>

\* open_run: HarvestAlreadyRunning ends the flow before it has a row.
OpenRun(r) ==
  /\ pc[r] = "open"
  /\ \/ /\ running = NoRun
        /\ running' = r
        /\ quiet' = FALSE
        /\ pc' = [pc EXCEPT ![r] = "ingest"]
        /\ UNCHANGED <<next, until>>
     \/ /\ running # NoRun
        /\ Leave(r)
        /\ UNCHANGED <<running, quiet>>
  /\ UNCHANGED <<today, covered, asked, history, budget>>

\* ingest of one chunk; a source that fails does not stop the run.
Ingest(r) ==
  /\ pc[r] = "ingest"
  /\ asked' = asked \cup ThisDay(r)
  /\ next' = [next EXCEPT ![r] = @ + 1]
  /\ pc' = [pc EXCEPT ![r] = "beat"]
  /\ UNCHANGED <<today, tableVars, until, history, budget>>

\* heartbeat: WHERE id only, and a failure to write it is swallowed.
Beat(r) ==
  /\ pc[r] = "beat"
  /\ \/ quiet' = IF running = r THEN FALSE ELSE quiet
     \/ UNCHANGED quiet
  /\ pc' = [pc EXCEPT ![r] = IF next[r] < until[r] THEN "ingest" ELSE "close"]
  /\ UNCHANGED <<today, running, covered, asked, next, until, history, budget>>

\* The row of r, whatever became of it meanwhile.
CloseRow(r) ==
  /\ running' = IF running = r THEN NoRun ELSE running
  /\ quiet' = IF running = r THEN FALSE ELSE quiet

CloseSucceeded(r) ==
  /\ pc[r] = "close"
  /\ CloseRow(r)
  /\ covered' = BoundaryAfter(r)
  /\ Leave(r)
  /\ UNCHANGED <<today, asked, history, budget>>

CloseFailed(r) ==
  /\ pc[r] = "fail"
  /\ CloseRow(r)
  /\ Leave(r)
  /\ UNCHANGED <<today, covered, asked, history, budget>>

Raises(r) ==
  /\ pc[r] \in {"ingest", "close"} /\ failures < MaxFailures
  /\ failures' = failures + 1
  /\ pc' = [pc EXCEPT ![r] = "fail"]
  /\ UNCHANGED <<today, tableVars, asked, next, until, history, manual, evictions>>

\* The process dies, or a statement outside the handler raises: a row that is
\* open stays open.
Dies(r) ==
  /\ pc[r] # Off /\ failures < MaxFailures
  /\ failures' = failures + 1
  /\ running' = IF running = r THEN Orphan ELSE running
  /\ Leave(r)
  /\ UNCHANGED <<today, quiet, covered, asked, history, manual, evictions>>

-----------------------------------------------------------------------------
\* abort_running: the row is closed; a flow behind it goes on.
AbortRunning ==
  /\ \/ running = Orphan /\ UNCHANGED evictions
     \/ running \in Flows /\ evictions < MaxEvictions /\ evictions' = evictions + 1
  /\ running' = NoRun
  /\ quiet' = FALSE
  /\ UNCHANGED <<today, covered, asked, flowVars, history, manual, failures>>

-----------------------------------------------------------------------------
\* A run under way, as its process carries it on.
FlowStep(r) ==
  \/ PlanCatchUp(r) \/ PlanNothingNew(r) \/ PlanOpenWindow(r)
  \/ \E first, last \in Days : PlanDates(r, first, last)
  \/ OpenRun(r) \/ Ingest(r) \/ Beat(r) \/ CloseSucceeded(r) \/ CloseFailed(r)

Next ==
  \/ \E r \in Flows : StartRun(r) \/ FlowStep(r) \/ Raises(r) \/ Dies(r)
  \/ Tomorrow \/ OrphanFallsQuiet \/ LiveFallsQuiet
  \/ AbortRunning

Spec == Init /\ [][Next]_vars

\* Cron starts the scheduled runs for ever, runs that neither raise nor die go
\* on, days pass. Manual runs and the abort button owe nothing.
Fairness ==
  /\ \A r \in Flows : WF_vars(FlowStep(r))
  /\ \A r \in Flows \ ByHand : WF_vars(StartRun(r))
  /\ WF_vars(Tomorrow)
  /\ WF_vars(OrphanFallsQuiet)

FairSpec == Spec /\ Fairness

-----------------------------------------------------------------------------
(* Properties.                                                             *)

\* The boundary tells the truth: the sources were asked for every day before
\* it, or the day was given up aloud when a plan met the horizon, or a run for
\* given dates passed over it - through failed, dead, evicted, overlapping runs.
BoundaryIsHonest ==
  \A d \in Days : d < covered => d \in asked \cup forgone \cup jumped

\* No day is collected, and the boundary does not pass it, before it is over.
OnlyFinishedDays ==
  /\ covered <= today
  /\ \A d \in asked : d < today

\* While no live run lost its row (a day slower than the threshold, the abort
\* button) the unique index keeps harvests apart - deaths notwithstanding.
OneHarvest ==
  evictions = 0 =>
    \A r, s \in Flows : pc[r] \in Harvesting /\ pc[s] \in Harvesting => r = s

\* Once things stop going wrong the schedule reaches the present: a row left
\* open by a dead run does not block it for ever.
CatchesUp == <>[](covered = today)
=============================================================================
