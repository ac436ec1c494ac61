------------------------------- MODULE Metrics -------------------------------
(***************************************************************************)
(* Daily aggregates and the purge of raw rows (metrics/rollups.py,         *)
(* metrics/purge.py, workflows/metrics.py, and the purge that              *)
(* workflows/delivery.py runs at night).  A rollup recomputes the days of  *)
(* its window from the raw tables and writes them over the old values; the *)
(* purge deletes raw rows by age.  An administrator may start a rollup of  *)
(* any days, beside the scheduled one, and may erase a subscriber with all *)
(* the rows that name it (api/admin/routers/subscribers.py).  The four     *)
(* statements share no table and no aggregate: a behaviour follows one of  *)
(* them, its scope.                                                        *)
(***************************************************************************)
EXTENDS Naturals, FiniteSets

CONSTANTS
  Runs,          \* rollup runs
  Who,           \* subscribers
  LastDay,       \* bound: the days are 1..LastDay
  MaxRows,       \* bound: raw rows ever written
  MaxFailures,    \* bound: failed or killed runs
  Lookback,      \* metrics_rollup_lookback_days
  Retention,     \* harvest_decision_retention_days, metrics_retention_days
  Week,          \* the days an active subscriber counts for (7 and 30 in the code)
  None           \* no aggregate

ASSUME MetricsBounds ==
  LastDay \in Nat \ {0} /\ MaxRows \in Nat /\ MaxFailures \in Nat

\* config.py bounds each setting alone: nothing compares them.
ASSUME SettingsAreDays == Lookback \in Nat \ {0} /\ Week \in Nat \ {0} /\ Retention \in Nat \ {0}

VARIABLES
  scope,      \* the statement followed, one of SCOPES
  today,
  raw,        \* rows of the raw tables
  daily,      \* rows of the metrics_*_daily tables, per day
  run,        \* flow runs: the row of metrics_rollup_runs and what the run has computed
  failures,
  written,    \* history: how many raw rows there have been
  ever,       \* history: the raw rows there were, in their last state, but those erased
  behind,     \* history: aggregates no run has brought up to date since their rows changed
  given_up    \* history: aggregates that were behind when they left the window

metricsVars == <<scope, today, raw, daily, run, failures, written, ever, behind, given_up>>

Days == 1..LastDay

States ==
  [decision |-> {"accepted", "rejected"}, job |-> {"queued", "sent", "failed"},
   activity |-> {"active"}, subscriber |-> {"active", "blocked"},
   digest |-> {"sent", "skipped"}, feedback |-> {"useful", "save"}]

Tables == DOMAIN States

RawRow == [id : 1..MaxRows, table : Tables, day : Days, who : Who,
           state : UNION {States[t] : t \in Tables}]

Count == 0..MaxRows

HarvestDaily == [fetched : Count, accepted : Count, rejected : Count]

SubscribersDaily == [registered : Count, total : Count, total_active : Count, dau : Count, wau : Count]

DeliveryDaily == [jobs_created : Count, jobs_sent : Count, jobs_failed : Count, recipients : Count]

EngagementDaily == [digests_sent : Count, empty_digests : Count, feedback_total : Count,
                    unique_reactors : Count]

\* NULL is no row.
ASSUME NoneIsNoAggregate ==
  None \notin HarvestDaily \union SubscribersDaily \union DeliveryDaily \union EngagementDaily

Aggregate == HarvestDaily \union SubscribersDaily \union DeliveryDaily
               \union EngagementDaily \union {None}

\* A row of metrics_rollup_runs and, between two statements, what its run holds.
RollupRun ==
  [at : {"waiting", "succeeded", "failed"}]
    \union [at : {"running"}, window : SUBSET Days, promised : SUBSET Days]
    \union [at : {"computed"}, values : [Days -> Aggregate],
             promised : SUBSET Days, fresh : SUBSET Days]

Scopes == {"harvest", "subscribers", "delivery", "engagement"}

\* The raw tables each statement reads.
Feeding == [harvest |-> {"decision"}, subscribers |-> {"subscriber", "activity"},
            delivery |-> {"job"}, engagement |-> {"digest", "feedback"}]

-----------------------------------------------------------------------------
(* The statements of rollups.py: what is written for a day *)

Of(rows, table, days) == {r \in rows : r.table = table /\ r.day \in days}

In(rows, state) == Cardinality({r \in rows : r.state = state})

Subscribers(rows) == Cardinality({r.who : r \in rows})

\* GROUP BY: a day without decisions writes nothing.
HarvestRollup(rows, d) ==
  LET decisions == Of(rows, "decision", {d})
  IN  IF decisions = {} THEN None
      ELSE [fetched |-> Cardinality(decisions), accepted |-> In(decisions, "accepted"),
            rejected |-> In(decisions, "rejected")]

\* A job belongs to the day it was created, whenever it is sent.
DeliveryRollup(rows, d) ==
  LET jobs == Of(rows, "job", {d})
  IN  IF jobs = {} THEN None
      ELSE [jobs_created |-> Cardinality(jobs), jobs_sent |-> In(jobs, "sent"),
            jobs_failed |-> In(jobs, "failed"), recipients |-> Subscribers(jobs)]

\* generate_series: every day is written, with zeros if nothing happened.
SubscribersRollup(rows, d) ==
  [registered   |-> Cardinality(Of(rows, "subscriber", {d})),
   total        |-> Cardinality(Of(rows, "subscriber", 1..d)),
   total_active |-> In(Of(rows, "subscriber", 1..d), "active"),
   dau          |-> Subscribers(Of(rows, "activity", {d})),
   wau          |-> Subscribers({r \in Of(rows, "activity", 1..d) : r.day + Week > d})]

EngagementRollup(rows, d) ==
  [digests_sent |-> In(Of(rows, "digest", {d}), "sent"),
   empty_digests |-> In(Of(rows, "digest", {d}), "skipped"),
   feedback_total |-> Cardinality(Of(rows, "feedback", {d})),
   unique_reactors |-> Subscribers(Of(rows, "feedback", {d}))]

Rollup(d, rows) ==
  CASE scope = "harvest" -> HarvestRollup(rows, d)
    [] scope = "subscribers" -> SubscribersRollup(rows, d)
    [] scope = "delivery" -> DeliveryRollup(rows, d)
    [] scope = "engagement" -> EngagementRollup(rows, d)

\* The days whose aggregate a row of this day is part of.
Fed(day) == IF scope = "subscribers" THEN day..LastDay ELSE {day}

-----------------------------------------------------------------------------

MetricsTypeOK ==
  /\ scope \in Scopes /\ today \in Days /\ failures \in 0..MaxFailures /\ written \in Count
  /\ raw \subseteq RawRow /\ ever \subseteq RawRow
  /\ daily \in [Days -> Aggregate]
  /\ run \in [Runs -> RollupRun]
  /\ behind \subseteq Days /\ given_up \subseteq Days

Waiting == [at |-> "waiting"]

MetricsInit ==
  /\ scope \in Scopes
  /\ today = 1
  /\ raw = {} /\ ever = {} /\ written = 0
  /\ daily = [d \in Days |-> None]
  /\ run = [r \in Runs |-> Waiting]
  /\ failures = 0
  /\ behind = Days /\ given_up = {}

InWindow(d, t) == d <= t /\ d + Lookback > t

\* Changed rows put their aggregates behind; those out of the window stay so.
Changed(days) ==
  /\ behind' = behind \union days
  /\ given_up' = given_up \union {d \in days : d <= today /\ ~InWindow(d, today)}
  /\ run' = [r \in Runs |-> IF run[r].at = "computed"
                            THEN [run[r] EXCEPT !.fresh = @ \ days] ELSE run[r]]

\* A subscriber is there once.  What it does is written while it is there.
MayWrite(table, who, state) ==
  /\ table \in Feeding[scope] /\ written < MaxRows
  /\ table = "job" => state = "queued"
  /\ table = "subscriber" => state = "active" /\ ~\E r \in Of(raw, "subscriber", Days) : r.who = who
  /\ table = "activity" => \E r \in Of(raw, "subscriber", Days) : r.who = who

\* Ingestion, dispatch, the bot and the delivery workers write a row.
Write(table, who, state) ==
  LET row == [id |-> written + 1, table |-> table, day |-> today, who |-> who, state |-> state]
  IN  /\ MayWrite(table, who, state)
      /\ raw' = raw \union {row} /\ ever' = ever \union {row} /\ written' = written + 1
      /\ Changed(Fed(today))
      /\ UNCHANGED <<scope, today, daily, failures>>

\* A job is sent, fails or is retried; a subscriber is blocked or returns.
ChangeState(row, state) ==
  LET changed == [row EXCEPT !.state = state]
  IN  /\ row \in raw /\ row.table \in {"job", "subscriber"}
      /\ state \in States[row.table] \ {row.state}
      /\ raw' = (raw \ {row}) \union {changed} /\ ever' = (ever \ {row}) \union {changed}
      /\ Changed(Fed(row.day))
      /\ UNCHANGED <<scope, today, daily, failures, written>>

\* Everything that names a subscriber; a decision names none.
Naming(who) == {r \in ever : r.who = who /\ r.table # "decision"}

\* delete_subscriber: the rows go with the subscriber (ON DELETE CASCADE), however new
\* they are.  They are not to be counted any more.
Forget(who) ==
  /\ Naming(who) # {}
  /\ raw' = raw \ Naming(who) /\ ever' = ever \ Naming(who)
  /\ Changed(UNION {Fed(r.day) : r \in Naming(who)})
  /\ UNCHANGED <<scope, today, daily, failures, written>>

\* RULES: what may be deleted, and from which age.  A job only when it is done with.
Expired(row) ==
  /\ row.table \in {"decision", "activity", "job"}
  /\ row.table = "job" => row.state \in {"sent", "failed"}
  /\ row.day + Retention < today

\* One batch of the purge.
Purge ==
  /\ \E batch \in SUBSET {r \in raw : Expired(r)} : batch # {} /\ raw' = raw \ batch
  /\ UNCHANGED <<scope, today, daily, run, failures, written, ever, behind, given_up>>

NextDay ==
  /\ today < LastDay
  /\ today' = today + 1
  /\ given_up' = given_up \union
                   {d \in behind : d <= today + 1 /\ ~InWindow(d, today + 1)}
  /\ UNCHANGED <<scope, raw, daily, run, failures, written, ever, behind>>

-----------------------------------------------------------------------------
(* metrics_rollup_flow *)

SlipOnlyToday(r) == {today}

\* The window of a run nobody gave days to.
ScheduledWindow(r) == {d \in Days : d + Lookback > today /\ d <= today}

\* The row "running" is committed before anything is computed.
Start(r, window, promised) ==
  /\ run[r].at = "waiting"
  /\ run' = [run EXCEPT ![r] = [at |-> "running", window |-> window, promised |-> promised]]
  /\ UNCHANGED <<scope, today, raw, daily, failures, written, ever, behind, given_up>>

StartScheduled(r) == Start(r, ScheduledWindow(r), {d \in Days : InWindow(d, today)})

\* An administrator gives the days.
StartManual(r) ==
  \E first \in 1..today, last \in 1..today :
    first <= last /\ Start(r, first..last, first..last)

\* Aggregates the purge may have taken rows of: recomputing them is not safe.
Depleted(d) ==
  /\ scope # "engagement"
  /\ \E e \in 1..d : e + Retention < today /\ (e = d \/ (scope = "subscribers" /\ e + Week > d))

\* The statements read the raw tables; "fresh" is history: the aggregates that are exact
\* if nothing changes until they are written.
Compute(r) ==
  /\ run[r].at = "running"
  /\ run' = [run EXCEPT ![r] = [at |-> "computed",
               values |-> [d \in Days |-> IF d \in run[r].window THEN Rollup(d, raw) ELSE None],
               promised |-> run[r].promised,
               fresh |-> {d \in run[r].promised : ~Depleted(d)}]]
  /\ UNCHANGED <<scope, today, raw, daily, failures, written, ever, behind, given_up>>

\* ON CONFLICT DO UPDATE; a day without a group is left as it was.
Written(values) ==
  [d \in Days |-> IF values[d] # None THEN values[d] ELSE daily[d]]

\* History: the days a run brings up to date.  The old number of a day all of whose rows
\* were erased stays.
Renewed(r) == {d \in run[r].fresh : run[r].values[d] # None \/ daily[d] = None}

Commit(r) ==
  LET stale == run[r].promised \ Renewed(r)
  IN  /\ run[r].at = "computed"
      /\ daily' = Written(run[r].values)
      /\ behind' = (behind \ Renewed(r)) \union stale
      /\ given_up' = (given_up \ Renewed(r)) \union {d \in stale : ~InWindow(d, today)}
      /\ run' = [run EXCEPT ![r] = [at |-> "succeeded"]]
      /\ UNCHANGED <<scope, today, raw, failures, written, ever>>

\* A statement fails: nothing of the transaction stays, its row is told so in another one.
Fail(r) ==
  /\ run[r].at \in {"running", "computed"} /\ failures < MaxFailures
  /\ run' = [run EXCEPT ![r] = [at |-> "failed"]]
  /\ failures' = failures + 1
  /\ UNCHANGED <<scope, today, raw, daily, written, ever, behind, given_up>>

MetricsNext ==
  \/ NextDay \/ Purge
  \/ \E t \in Tables, w \in Who : \E s \in States[t] : Write(t, w, s)
  \/ \E row \in raw : \E s \in States[row.table] : ChangeState(row, s)
  \/ \E w \in Who : Forget(w)
  \/ \E r \in Runs : StartScheduled(r) \/ StartManual(r) \/ Compute(r) \/ Commit(r) \/ Fail(r)

MetricsSpec == MetricsInit /\ [][MetricsNext]_metricsVars

-----------------------------------------------------------------------------
(* Properties *)

\* A day that has left the window of the scheduled rollup keeps its true numbers, those
\* of the raw rows there were, also after the purge has taken the rows.  There are five
\* ways to lose it ("given_up"): a row changed after the last run that saw the day; a
\* slower run wrote over a newer one; a run recomputed the day from what the purge had
\* left; an administrator erased a subscriber the day had counted, and no run has read the
\* day since; or the day has no rows any more and its old number stays, for the
\* statement that groups does not write it.
ClosedDaysAreExact ==
  \A d \in 1..today \ given_up :
    ~InWindow(d, today) => daily[d] = Rollup(d, ever)

=============================================================================
