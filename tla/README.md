# Verification of GeoNexa Proxima

TLA+ models of the parts of GeoNexa Proxima (`src/src/geonexa_proxima/`) whose
correctness depends on the order in which independent processes touch the same
rows, the TLC configurations that check them on small instances, and TLAPS
proofs of the safety properties for every instance. Paths below are relative to
`src/src/geonexa_proxima/` unless they begin with `src/`.

    tlc -config DeliveryQueueFaults.cfg MCDeliveryQueue
    tlapm DeliveryQueueProofs.tla

## 1. The system

A scientific news service. A nightly flow **harvests** publications from four
sources into PostgreSQL and ranks them once for everybody; **dispatchers** build
a personal digest for each subscriber profile that is due; the digest becomes a
job of the **delivery queue**; delivery **workers** send it to Telegram block by
block. A bot and an admin panel edit subscribers, subscriptions, profiles and
chats. Flows are run by Prefect, each in its own process; all shared state is in
PostgreSQL tables.

| component | state | operations | talks to |
| --- | --- | --- | --- |
| delivery queue, `services/delivery.py` | `delivery_jobs` (status, attempts, claimed_by/at, scheduled_at, next_retry_at), `delivery_messages` (the journal), `digests.status`, `subscriber_activity` | enqueue, claim, mark_sending, mark_sent, mark_failed, sent_positions, log_message, release_stale, expire_old | called by dispatch, workers, maintenance, admin |
| delivery workers and maintenance, `workflows/delivery.py` | the memory of a run: its batch, snapshots of its jobs, position in the digest | one run per channel: release stale, claim a batch, send each job; maintenance: expire, release, purge | queue, Telegram Bot API |
| admin: deliveries, `api/admin/routers/deliveries.py` | - | retry, cancel | queue tables, directly |
| digest dispatch, `workflows/dispatch.py`, `services/dispatch_queries.py` | `subscriber_profiles.last_digest_at / next_digest_at`, `digests`, `digest_items`; memory of each subscriber flow | select due profiles, build, post, mark, schedule next | reads the corpus, writes the queue |
| personalization, `services/personalization.py`, `facets.py` | reads only | candidates of a profile in a window, thresholds, quotas | dispatch |
| global harvest, `workflows/harvest.py`, `services/harvest_window.py` | `harvest_runs` (one running row, heartbeat, since/until) | reclaim, plan, open, ingest a day, heartbeat, close; abort by an admin | ingestion; the covered boundary is read by the next run |
| ingestion, `services/ingestion.py`, `cursors.py`, `decisions.py` | `source_cursors`, `harvest_decisions`; scores, vectors and ranks; memory of a run | collect, gate, save, embed, score, rank; advance cursors; flush the journal | collectors, models, the corpus |
| corpus, `db/repository.py` | `items`, `item_sources`, `item_authors`, topics; advisory locks | save one record: find its row by four identities, or make one, and enrich it | ingestion, CLI |
| subscribers and chats, `db/subscriber_repository.py`, `workflows/chats.py`, `telegram/chats.py`, `telegram/middleware.py`, admin routers | `subscribers`, `chat_memberships`, `digest_enabled` | membership updates, the monitor, commands, approve, reject, ban, patch, leave, forget | make chats eligible for dispatch |
| subscriptions, `db/subscriber_repository.py`, `api/admin/routers/subscriptions.py` | `subscriptions` with periods and grace | grant, trial, extend, cancel, expire | make subscribers eligible for dispatch |
| profiles and feedback, `services/profiles.py`, `feedback.py`, `db/user_repository.py` | `subscriber_profiles` with text and version, interests, signals, scores | create, activate, delete, edit, compile, react, score | bot, panel; dispatch reads the active profile |
| schedules, `services/prefect_admin.py`, `workflows/deployments.py`, `api/admin/routers/schedules.py` | `schedules` with `sync_pending`, Prefect's deployments, `flow_runs` | edit, toggle, resync, register, run by hand | the HTTP API of Prefect |
| metrics and purge, `metrics/rollups.py`, `purge.py`, `workflows/metrics.py` | `metrics_*_daily`, `metrics_rollup_runs`, the raw tables | recompute a window of days, purge by age | reads what everybody writes |
| start-up, `bootstrap/`, `src/migrations/` | the schema and its revision, the seeded rows, an advisory lock | wait, lock, migrate, seed, report; alembic by hand | every service; the panel edits what was seeded |
| bot dialogues, collectors, gates, models, read-only screens | see `PROJECT.json` | | |

What is hard here is almost always the same thing: a flow reads something, works
for minutes, and writes; in between another flow, a worker, cron or an
administrator has acted on the same row. Rows are taken with a lease
(`claimed_by` + a stale threshold; a `running` row + a heartbeat), processes die
between any two statements, the Bot API may have delivered a message whose
answer was lost, and there is no distributed transaction between Telegram and
the database. `PROJECT.json` lists each hazard at the line where it bites, with
the property that covers it or the reason why none does yet.

What would make each component correct:

- *queue and workers*: one worker at a time on a job; a digest marked sent is in
  the chat in full; nothing from the journal is sent again; attempts stay under
  the limit; every job is settled in the end; a settled job stays settled;
- *dispatch*: nobody gets the same item twice, nor more often than the plan
  allows; `digests.status` tells what happened; only eligible profiles are served;
- *harvest*: one run at a time; the covered boundary is truthful; a day is
  collected only when it is over; dead runs do not block the schedule;
- *ingestion*: cursors only grow and what they leave behind has a cause, one publication is one
  item, a rank can be relied on, no decision is lost unseen;
- *subscribers*: what an administrator decided stands, and the rows converge on
  what Telegram says;
- *subscriptions*: time that was granted is served, a trial is given once, what
  is over expires;
- *profiles*: one active profile, a text that says what its rows say, a version
  that names one text;
- *schedules*: a row without the mark is what Prefect runs, and an edit changes what it
  names and nothing else;
- *metrics*: a closed day keeps its true numbers although the raw rows go;
- *start-up*: every revision can be applied to whatever rows there are, a start
  is ready only on its own schema, and an administrator's settings survive it.

## 2. The modules

| module | what it is |
| --- | --- |
| `DeliveryQueue` | the queue, its workers, maintenance and the admin's two operations |
| `DeliveryPromise` | abstract specification: what the queue promises to those outside |
| `Dispatch` | dispatcher and subscriber flows, the corpus and the queue seen from them |
| `HarvestRuns` | runs of the global harvest and the covered boundary |
| `Ingestion` | the pipeline of a run: cursors, gate, items, vectors, ranks, journal |
| `Corpus` | the transaction that saves one record, with its locks |
| `Subscribers` | who may be written to: rows, Telegram, monitor, panel |
| `Subscriptions` | the periods of one subscriber |
| `Profiles` | the profiles of one subscriber, their text, versions and signals |
| `Schedules` | the table of schedules and Prefect's deployments |
| `Metrics` | daily aggregates and the purge of what they were made from |
| `Ddl` | statements of a migration and what PostgreSQL does with them |
| `Revisions` | the nine revisions as such statements, up and down |
| `DeclaredModels` | the tables the ORM declares |
| `Registry` | the seeded rows, and who changes them |
| `Bootstrap` | the start of a process; composes the four modules above |
| `DeliveryQueueProofs`, `DispatchProofs`, `HarvestRunsProofs`, `CorpusProofs`, `IngestionProofs`, `ProfilesProofs` | theorems about the module of that name |
| `EligibilityProofs` | theorems about `Subscribers` and `Subscriptions`, who may be written to |
| `OperationsProofs` | theorems about `Metrics` and `Schedules`, and about the seeded rows of `Registry` |
| `MC*` | small instances for TLC and their symmetry |

How they fit together: `Dispatch` composes with the queue through
`DeliveryPromise`: the moves of `job` in `Dispatch` (`PostJob`, `JobDelivered`,
`JobGivenUpOrReopened`) are steps of the abstract specification
(`JobsMoveAsPromised`), and the undisturbed queue implements it (`KeepsPromise`).
Both are proved (`QueueIsUsedAsPromised`, `QueueKeepsPromise`);
`queue_lanes` checks the queue's side on a small instance too. `Ingestion` takes from
`Corpus` that a record resolves to one item and is saved or refused as a whole;
`HarvestRuns` starts `Ingestion` once a day. `eligible` of `Dispatch` stands for
what `Subscribers` and `Subscriptions` decide. `Schedules` and `Bootstrap` share
the table `schedules`: `Migrate` in the one is revision 0008 in the other.
`Bootstrap` EXTENDS `DeclaredModels`, `Revisions` (over `Ddl`) and `Registry`.

Modules with theorems contain no recursive operators; `Ddl` and `Bootstrap` have
one each and are only model-checked. What a start does to the seeded rows is a function
of `Registry`, which has none, and theorems are about that function
(`OperationsProofs`). Two systems proved about in one module are extended by it both, so
`Subscriptions` and `Metrics` name their state and their specification after themselves
(`PeriodsSpec`, `MetricsSpec`); nothing is shared between the two of a pair.

Most model modules have a short section of *slips*: plausible mistakes in one of
their definitions (a dropped condition, an off-by-one, the wrong column). No
action uses them. Substituted for the definition they imitate, each breaks the
property named beside it in `PROJECT.json` ("mutants"), which shows that the
property is about the code and not about the shape of the model.

### 2.1 DeliveryQueue

One action per SQL statement or Bot API call; everything else in the process
happens between two of them and is invisible to others.

- `StartRun`, `Claim`, `EndRun` are `_run_channel`; `StartJob`, `LoseJob`,
  `Resume`, `SendBlock`, `SendRaises`, `LogSent`, `SkipBlock`, `MarkSent`,
  `MarkFailed` are `_send_job`. `Workers` are slots: a slot whose run ended or
  died is used by the next run, which is a new `claimed_by`; the model may give
  the new run the old name because a dead run has no memory left (`Held`) and a
  run that ends has been through its whole batch.
- The clock is abstracted to the three answers asked of it: `due`
  (scheduled_at, next_retry_at), `stale` (claimed_at), `old` (created_at). Each
  may turn true at any moment in a status where a statement asks. Writing
  `claimed_at` resets `stale`. A *live* run's claim goes stale only with the fault
  `"slow"`.
- `mark_failed` is modelled with its real guard, `WHERE id`: it may requeue or
  revive a job that meanwhile belongs to someone else or is cancelled.
  `mark_sent` compares the owner only.
- The snapshot taken at claim (`job.attempts`) decides whether the journal is
  read: `retried`.
- `SendRaises` has three outcomes: a retriable error, a permanent one
  (`is_permanent`), and a message that arrived although its answer was lost.
- `Crash` is the death of the process, and also an exception in a statement
  outside the `try` (claim, mark_sending, sent_positions, and mark_failed itself).
- `ReleaseStale` and `ExpireOld` are the two statements of maintenance; they
  are separate transactions. The purge that follows them deletes rows nobody
  claims any more and is not in the model.
- `reached` counts what is in the chat, `received` the activity events: 0, 1,
  or "2 and more" is all the properties tell apart.

### 2.2 Dispatch

- A moment of time is the set of items created before it: the window test
  `created_at >= since` distinguishes nothing else, so `last_digest_at` is the set
  `before[p]` and `period_start = max(now - lookback, last_digest_at)` is a union
  of the items excluded (`Outside`). Ageing items are those that fall out of the
  lookback.
- `rank` is abstracted to "some subset of the ranked candidates in the window,
  at most `MaxItems`": thresholds, facets and quotas can drop any candidate.
- The flow is statement by statement: select, context, candidates, digest row,
  job, status, dates. It may die anywhere (`FlowDies`); `cut` remembers the
  digests whose flow died after posting and before moving the date.
- `"overlap"` allows two dispatcher runs to select the same profile.
  `src/docs/architecture.md:165-166` gives the dispatchers parallelism 1, but the
  deployments set no concurrency limit; the passing run and the proof assume
  no overlap and say so in the property (`"overlap" \notin Faults =>`).
- `eligible` stands for all of `DUE_PROFILES` but the date.
- The plan's interval and the wish of the profile are read anew in each round, from
  `Plans` and `Wishes`. `waiting` is history: a round was closed under a plan that
  keeps digests further apart than the grace, and no time has passed since.

### 2.3 HarvestRuns

- Days are numbers; the boundary is the first day not covered. `running` is the
  one row the partial unique index allows, named by its flow or `Orphan` when the
  flow has died; closed rows matter only through `covered = max(until)`.
- All ways to plan are there: catch-up with its horizon, nothing new (a manual
  run repeats yesterday), given dates or the last N days (`PlanDates`, cut at
  yesterday), the open window with no `until`. A range that is too long
  (`MAX_MANUAL_DAYS`) is refused before anything changes and is left out.
  The horizon is one constant; a run's own `max_catchup_days` is not varied.
- `heartbeat` and `close_run` have no guard on the status, so a run that lost
  its row to reclaiming or to the abort button still closes it as succeeded.
- `quiet`: the heartbeat is older than the threshold. For a live run this takes a
  day of harvesting longer than the threshold, or failing heartbeats, and counts
  as an *eviction*, like aborting a live run.
- `asked`: a source that fails leaves a hole that is reported and closed over on
  purpose (`workflows/harvest.py:327-337`), so the day counts as asked for.
- History: `forgone`, days a plan names as lost beyond the horizon; `jumped`,
  days a plan for given dates passes over.

### 2.4 Ingestion

- One action per step that leaves a trace: `Plan`, `Poll` (with the cursor it
  moves), `Reject`, `Save`, `Embed`, `Score`, `Match`, `Rank`, `Close`. Runs
  overlap freely; a slot is reused when its run is closed.
- Time is in days. A record has a date and a day from which its source shows it:
  later (indexed late) or earlier (an issue to come). A source answers with the
  newest records up to its page limit.
- The order in which a run takes the records it holds in memory is seen by
  nobody, so `Reject` and `Match` take the first; `Save` keeps all orders because
  the next record may represent the item instead.
- The gate, the similarity and the length of a text are fields of a record.
- The buffer of decisions is swapped out before the INSERT: `Record` has the flush
  that fails and takes the run with it. `lost` and `stuck` are history: verdicts and
  ranks a failure has left behind; `dropped`: records cut off by the page limit or
  given up with a failure.
- `passed` is history too: records in the gap (`Gap`) between the cursor, less the
  overlap, and a window that starts after it, once the cursor has moved over it. An
  open window that joins up with its cursor leaves none. One that does not is the first
  of a source, one longer than `MAX_CATCHUP` after the last, one planned while the
  cursor could not be read, or a closed day - and the scheduled runs poll nothing but
  closed days. So a day a source failed on is passed by the poll of the next day: see 7
  in section 5.

### 2.5 Corpus

- The transaction of `save_collected`, lock by lock. Its SELECTs are one step:
  everything they ask for is locked. Authors and topics are locked one by one in
  the order of the record, and the links wait for each other on
  `(item_id, position)`; PostgreSQL's detector aborts one of a cycle.
- The session does not autoflush: an existing row is written at the end, only in
  the columns that changed in memory (`seen`, `new`, `Written`).
- Source keys, titles, DOIs, arXiv ids, authors and topics are numbers, compared
  after normalisation. The rest of an item is left out.

### 2.6 Subscribers

- `truth` is Telegram; `sub`, `bot` are the tables. Everything on its way between
  two transactions is a set: updates not handled yet, updates whose chat has been
  looked up, the monitor's round, answers of Telegram not written yet, requests
  of the panel between two of their transactions, commands the middleware has
  let through. So they meet in any order; an update may be lost.
- `Approve` and `Patch` are one transaction and a second one on `desk`, which may
  be abandoned. `Leave` asks Telegram first, then writes.
- `Moderate` has the read that fails, which lets the command through.
- `verdict`, `gone` and `excuse` are history: the last decision of an administrator,
  whether the chat was written as absent since, why a digest flag is off.
- A round of the monitor is the newest `MonitorLimit` chats; `older` keeps the order in
  which the rows were made. A status of the bot is present, restricted (neither in
  `PRESENT_BOT_STATUSES` nor in `ABSENT_BOT_STATUSES`) or absent; the right to post is
  told of channels only.
- `Managed` bounds whom administrators decide about; `MaxMishaps` counts commands to the
  bot as well.

### 2.7 Subscriptions

- The rows of one subscriber; a grant locks the subscriber, so rows of different
  ones never meet. The exclusion constraint (`Fits`) and the CHECK on a row
  (`Sound`) are guards: what they refuse is rolled back and changes nothing.
- Current, due and over are translated separately from the queries that ask
  them; that they agree is part of the properties.
- `start_trial` is three transactions of an approval, and two approvals may be
  under way.

### 2.8 Profiles

- A handler (`ed`) is a request or an update at work on one profile: the change, then
  `Load`, `ReadInterests`, `ReadLearned`, `Write`, each a transaction. It may die
  between them. Create, activate and
  delete are one transaction each, under a lock of the subscriber.
- A text is the record of what it is made from. `English` is the translation, kept while
  the description is the same, and free to fail.
- `disturbed` is history: others were at work on the profile, or a handler died. `told`
  counts the reactions that were written, and those written over signals they had not seen.

### 2.9 Schedules

- Every read, commit and request is an action: the row an edit starts from
  (`seen`), the parameters committed first, the schedule, the deployment looked
  for, the parameters read again, the PATCH, the mark cleared. Prefect may refuse,
  not answer, or apply a PATCH whose answer is lost.
- A time is a cron with its zone or an interval; which one it is makes no difference.
- Assumed of Prefect: a deployment without a schedule is never started by itself;
  a request that has timed out is not applied later; a stored id stays valid.
- `raced` is history: keys on which jobs have overlapped since the last lone push.

### 2.10 Metrics

- The four statements of `rollups.py` share no table and no aggregate, so a
  behaviour follows one of them (`scope`). Of their columns those are kept that
  count in different ways: rows, rows in a state, distinct people, a running
  total, a window of days.
- A run commits its row, computes, writes; two runs may overlap. The purge
  deletes any batch of what has expired. An administrator erases a subscriber
  (`Forget`), and by cascade all that names it, however new.
- `ever` is history: the raw rows there were, purged ones included, erased ones not, as
  they are not to be counted any more.
- `behind` and `given_up` are history: aggregates no run has brought up to date
  since their rows changed, and those that were behind when they left the window. A
  day comes to that in five ways: its rows changed after the last run that saw it; a
  slower run wrote over a newer one; a run recomputed it from what the purge had left;
  a subscriber it had counted was erased and no run has read the day since; or all its
  rows were erased, and the statement that groups leaves the old number (`Renewed`).

### 2.11 Ddl, Revisions, DeclaredModels

- `Ddl` keeps of a table its foreign keys with what deleting the parent does, its
  unique keys, the columns later revisions touch, and the CHECKs some revision
  rebuilds over existing rows, under the names PostgreSQL gives them - the
  convention of `db/base.py` doubles some, and a later revision undoubles them. A
  statement that is illegal in the database it meets fails its transaction. `Guard` is
  the Python of 0005 that raises when the settings ask for vectors the database cannot
  have: an index too small for their dimensions, or `halfvec` (`db.halfvec`) before
  version 0.7 of the extension.
- Columns a table is created with and keeps, types, defaults and plain indexes are
  left out; of rows there are only the values in the rebuilt columns.
- `Revisions` has the statements of the nine `upgrade` and `downgrade` functions in
  their order, `DeclaredModels` what `db/models.py` declares, read on its own.

### 2.12 Registry and Bootstrap

- `Registry` has the rows of `seed_all` and every way to change them: the seed, the
  resync from `config/harvest.yaml`, the panel, revision 0008. One model role
  stands for eight, one setting for those of `SETTINGS_IN_DB`, two schedules for
  nine. "mine" is a value only an administrator writes; a schedule's switch has two values, so
  `byHand` (history) says whose the present one is. `Mine` collects what is his,
  `Overruled` the switches that revision 0008 sets over his.
- `Bootstrap` has processes that start from images of different age and settings
  (`env.file`: the harvest file is there; `env.vectors`: what 0005 asks for): with
  the lock (the API) or without (`cli db upgrade`), allowed to migrate or not; an
  operator who runs alembic; a database that goes away. Waiting for the lock may
  run into the statement timeout.
- A seed is one transaction; `DB_AUTO_SEED` is on; an older image seeds with the same
  code.

## 3. Runs

| run | instance | what it shows |
| --- | --- | --- |
| `queue_faults` | 1 job of 2 blocks, 2 workers, 2 attempts, every fault, 1 crash, 1 manual retry; worker symmetry | with no condition at all: the attempt limit (`AttemptsBounded`), sent means complete (`SentIsComplete`), a settled job moves only by a retry or a worker that still had it (`FinalLeftWithCause`) |
| `queue_lanes` | 2 jobs, 2 competing group workers (scheduled), 1 personal worker run by hand in rehearsal mode; lost replies, database errors, 1 crash | while runs finish in time and nobody retries by hand: exclusive holding (`ExclusiveSending`), one event per delivery (`SentOnce`), no repeats from the journal (`LoggedBlockNotResent`), the refinement (`KeepsPromise`), and every job of the scheduled lane settles (`FairLaneSettles`) |
| `dispatch` | 1 profile, 2 items, 3 digests, 2 flows, plans of 1 and 2 hours, wishes of 0 to 2, a grace of 90 minutes, flows may die | no repeats without a cause (`RepeatsHaveCause`), what the status tells (`StatusTellsJob`), no second digest of one interval where the plan is longer than the grace (`OneDigestPerInterval`) |
| `harvest` | 1 scheduled and 1 manual slot, 5 days, horizon of 2, 1 manual run, 2 failures, 1 eviction | the boundary is honest (`BoundaryIsHonest`), one harvest at a time (`OneHarvest`), the schedule reaches the present (`CatchesUp`) |
| `ingestion` | 2 runs, 2 windows, 2 sources, 4 records (late, ahead of time, of one item), page limit and batch of 2, 4 days, 1 failure | cursors only grow and stay in the present (`CursorNeverFalls`), a record shown in time is handled or left behind for one of three causes (`NoSilentGap`), the journal knows every verdict (`JournalComplete`), a rank and its absence can be relied on (`RankIsHonest`) |
| `corpus` | 2 savers of 2 saves, 4 records (three of one paper, two of which share no lock), 1 error | unique indexes never fire (`UniqueKeys`), sorted identities do not deadlock (`IdentitiesNeverDeadlock`), a row only gains (`RowsOnlyGain`) |
| `subscribers` | 1 channel, 1 group, 1 person, a monitor of 1 chat, 2 turns in Telegram, 1 mishap, 2 acts of administrators on the group and the person | a decision stands (`DecisionHolds`), a silent chat has a reason (`SilenceHasCause`), the rows of the chats that stay among the newest converge (`RowsConverge`) |
| `subscriptions` | 2 rows, 2 administrators, periods of 1 and 2 days, trial and grace of 1, 4 days, 2 changes | granted time is served but for four causes (`GrantedTimeIsServed`), one trial (`OneTrial`), what is over settles (`EndedSettles`) |
| `profiles` | 2 names, 2 handlers, 1 topic, 1 category, weights up to 3, 2 edits, 3 acts of life, 1 mishap; handler symmetry | one active (`OneActive`), a version names a text (`VersionNamesText`), the text is current (`TextIsCurrent`), reactions add up (`ReactionsCount`) |
| `schedules` | 1 key, 2 actors, 3 jobs, 1 mishap | an unmarked row is at every moment what Prefect runs (`UnmarkedIsInPrefect`), time, switch and parameters change only by an edit that names them (`OnlyNamedFieldsChange`), requests end (`JobsEnd`) |
| `metrics` | each of 4 statements, 2 runs, 2 subscribers, 4 days, 2 rows, lookback 2, retention 2, "week" of 2, 1 failed run; symmetry of runs and of subscribers | closed days have the numbers of all rows there were and nobody erased, or a cause (`ClosedDaysAreExact`) |
| `bootstrap` | 2 processes, 5 images, 5 scenarios (all revisions by hand over any row; an empty database with an old and with a new extension; an upgrade from 0007; restarts with an outage) | the tables depend on the revision alone and are those of the ORM (`TablesFollowRevision`), only 0005 and the rollback of 0003 can be refused, for their causes (`MigrationsRefusedWithCause`), an outcome has its cause (`OutcomeHasCause`), an administrator's work is kept but for the switches 0008 overrules (`AdminsWorkIsKept`), starts end (`StartsEnd`) |

The largest are `metrics` (4.5 million states), `subscribers` (2.1 million),
`subscriptions` (850,000) and `bootstrap` (260,000 states, each a whole schema);
none takes more than three minutes on two workers.

### Bounds

- Two blocks make "some but not all of the digest is out" possible; `queue_lanes`
  needs only one, because what is new in it is the second job and the lanes.
- Two attempts: a first one, whose journal is written, and the last one, after
  which a release leaves a job no claim takes (it ends by expiry).
- Two workers in a lane race for a job; a third cannot meet a state of the row
  the second has not met. `BatchSize` 1 lets a job wait for the next run, 2 lets
  one job wait in the memory of a run while the other is sent.
- One crash and one manual retry, each at any moment, are enough for every
  counterexample we know; the proofs have no bound.
- Three digests are two full rounds and the repeat that would follow a mistake;
  when they are used up a flow waits at `CreateDigest`. Two items: one before and
  one after a moment.
- Five days with a horizon of two: a missed stretch longer than the horizon and a
  day after it. Two failures: a run that dies and its successor that fails.
- `ingestion`: a record indexed late, one announced ahead of time, two of one item
  of which the longer comes second; two windows make an older result finish after a newer
  one; one failure of any kind at any moment.
- `corpus`: two savers can deadlock on authors, on topics and across the two, and
  two records that share a row and no lock can overwrite each other. Three savers
  add no new way for two of them to meet; `UniqueKeys` is proved for any number.
- `subscribers`: in and out again is two turns; an update that is late, lost or handled
  beside the monitor needs one mishap; a decision and its reversal are two acts. Rows of
  different subscribers share nothing but the monitor's round, so one of each kind will
  do; a limit of 1 with two chats leaves one of them out of it. Administrators act on the
  group, which is then forgotten and made again, and on the person; what they may do to
  the channel is what they may do to the group, and the proofs are about all.
- `dispatch`: with a grace of 90 minutes, a plan of one hour is due again at once and one
  of two is not; wishes are absent, shorter and longer.
- `subscriptions`: a row and the one that replaces it; four days hold a period of two,
  its grace and the day after.
- `profiles`: two edits overlap in every order; the third act of life deletes one of two
  profiles; a weight of 3 is reached by reactions of the larger step.
- `schedules`: two jobs that overlap and one alone afterwards. A second key would only
  lengthen the round of a resync or a deployment (`MCTwoKeys` is there to try).
- `metrics`: with a lookback of 2 and 4 days two days get out of the window and old enough
  for the purge; two subscribers, so that one is erased and the other still counted.
- `bootstrap`: eleven moves lead from the head to the bottom and back to any
  revision; images at two heads, of three environments - of which one has no harvest file
  and asks for `halfvec`, one asks for an index too small; the first scenario has one set
  of rows at a time, since each CHECK is over one table.
- Deadlock is checked in the queue, dispatch and harvest. The other systems may
  really stop: when nobody edits, writes or fails any more nothing is left to do.
- Symmetry is used only without liveness.

### Fairness

`FairSpec` of the queue: cron starts both group and personal flows every five
minutes (`config.py:196-201`) and maintenance at 04:30, for ever, so a healthy
worker's next step, `ExpireOld` and `ReleaseStale` are weakly fair, and clocks
advance. Only lanes in `FairLanes` get this: the personal schedule is disabled
when the system is installed (`bootstrap/seed.py:372-375`), and `queue_lanes`
shows that the other lane does not depend on it. Crashes, database errors,
cancelling and retrying are never forced to happen.

`FairSpec` of the harvest: the nightly cron starts the scheduled slot again and
again, a run that neither raises nor dies goes on, days pass, and the heartbeat
of a dead run gets old. Nothing is owed by manual runs or the abort button;
`CatchesUp` holds because failures, evictions and manual runs are finitely many
in the model - it says what happens once they stop.

Elsewhere: the chat monitor comes round by its schedule and finishes its rounds
(`Subscribers`: `WF(Monitor)`); the maintenance expires subscriptions by its schedule
(`WF(ExpireDue)`); an HTTP request of the panel goes on, because each of its awaits
has a timeout (`Schedules`: `WF(Step(a))`); a starting process goes on for the same
reason (`Bootstrap`: `WF(Proceed(p))`). Nothing obliges updates of Telegram, requests of
administrators, rows, days, crashes or the return of a database to happen.

`Dispatch`, `Ingestion`, `Corpus`, `Profiles` and `Metrics` state no liveness:
nothing in their code waits for another but on locks that a timeout or the
deadlock detector ends.

## 4. Proofs

All theorems hold for every value of the constants that satisfies the named
assumption of the module:

| assumption | what it asks |
| --- | --- |
| `ConstantsAssumption` | at least one block, attempt and place in a batch; workers and jobs are not the null values |
| `DispatchAssumption`, `HarvestAssumption` | a digest holds at least one item, intervals of plans and horizons are at least an hour and a day, wishes are numbers; manual slots are flows |
| `RecordsAssumption` | keys of a record are numbers and no null value; there is a saver |
| `IngestionAssumption` | records have a source and dates of their own, and a gate result; limits are numbers |
| `SubscribersAssumption` | a chat is no person, channels are chats; the monitor gets to at least one chat; bounds are numbers |
| `SubscriptionsAssumption` | trial and grace are numbers of days, a granted length is at least one |
| `ProfilesAssumption` | the default profile has a name, no text is the null text, weights have a positive limit |
| `MetricsBounds`, `NoneIsNoAggregate` | there is a day, bounds are numbers; no aggregate is the null value |
| `SettingsAreDays` | lookback, retention and the week are at least a day, as `config.py` asks of each alone |
| `RetentionOutlastsLookback` (hypothesis of `ScheduledRunsReadAll` alone) | raw rows are kept longer than the schedule recomputes and than the longest count of active people reaches back, as the defaults of `config.py` are; without it the purge takes what the rollup is still to count |
| `NamesAreDistinct`, `CatalogueIsDefault`, `UpdatesAreUpdates`, `BoundsAreNatural` | "keep", "nothing" and "off" are no values; every flow has a cron and parameters in code; updates are updates; bounds are numbers |
| `Words \subseteq Texts` (hypothesis of the theorems on `Registry`) | the texts of rows and environments include the words the model uses; any set that has them will do |

Nothing is assumed of the sizes of these sets: any number of workers, flows, savers,
runs, editors, jobs and records.

| theorem | property | argument |
| --- | --- | --- |
| `DeliveryQueueProofs!TypeCorrect` | `TypeOK` | inductive with `pc` and `cur` in step |
| `AttemptsStayBounded` | `AttemptsBounded` | `AttemptsInv`: the limit itself is not inductive, as mark_sending adds one without looking. A row outside a claim has no owner; a claimed row waiting in its owner's batch is below the limit; a job is started once per claim |
| `SendingIsExclusive` | `ExclusiveSending` | `LeaseInv`, with no slow runs and no manual retries: what a live run holds is in a claim of its own or already final, never requeued, and a held claim is never stale |
| `SentIsAlwaysComplete` | `SentIsComplete` | `JournalInv`, with any faults: blocks not in the journal are still in `todo` of whoever sends the job and does not rehearse, and a block is journalled only after it appeared |
| `LoggedIsNotResent` | `LoggedBlockNotResent` | `ResumeInv`, undisturbed: a job with anything in the journal has attempts > 0 in the snapshot of whoever claims it, so `todo` never meets the journal |
| `FinishedStaysFinished` | `FinalLeftWithCause` | an action property, with any faults: `JobMoves` says of every step what it can do to one job, and the worker that moves a finished job is the one still at it |
| `JobsAreSentOnce` | `SentOnce` | `SentInv`, undisturbed, on `LeaseInv`: what a run holds is posted and not sent, so a run that closes a job is the first and the only one |
| `QueueKeepsPromise` | `KeepsPromise` | refinement, undisturbed: initial states map, and each outcome of `JobMoves` is a step of `DeliveryPromise` or a stutter; it rests on `JournalInv` (nothing is closed as sent before it was shown), `SentInv` (nothing sent comes back) and `LaneInv` (a run holds jobs of its lane, so only rehearsals close without showing) |
| `DispatchProofs!TypeCorrect` | `TypeOK` | inductive |
| `RepeatsAlwaysHaveCause` | `RepeatsHaveCause` | `RepeatInv` with one dispatcher at a time: a profile has one flow, the flow's candidates lie outside `before`, and everything posted lies within `before` unless its flow is still on the way or was cut off |
| `StatusIsHonest` | `StatusTellsJob` | `StatusInv`, overlapping dispatchers included: a flow knows its digest alone (`OwnDigest`), and what it has not posted is in no queue and not closed (`FreshDigest`) |
| `DigestsKeepTheInterval` | `OneDigestPerInterval` | an action property from the invariant that a profile which is `waiting` is neither due nor in the hands of a flow: a round closed under such a plan moves the date ahead (the interval in force is the plan's or longer), and with one dispatcher at a time no flow selected before is left |
| `QueueIsUsedAsPromised` | `JobsMoveAsPromised` | refinement: every step of the dispatcher posts a fresh job, moves one as the promise allows, or leaves all of them alone; `PostedOnce` needs `StatusInv` |
| `HarvestRunsProofs!TypeCorrect` | `TypeOK` | not inductive alone: needs `Walking`, that the day in hand is inside the window |
| `BoundaryIsAlwaysHonest` | `BoundaryIsHonest` | `IInv` with `Settled`: every day before the one a run has come to is accounted for. A plan begins at the boundary, or names what it leaves out; a run moves the boundary only past days it walked through - so overlapping and evicted runs do no harm |
| `DaysAreFinished` | `OnlyFinishedDays` | the same invariant |
| `OneHarvestAtATime` | `OneHarvest` | `OwnsRow`: without evictions a run under way owns the running row and only an orphan's row is quiet |
| `CorpusProofs!CorpusTypeCorrect` | `TypeOK` | inductive with the invariant below |
| `IndexesNeverFire` | `UniqueKeys` | `IInv`: no lock has two holders (`OneHolder`), a transaction past its lock loop holds every identity of its record (`LocksTaken`), and what it will write is under its locks and in no committed row (`KeysReserved`) - so two writers of one key would share a lock |
| `IdentitiesAreSafe` | `IdentitiesNeverDeadlock` | `OrderInv`: who still wants identities holds lesser ones (`InOrder`), and finitely many transactions are open (`FewOpen`). A finite ordered set has a top (`FiniteHasTop`), so the transaction waiting for the greatest identity waits for nobody in the loop |
| `RowsAreEnriched` | `RowsOnlyGain` | an action property from `GainInv`: what a transaction will write improves on what it read (`Improving`), and the authors it has come to have a link, read or added, below the next free position (`Attaching`), as long as nobody else attached any; a commit is each saver's own, and others' rows stay |
| `IngestionProofs!TypeCorrect` | `TypeOK` | with `Orderly`: what a run holds belongs to the stage it is in |
| `NothingSlipsBy` | `NoSilentGap` | `JoinedUp`: a window that joined up with its cursor when it was planned still does when its source answers, although other runs have moved the cursor meanwhile; so only windows that did not join up leave a gap, and what lies in one is in `passed` |
| `JournalKnows` | `JournalComplete` | with `Orderly`: a verdict leaves the buffer only for the journal or for `lost` |
| `RanksAreHonest` | `RankIsHonest` | `InHand`: what a run is about to rank was handled and stored by someone, and found its vector before it was scored |
| `CursorsOnlyGrow` | `CursorNeverFalls` | an action property from `CursorsInPresent`: a cursor is a time that has come, and is only ever replaced by a greater one |
| `EligibilityProofs!TypeCorrect` | `TypeOK` | in two parts, the rows with their history and what is on its way |
| `DecisionsStand` | `DecisionHolds` | `Standing`: the property, and what it takes for a chat to come back or a row to be made anew: a `left` row is known to have gone, a row that is not there has no verdict |
| `NobodyIsSilenced` | `SilenceHasCause` | `Standing` also says this of every approved row, active or not (`Explained`), since a chat becomes active again without anybody looking at the flag |
| `PeriodsTypeCorrect` | `PeriodsTypeOK` | inductive |
| `GrantedIsServed` | `GrantedTimeIsServed` | `Settled`: an expired row's time is over, grace and all - also after an extension, which makes it active |
| `TrialsAreRare` | `OneTrial` | `Trials`, unless raced: one request at a time is between its transactions, and what it saw of the trials still holds |
| `PeriodsNeverOverlap` | `PeriodsApart` | inductive, with the types: a grant cancels what overlaps it before it is added (`Replaced`), an extension is made only if the row still fits, and closing a row brings no two together. It is what the exclusion constraint of revision 0003 demands; `models.py` says why the constraint is there |
| `ProfilesProofs!TypeCorrect` | `TypeOK` | inductive with `EditorsExist` |
| `OneIsAlwaysActive` | `OneActive` | inductive with `TypeOK` |
| `VersionsNameTexts` | `VersionNamesText` | `VersionsKnown`: it has to hold of the scores a ranking is about to write as well, and no version is ahead of its profile |
| `TextsAreCurrent` | `TextIsCurrent` | `Peace`: what an editor that is alone has read stays true |
| `ReactionsAreEvidence` | `ReactionsCount` | `Counted`: a profile that is made again starts counting anew |
| `OperationsProofs!MetricsTypeCorrect` | `MetricsTypeOK` | inductive |
| `ClosedDaysStayExact` | `ClosedDaysAreExact` | `MetricsInv`: besides the closed days, an aggregate that is not `behind` is that of every row of `ever` (`Exact`); what a run has computed is, too, for days no row has changed on since and the purge has not reached (`HonestRun`); the purge reaches only what has expired (`Purged`, `RowsFit`). A row that changes or is erased touches the days it feeds and no others (`DayChanges`, `ForgetKeeps`) |
| `ScheduledRunsReadAll` | `WindowIsWhole` | the same invariant, under `RetentionOutlastsLookback` |
| `SchedulesTypeCorrect` | `TypeOK` | in `SchedulesInv` |
| `UnmarkedRowsAreTrue` | `UnmarkedIsInPrefect` | `SchedulesInv`: whoever has a row in hand alone (`Alone`, `RacesKnown`) has read what still stands in it (`Knows`), and its request is at a place its kind comes to (`Ordered`), so that it clears the mark only of what it has pushed. The statement holds at every moment, as a row is marked in the transaction that changes it |
| `EditsAreTrue` | `OnlyNamedFieldsChange` | an action property from `Alone` and `Knows`: what an edit writes back of a field it does not name it has read, and unless others were at the row nobody has changed it since |
| `StoredIdsAreReal` | `IdsAreReal` | with `JobsKnowIds`: an id a request has read is a real one too; deployments are never unregistered |
| `SeedingKeepsAdminsWork` | `Mine(reg) \subseteq Mine(seed_all(reg, env))` | one lemma for each part of `seed_all`: rows are only added, a role that is bound and a value that is overridden are left alone. A seed writes the terms of a profile only when there is no profile, and then there are none |
| `RescheduleKeepsAdminsWork` | `Mine(reg) \ Overruled(reg) \subseteq Mine(Reschedule(reg))` | row by row: a time of the administrator is not the old default, an hour of his is not missing, and a switch of his stands where the time is not the old default |
| `RegistriesAreClosed` | - | the invariant of the seeded rows (`Registries`) that the two theorems above rest on: terms belong to a profile, a value set by hand says so, no default is the administrator's. Every operation of `Registry` keeps it, and the empty tables have it |
| `RestartSeedsNothing` | `seed_all(seed_all(reg, env), env) = seed_all(reg, env)` | `Seeded`: what each part of a seed looks for is there after the first, unless it was refused. It takes `env.fileKey = env.profile`: see 21 in section 5 |

The two refinement theorems meet in `DeliveryPromise`: what `Dispatch` relies on
(`QueueIsUsedAsPromised`) is what `DeliveryQueue` implements while it is undisturbed
(`QueueKeepsPromise`). Disturbed, by slow runs or a manual retry, the queue can
repeat what it sent; `queue_faults` and the theorems without that condition say what
is left.

The type invariants, `OnlyFinishedDays`, `JobsMoveAsPromised`, `PeriodsApart`,
`WindowIsWhole`, `IdsAreReal` and the theorems on `Registry` are proved and not among the
properties of a run.

Only model-checked:

- *Liveness* (`FairLaneSettles`, `CatchesUp`, `RowsConverge`, `EndedSettles`, `JobsEnd`,
  `StartsEnd`): fairness and ENABLED are outside what the installed provers do.
- *Start-up* (`TablesFollowRevision`, `MigrationsRefusedWithCause`, `OutcomeHasCause`,
  `AdminsWorkIsKept`): `Ddl` and `Bootstrap` run lists of statements with recursive
  operators, about which nothing can be proved here. Of `AdminsWorkIsKept` the theorems
  on `Registry` give the two steps that take the work, seeding and revision 0008, for
  every environment and every row; that a start takes no others is the run's.

All other properties of the runs, every safety invariant and every action property, are
proved.

## 5. Where the code and what is said of it part

Met while modelling; the models contain the behaviour, and the properties name it
as a condition or a cause where they would otherwise be false. Quoted lines are
those of this commit.

Queue and dispatch:

1. A retry by an administrator sets `attempts = 0` (`api/admin/routers/deliveries.py:123`),
   and the journal is read only when attempts is not 0, so what is already in the
   chat is sent again; the comment at `workflows/delivery.py:69` speaks of the
   journal only.
2. Nothing renews `claimed_at` while a job is being sent, and the owner is compared
   only before the first block: a run slower than `DELIVERY_STALE_MINUTES` shares its
   job with the next one (`services/delivery.py:367`; the comment at 163-165 says the
   fence prevents it).
3. `mark_digest_status('queued')` comes after enqueue and has no guard
   (`workflows/dispatch.py:238`), so it overwrites the `sent` of a quick worker.
4. A profile's eligibility is looked at once, for up to 500 profiles at a time
   (`services/dispatch_queries.py:92`); a pause between the selection and its turn
   changes nothing, while `src/docs/operations.md:289-290` reads as if it did.
5. Under a plan whose interval does not exceed the grace of the selection (an hour
   against 90 minutes, `services/dispatch_queries.py:54`) a profile is due again the
   moment it is served. `OneDigestPerInterval` is about longer plans.

Harvest and ingestion:

6. The covered boundary is the greatest `until` of all succeeded runs
   (`workflows/harvest.py:137`), so a run by hand for yesterday hides the days missed
   before it from every later catch-up (`src/docs/operations.md:173`).
7. A day on which a source fails is closed with a hole, and the poll of the next day
   moves the cursor of the source past it (`services/ingestion.py:551-556`): no open
   window starts there again either. The log names the day, to be collected by hand
   (`workflows/harvest.py:326-337`); no table does. `NoSilentGap` names this as one of
   three causes.
8. `src/docs/operations.md:186` speaks of a limit of 90 days where
   `MAX_MANUAL_DAYS` is 400.

Subscribers, subscriptions, profiles:

9. A chat approved before and added again is active with its digest off; a paused
   chat loses its pause by leaving and returning; "left" set in the panel is undone by
   the monitor; "pending" set on an approved chat is undone when the bot returns.
10. The monitor goes through the pages of chats but cuts the list at `limit`
    (`workflows/chats.py:34,53-56`), 200 by default: the oldest chats beyond it are never
    checked, which is what the comment at 44-47 says the pages are for.
    `RowsConverge` is about the chats that stay among the newest.
11. A `restricted` bot is neither present nor absent (`domain.py:92-99`): its chat comes
    back from `left` (`db/subscriber_repository.py:532`), `removed_at` is set (577), and
    the dispatcher sends it nothing (`services/dispatch_queries.py:68`).
12. The middleware lets a command through when it cannot read the status.
    `refresh_chat` takes any error of Telegram for an expulsion.
13. Extending an unlimited subscription by days limits it; extending does not move
    the grace (`db/subscriber_repository.py:706` against 864-910); cancelling a period
    that has not begun violates a CHECK; a grant from tomorrow on cancels the row in
    force today; nothing turns `pending` into `active`; two approvals at the same
    moment give two trials.
14. One dislike turns the polarity of a signal and keeps the weight accumulated
    with the other one; every repeated press of a button counts.

Schedules and metrics:

15. Parameters that are emptied never reach Prefect (`services/prefect_admin.py:335`);
    the mark is cleared without looking whether the row has changed meanwhile; an
    edit writes back the time and the switch it has read, over an edit made meanwhile
    (`api/admin/routers/schedules.py:178-184`). `src/docs/admin.md` speaks of 503 where
    the code answers `saved` and `synced: false`.
16. A manual recomputation of purged days replaces true numbers
    (against `metrics/rollups.py:4-5`); `total_active` of a past day is counted by the
    present status; a rollup that is killed stays "running".
17. Erasing a subscriber (`api/admin/routers/subscribers.py:427-439`) takes its activity,
    jobs, digests and feedback of the days a scheduled rollup is still to write, and their
    numbers shrink; a day all of whose rows are gone keeps its old number, as a
    statement that groups does not write it.
18. Nothing compares `metrics_retention_days` and `harvest_decision_retention_days`, which
    may be 1, with `metrics_rollup_lookback_days`, which may be 90
    (`config.py:320,398,401`): with such settings scheduled runs read days the purge has
    already been to.

Start-up:

19. The rollback of 0003 restores the narrow CHECK on `digests.status` without
    rewriting the rows that have a newer status (`0003_platform_v2.py:1127-1132`), so
    PostgreSQL refuses it (`src/docs/db-schema.md:648`). It is the only rollback that
    is refused (`MigrationsRefusedWithCause`).
20. Revision 0005 raises when the index asked for is too small for the dimensions, or
    when `halfvec` is asked of an extension older than 0.7 (`0005_pgvector.py:38-56`).
    `config.py:535-556` compares index and dimensions as the settings are read, but only
    under `VECTOR_BACKEND=pgvector`; the revision runs under any. And a start that is to
    seed the harvest profile fails when `HARVEST_CONFIG_PATH` is no file
    (`bootstrap/seed.py:149-153`). Both are causes in `OutcomeHasCause`.
21. `_seed_plans` ignores a conflict on `key` only: a renamed
    `DEFAULT_SUBSCRIPTION_PLAN` runs into the unique default plan and every start
    fails. The harvest profile is looked up by `HARVEST_PROFILE_KEY` and inserted under
    the key of the file. A term whose match type changes in the file stays beside its
    new version (`bootstrap/seed.py:504-513`).
22. The upgrade to 0008 sets the switch of a schedule whose time is the old default
    over an administrator's: it switches on what he had switched off, and switches off
    the personal ones, whose time it does not change, even if he had switched them on
    (`0008_daily_harvest.py:39-46,100-107`; the comment at 10-13 says that what was done
    in the panel must not be overwritten). `AdminsWorkIsKept` and
    `RescheduleKeepsAdminsWork` leave out these switches (`Overruled`) and nothing else.
    The rollback removes an hour an administrator has set.
23. The wait for the bootstrap lock is subject to the statement timeout
    (`bootstrap/entrypoint.py:87-88` and `src/docs/operations.md:47` say the others
    wait); a failed bootstrap is not tried again. Only the API calls it; `cli db upgrade`
    takes no lock.
24. `reset_setting` gives back the default of the last start without an override,
    which is stale if the environment has changed since.

## 6. Not modelled

- The **numbers**: ranking scores, embeddings, facets and quotas, gates and term
  matching, backoff durations, rate limits of the Bot API. The models treat
  their outcomes as a free choice.
- **Collectors, identity extraction, rendering, translation**: pure code or calls
  of external services without shared state; `Ingestion`, `Corpus` and `Profiles`
  take their results, and their failures, as given.
- **Dialogues** of the bot, keyboards, moderation lists, the questionnaire of a
  profile; the admin panel's read-only screens, authentication, tokens.
- **Prefect and Telegram** themselves: external, modelled by what the code relies on.
- **Plain indexes, types and defaults** of the schema; settings parsing (`config.py`)
  but for the values that are constants of a model.
- **Other ways for a start to fail**: settings that do not validate, a server without the
  vector extension, PostgreSQL's own errors, and a schedule in the settings without a flow
  in the code (`bootstrap/seed.py:379`), which is decided by the image alone.

## 7. Plan

Built, in this order: delivery queue, dispatch, harvest runs, corpus,
ingestion, subscribers, subscriptions, profiles, schedules, metrics, start-up and
migrations. Proved: the safety properties of all of them but start-up, of which the
seeded rows. Next: pure algorithms as operators over bounded inputs, the quotas of a
digest over facets and the matching of terms.
