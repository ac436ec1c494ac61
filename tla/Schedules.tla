------------------------------ MODULE Schedules ------------------------------
(***************************************************************************)
(* The table schedules and the deployments of Prefect                      *)
(* (services/prefect_admin.py, api/admin/routers/schedules.py,             *)
(* workflows/deployments.py).  The table holds what the administrator      *)
(* wants, Prefect what is run.  An edit commits the row with sync_pending, *)
(* pushes it over HTTP and then clears the mark; "resync" pushes the       *)
(* marked rows again; a starting worker registers every flow from rows it  *)
(* has loaded once.  No step holds a lock over the next one: every read,   *)
(* commit and request below is an action of its own, and any actor may be  *)
(* cut off between two of them.                                            *)
(***************************************************************************)
EXTENDS Naturals, FiniteSets

CONSTANTS
  Keys,         \* flows of the catalogue, the keys of the schedule rows
  Actors,       \* requests of the admin API and starting workers
  Times,        \* what a row may say of time: a cron with its zone or an interval
  Parameters,   \* non-empty launch parameters
  Catalogue,    \* parameters of a flow in flow_catalog.py, or Nothing
  Crons,        \* the cron of a flow in the settings, which seeds its row
  Updates,      \* the edits an administrator makes
  Nothing,      \* an empty parameter dictionary
  Keep,         \* a field the edit does not name
  Off,          \* a deployment that is never started by itself
  MaxJobs,      \* bound: requests, deploys and migrations
  MaxMishaps    \* bound: requests that fail or are cut off

ASSUME NamesAreDistinct ==
  /\ Nothing \notin Parameters
  /\ Keep \notin Parameters \union Times \union {Nothing} \union BOOLEAN
  /\ Off \notin Times

ASSUME CatalogueIsDefault ==
  Catalogue \in [Keys -> Parameters \union {Nothing}] /\ Crons \in [Keys -> Times]

ScheduleUpdate == [time : Times \union {Keep}, enabled : BOOLEAN \union {Keep},
                   parameters : Parameters \union {Nothing, Keep}]

ASSUME UpdatesAreUpdates == Updates \subseteq ScheduleUpdate

ASSUME BoundsAreNatural == MaxJobs \in Nat /\ MaxMishaps \in Nat

VARIABLES
  rows,         \* the table schedules
  deployments,  \* Prefect's deployments
  job,          \* what every actor is doing
  started,      \* flow runs that run_now has created in Prefect, per key
  mirror,       \* rows of flow_runs, per key
  jobs,         \* jobs so far
  mishaps,      \* failures so far
  raced         \* history: keys on which jobs have overlapped since the last lone push

vars == <<rows, deployments, job, started, mirror, jobs, mishaps, raced>>

-----------------------------------------------------------------------------
(* State *)

Row == [time : Times, enabled : BOOLEAN, parameters : Parameters \union {Nothing},
        sync_pending : BOOLEAN, deployment_id : BOOLEAN]

Deployment == [registered : BOOLEAN, schedule : Times \union {Off},
               parameters : Parameters \union {Nothing}]

NoUpdate == [time |-> Keep, enabled |-> Keep, parameters |-> Keep]

Idle == [kind |-> "none"]

\* "clean" is history: the keys on which this job has not met another one.
Job == [kind : {"patch", "resync", "deploy", "run"},
        at : {"parameters", "save", "find", "read", "push", "clear", "apply", "mark",
              "unmark", "create", "mirror"},
        key : Keys, left : SUBSET Keys, seen : [Keys -> Row], update : ScheduleUpdate,
        parameters : Parameters \union {Nothing}, clean : SUBSET Keys]

TypeOK ==
  /\ rows \in [Keys -> Row]
  /\ deployments \in [Keys -> Deployment]
  /\ job \in [Actors -> Job \union {Idle}]
  /\ started \in [Keys -> Nat] /\ mirror \in [Keys -> Nat]
  /\ jobs \in Nat /\ mishaps \in Nat
  /\ raced \subseteq Keys

\* The rows as seeded from the settings and the catalogue; Prefect knows no flow yet.
Init ==
  /\ \E enabled \in [Keys -> BOOLEAN] :
       rows = [k \in Keys |->
                 [time |-> Crons[k], enabled |-> enabled[k], parameters |-> Catalogue[k],
                  sync_pending |-> FALSE, deployment_id |-> FALSE]]
  /\ deployments = [k \in Keys |->
                      [registered |-> FALSE, schedule |-> Off, parameters |-> Nothing]]
  /\ job = [a \in Actors |-> Idle]
  /\ started = [k \in Keys |-> 0] /\ mirror = [k \in Keys |-> 0]
  /\ jobs = 0 /\ mishaps = 0 /\ raced = {}

\* "stored or spec.parameters": an empty dictionary of the row gives way to the catalogue.
EffectiveParameters(k, row) ==
  IF row.parameters # Nothing THEN row.parameters ELSE Catalogue[k]

Fires(time, enabled) == IF enabled THEN time ELSE Off

\* What the job writes: the fields its update names, the rest as it has read the row.
Wanted(j) ==
  [time |-> IF j.update.time = Keep THEN j.seen[j.key].time ELSE j.update.time,
   enabled |-> IF j.update.enabled = Keep THEN j.seen[j.key].enabled ELSE j.update.enabled]

-----------------------------------------------------------------------------
(* Starting a job *)

Touches(b) == IF job[b] = Idle THEN {} ELSE {job[b].key} \union job[b].left

\* Every actor's job once a starts j on the keys K, and the overlap this makes.
Starts(a, j, K) ==
  LET others == UNION {Touches(b) : b \in Actors \ {a}}
  IN  /\ job[a] = Idle /\ jobs < MaxJobs
      /\ jobs' = jobs + 1
      /\ job' = [b \in Actors |->
                   IF b = a THEN [j EXCEPT !.clean = K \ others]
                   ELSE IF job[b] = Idle THEN Idle
                   ELSE [job[b] EXCEPT !.clean = @ \ K]]
      /\ raced' = raced \union (K \intersect others)

NewJob(kind, at, key, left, update) ==
  [kind |-> kind, at |-> at, key |-> key, left |-> left, seen |-> rows,
   update |-> update, parameters |-> Nothing, clean |-> {}]

\* PATCH /schedules/{id}: the row is read without a lock.
PatchSchedule(a, k, update) ==
  /\ Starts(a, NewJob("patch", IF update.parameters = Keep THEN "save" ELSE "parameters",
                      k, {}, update), {k})
  /\ UNCHANGED <<rows, deployments, started, mirror, mishaps>>

\* POST /schedules/{id}/toggle: the opposite of what it has just read.
Toggle(a, k) ==
  PatchSchedule(a, k, [NoUpdate EXCEPT !.enabled = ~rows[k].enabled])

\* POST /prefect/resync: all marked rows, read at once.
ResyncPending(a) ==
  LET marked == {k \in Keys : rows[k].sync_pending}
  IN  /\ \E k \in marked :
           Starts(a, NewJob("resync", "find", k, marked \ {k}, NoUpdate), marked)
      /\ UNCHANGED <<rows, deployments, started, mirror, mishaps>>

\* A worker starts: deploy_all loads all rows at once.
DeployAll(a) ==
  /\ \E k \in Keys : Starts(a, NewJob("deploy", "apply", k, Keys \ {k}, NoUpdate), Keys)
  /\ UNCHANGED <<rows, deployments, started, mirror, mishaps>>

\* POST /schedules/{id}/run
RunNow(a, k) ==
  /\ Starts(a, NewJob("run", "find", k, {}, NoUpdate), {})
  /\ UNCHANGED <<rows, deployments, started, mirror, mishaps>>

\* A migration rewrites the row and marks it: it has no way to reach Prefect.
Migrate(k, t, e) ==
  /\ jobs < MaxJobs
  /\ rows' = [rows EXCEPT ![k].time = t, ![k].enabled = e, ![k].sync_pending = TRUE]
  /\ jobs' = jobs + 1
  /\ raced' = IF \E a \in Actors : k \in Touches(a) THEN raced \union {k} ELSE raced
  /\ job' = [b \in Actors |->
               IF job[b] = Idle THEN Idle ELSE [job[b] EXCEPT !.clean = @ \ {k}]]
  /\ UNCHANGED <<deployments, started, mirror, mishaps>>

-----------------------------------------------------------------------------
(* The steps of a job *)

At(a, at) == job[a] # Idle /\ job[a].at = at

GoTo(a, at) == job' = [job EXCEPT ![a].at = at]

\* The next row of resync_pending or deploy_all, or the end of the job.
Advance(a) ==
  LET j == job[a]
      first == IF j.kind = "deploy" THEN "apply" ELSE "find"
  IN  IF j.left = {} THEN job' = [job EXCEPT ![a] = Idle]
      ELSE \E k \in j.left :
             job' = [job EXCEPT ![a].key = k, ![a].left = @ \ {k}, ![a].at = first]

SlipStuckOnFailure(a) ==
  LET j == job[a]
  IN  IF j.left = {} /\ j.kind # "resync" THEN job' = [job EXCEPT ![a] = Idle]
      ELSE \E k \in j.left \union {j.key} :
             job' = [job EXCEPT ![a].key = k, ![a].left = (@ \union {j.key}) \ {k},
                                ![a].at = "find"]

\* A failed push ends an edit; resync_pending notes it and takes the next row.
GiveUp(a) == Advance(a)

SlipParametersUnmarked(a) ==
  /\ At(a, "parameters")
  /\ rows' = [rows EXCEPT ![job[a].key].parameters = job[a].update.parameters]
  /\ GoTo(a, "save")
  /\ UNCHANGED <<deployments, started, mirror, jobs, mishaps, raced>>

\* The parameters are committed before the schedule, marked already.
WriteParameters(a) ==
  /\ At(a, "parameters")
  /\ rows' = [rows EXCEPT ![job[a].key].parameters = job[a].update.parameters,
                          ![job[a].key].sync_pending = TRUE]
  /\ GoTo(a, "save")
  /\ UNCHANGED <<deployments, started, mirror, jobs, mishaps, raced>>

SlipSaveEnabled(a) ==
  LET k == job[a].key
  IN  /\ At(a, "save")
      /\ rows' = [rows EXCEPT ![k].time = Wanted(job[a]).time,
                              ![k].enabled = job[a].update.enabled \in {Keep, TRUE},
                              ![k].sync_pending = TRUE]
      /\ GoTo(a, "find")
      /\ UNCHANGED <<deployments, started, mirror, jobs, mishaps, raced>>

SetSchedule(a) ==
  LET k == job[a].key
  IN  /\ At(a, "save")
      /\ rows' = [rows EXCEPT ![k].time = Wanted(job[a]).time,
                              ![k].enabled = Wanted(job[a]).enabled,
                              ![k].sync_pending = TRUE]
      /\ GoTo(a, "find")
      /\ UNCHANGED <<deployments, started, mirror, jobs, mishaps, raced>>

\* deployment_id: the stored one, else the one Prefect knows by name, which is stored.
FindDeployment(a) ==
  LET k == job[a].key
  IN  /\ At(a, "find")
      /\ rows[k].deployment_id \/ deployments[k].registered
      /\ rows' = [rows EXCEPT ![k].deployment_id = TRUE]
      /\ GoTo(a, IF job[a].kind = "run" THEN "create" ELSE "read")
      /\ UNCHANGED <<deployments, started, mirror, jobs, mishaps, raced>>

\* FlowNotRegistered: no worker has registered the flow yet.
NotRegistered(a) ==
  LET k == job[a].key
  IN  /\ At(a, "find")
      /\ ~rows[k].deployment_id /\ ~deployments[k].registered
      /\ GiveUp(a)
      /\ UNCHANGED <<rows, deployments, started, mirror, jobs, mishaps, raced>>

\* The parameters of a push are read from the row once more.
ReadParameters(a) ==
  LET k == job[a].key
  IN  /\ At(a, "read")
      /\ job' = [job EXCEPT ![a].at = "push",
                            ![a].parameters = EffectiveParameters(k, rows[k])]
      /\ UNCHANGED <<rows, deployments, started, mirror, jobs, mishaps, raced>>

\* The PATCH of a deployment: empty parameters are not part of it.
Patched(a) ==
  LET k == job[a].key
      w == Wanted(job[a])
  IN  [deployments EXCEPT
         ![k].schedule = Fires(w.time, w.enabled),
         ![k].parameters = IF job[a].parameters = Nothing THEN @ ELSE job[a].parameters]

PushSchedule(a) ==
  /\ At(a, "push")
  /\ deployments' = Patched(a)
  /\ GoTo(a, "clear")
  /\ UNCHANGED <<rows, started, mirror, jobs, mishaps, raced>>

\* PrefectUnavailable: no answer, an error, or an answer lost after the change was made.
PrefectUnavailable(a) ==
  /\ mishaps < MaxMishaps
  /\ \/ At(a, "find") /\ ~rows[job[a].key].deployment_id /\ UNCHANGED deployments
     \/ At(a, "push") /\ deployments' \in {deployments, Patched(a)}
  /\ GiveUp(a)
  /\ mishaps' = mishaps + 1
  /\ UNCHANGED <<rows, started, mirror, jobs, raced>>

SettledRaces(a) == raced \ ({job[a].key} \intersect job[a].clean)

ClearPending(a) ==
  /\ At(a, "clear")
  /\ rows' = [rows EXCEPT ![job[a].key].sync_pending = FALSE]
  /\ raced' = SettledRaces(a)
  /\ Advance(a)
  /\ UNCHANGED <<deployments, started, mirror, jobs, mishaps>>

\* deploy_all registers one flow from the row it has loaded.
ApplyDeployment(a) ==
  LET k == job[a].key
      row == job[a].seen[k]
      applied == [deployments EXCEPT
                    ![k] = [registered |-> TRUE,
                            schedule |-> Fires(row.time, row.enabled),
                            parameters |-> EffectiveParameters(k, row)]]
  IN  /\ At(a, "apply")
      /\ \/ deployments' = applied /\ GoTo(a, "mark") /\ UNCHANGED mishaps
         \/ /\ mishaps < MaxMishaps
            /\ deployments' \in {deployments, applied}
            /\ GoTo(a, "unmark")
            /\ mishaps' = mishaps + 1
      /\ UNCHANGED <<rows, started, mirror, jobs, raced>>

\* mark_synced after the registration, or with pending = TRUE and the id as loaded.
MarkSynced(a) ==
  LET k == job[a].key
  IN  /\ \/ At(a, "mark") /\ rows' = [rows EXCEPT ![k].sync_pending = FALSE,
                                                  ![k].deployment_id = TRUE]
                          /\ raced' = SettledRaces(a)
         \/ /\ At(a, "unmark")
            /\ rows' = [rows EXCEPT ![k].sync_pending = TRUE,
                                    ![k].deployment_id = job[a].seen[k].deployment_id]
            /\ UNCHANGED raced
      /\ Advance(a)
      /\ UNCHANGED <<deployments, started, mirror, jobs, mishaps>>

CreateFlowRun(a) ==
  /\ At(a, "create")
  /\ started' = [started EXCEPT ![job[a].key] = @ + 1]
  /\ \/ GoTo(a, "mirror") /\ UNCHANGED mishaps
     \/ mishaps < MaxMishaps /\ mishaps' = mishaps + 1 /\ job' = [job EXCEPT ![a] = Idle]
  /\ UNCHANGED <<rows, deployments, mirror, jobs, raced>>

MirrorRun(a) ==
  /\ At(a, "mirror")
  /\ mirror' = [mirror EXCEPT ![job[a].key] = @ + 1]
  /\ job' = [job EXCEPT ![a] = Idle]
  /\ UNCHANGED <<rows, deployments, started, jobs, mishaps, raced>>

\* The process or the request is gone between two steps.
CutOff(a) ==
  /\ job[a] # Idle /\ mishaps < MaxMishaps
  /\ job' = [job EXCEPT ![a] = Idle]
  /\ mishaps' = mishaps + 1
  /\ UNCHANGED <<rows, deployments, started, mirror, jobs, raced>>

Step(a) ==
  \/ WriteParameters(a) \/ SetSchedule(a)
  \/ FindDeployment(a) \/ NotRegistered(a) \/ ReadParameters(a)
  \/ PushSchedule(a) \/ PrefectUnavailable(a) \/ ClearPending(a)
  \/ ApplyDeployment(a) \/ MarkSynced(a)
  \/ CreateFlowRun(a) \/ MirrorRun(a)

Next ==
  \/ \E a \in Actors, k \in Keys, update \in Updates : PatchSchedule(a, k, update)
  \/ \E a \in Actors, k \in Keys : Toggle(a, k) \/ RunNow(a, k)
  \/ \E a \in Actors : ResyncPending(a) \/ DeployAll(a) \/ Step(a) \/ CutOff(a)
  \/ \E k \in Keys, t \in Times, e \in BOOLEAN : Migrate(k, t, e)

\* A request that has begun goes on: every await of it is bounded by a timeout.
Fairness == \A a \in Actors : WF_vars(Step(a))

Spec == Init /\ [][Next]_vars /\ Fairness

-----------------------------------------------------------------------------
(* Properties *)

\* A row without the mark tells what Prefect runs, at every moment: whatever failed or
\* was cut off, an edit, a migration or a registration that did not reach Prefect leaves
\* sync_pending set.  The code promises it only to jobs that do not overlap ("raced": a
\* push clears the mark unconditionally), and a push does not clear parameters in
\* Prefect.
UnmarkedIsInPrefect ==
  \A k \in Keys :
    (k \notin raced /\ ~rows[k].sync_pending /\ deployments[k].registered) =>
      /\ deployments[k].schedule = Fires(rows[k].time, rows[k].enabled)
      /\ EffectiveParameters(k, rows[k]) \in {Nothing, deployments[k].parameters}

\* What an edit may leave in a field: what it names, or, of a row on which jobs have
\* overlapped, what it has read there in the beginning.
Leaves(k, named, seen) == {named} \union (IF k \in raced /\ named = Keep THEN {seen} ELSE {})

Saves(a, k, at) == At(a, at) /\ job[a].key = k

\* Nothing but an edit of the field, or a migration, ever changes a field of a row:
\* no edit of the time switches a schedule on that somebody has switched off, no
\* switch moves its time, neither touches its parameters, and no resync or deploy
\* changes any of them.  Only an edit that overlaps another job on the same row may put
\* back the time or the switch it has read before (schedules.py:178).
OnlyNamedFieldsChange ==
  [][\A k \in Keys :
       /\ rows'[k].time # rows[k].time =>
            \/ \E a \in Actors : /\ Saves(a, k, "save")
                                 /\ rows'[k].time \in
                                      Leaves(k, job[a].update.time, job[a].seen[k].time)
            \/ \E t \in Times, e \in BOOLEAN : Migrate(k, t, e)
       /\ rows'[k].enabled # rows[k].enabled =>
            \/ \E a \in Actors : /\ Saves(a, k, "save")
                                 /\ rows'[k].enabled \in
                                      Leaves(k, job[a].update.enabled, job[a].seen[k].enabled)
            \/ \E t \in Times, e \in BOOLEAN : Migrate(k, t, e)
       /\ rows'[k].parameters # rows[k].parameters =>
            \E a \in Actors : /\ Saves(a, k, "parameters")
                              /\ rows'[k].parameters = job[a].update.parameters]_vars

\* Every request ends, also a resync over flows nobody has registered.
JobsEnd == \A a \in Actors : (job[a] # Idle) ~> (job[a] = Idle)

=============================================================================
