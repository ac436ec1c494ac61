---------------------------- MODULE DeliveryQueue ----------------------------
(***************************************************************************)
(* The delivery queue: rows of delivery_jobs, the worker flows that send    *)
(* them to Telegram block by block, the maintenance flow and the two admin  *)
(* operations (services/delivery.py, workflows/delivery.py,                 *)
(* api/admin/routers/deliveries.py).                                        *)
(*                                                                         *)
(* Every SQL statement is one action; everything a worker does between two *)
(* statements or Bot API calls is a step other actors interleave with.     *)
(* Clock comparisons are abstracted to the three answers the code asks     *)
(* for: is the job due, is its claim stale, is it older than its TTL.      *)
(***************************************************************************)
EXTENDS Naturals, FiniteSets

CONSTANTS
  Jobs,         \* a job is a (digest_id, target_chat_id) pair: the UNIQUE key of the table
  Workers,      \* slots for concurrent flow runs; a run that ends frees its slot
  NBlocks,      \* messages in one digest
  MaxAttempts,  \* delivery_jobs.max_attempts
  BatchSize,    \* DELIVERY_BATCH_SIZE
  ChannelOf,    \* channel column of each job
  Lane,         \* channel of the flow a worker slot runs
  FairLanes,    \* channels whose workers keep running (liveness only)
  DryWorkers,   \* workers configured with DELIVERY_DRY_RUN
  Faults,       \* which of "slow", "lost_reply", "db_error" may happen
  MaxCrashes,   \* bound on worker crashes
  MaxRetries,   \* bound on manual retries
  NoWorker,     \* NULL in claimed_by
  NoJob         \* a worker between two jobs

ASSUME ConstantsAssumption ==
  /\ NBlocks \in Nat \ {0}
  /\ MaxAttempts \in Nat \ {0}
  /\ BatchSize \in Nat \ {0}
  /\ MaxCrashes \in Nat
  /\ MaxRetries \in Nat
  /\ DryWorkers \subseteq Workers
  /\ NoWorker \notin Workers
  /\ NoJob \notin Jobs

VARIABLES
  \* columns of delivery_jobs
  status,    \* "absent" before the row is inserted
  attempts,
  owner,     \* claimed_by
  due,       \* scheduled_at and next_retry_at have passed
  stale,     \* claimed_at is older than DELIVERY_STALE_MINUTES
  old,       \* created_at is older than DELIVERY_JOB_TTL_HOURS
  \* other tables
  sentLog,   \* positions with a 'sent' row in delivery_messages
  digest,    \* digests.status, as far as the queue moves it
  received,  \* digest_received rows in subscriber_activity: 0, 1 or "2 and more"
  \* worker memory
  pc,
  batch,     \* claimed jobs the run has not come to yet
  retried,   \* claimed jobs whose snapshot said attempts > 0
  cur,       \* the job being sent
  todo,      \* its blocks still to send
  \* the chat, and the budget of disturbances
  reached,   \* times a block appeared in the chat: 0, 1 or "2 and more"
  crashes, retries

rowVars == <<status, attempts, owner, due, stale, old>>
tableVars == <<sentLog, digest, received>>
workerVars == <<pc, batch, retried, cur, todo>>
budget == <<crashes, retries>>
vars == <<rowVars, tableVars, workerVars, reached, budget>>

Blocks == 1..NBlocks
Leased == {"claimed", "sending"}
Final == {"sent", "failed", "skipped", "cancelled"}
Status == {"absent", "queued"} \cup Leased \cup Final
Sending == {"resume", "send", "log", "fail", "fail_permanent"}
PC == {"off", "claim", "next"} \cup Sending

\* Counting up to "more than once": all the properties tell apart.
Count(n) == IF n = 0 THEN 1 ELSE 2

\* The jobs a live run has taken into its memory and not finished with.
Held(w) == batch[w] \cup (IF cur[w] = NoJob THEN {} ELSE {cur[w]})

TypeOK ==
  /\ status \in [Jobs -> Status]
  /\ attempts \in [Jobs -> Nat]
  /\ owner \in [Jobs -> Workers \cup {NoWorker}]
  /\ due \in [Jobs -> BOOLEAN]
  /\ stale \in [Jobs -> BOOLEAN]
  /\ old \in [Jobs -> BOOLEAN]
  /\ sentLog \in [Jobs -> SUBSET Blocks]
  /\ digest \in [Jobs -> {"open", "sent"}]
  /\ received \in [Jobs -> 0..2]
  /\ pc \in [Workers -> PC]
  /\ batch \in [Workers -> SUBSET Jobs]
  /\ retried \in [Workers -> SUBSET Jobs]
  /\ cur \in [Workers -> Jobs \cup {NoJob}]
  /\ \A w \in Workers : pc[w] \in Sending <=> cur[w] # NoJob
  /\ todo \in [Workers -> SUBSET Blocks]
  /\ reached \in [Jobs -> [Blocks -> 0..2]]
  /\ crashes \in 0..MaxCrashes
  /\ retries \in 0..MaxRetries

Init ==
  /\ status = [j \in Jobs |-> "absent"]
  /\ attempts = [j \in Jobs |-> 0]
  /\ owner = [j \in Jobs |-> NoWorker]
  /\ due = [j \in Jobs |-> FALSE]
  /\ stale = [j \in Jobs |-> FALSE]
  /\ old = [j \in Jobs |-> FALSE]
  /\ sentLog = [j \in Jobs |-> {}]
  /\ digest = [j \in Jobs |-> "open"]
  /\ received = [j \in Jobs |-> 0]
  /\ pc = [w \in Workers |-> "off"]
  /\ batch = [w \in Workers |-> {}]
  /\ retried = [w \in Workers |-> {}]
  /\ cur = [w \in Workers |-> NoJob]
  /\ todo = [w \in Workers |-> {}]
  /\ reached = [j \in Jobs |-> [b \in Blocks |-> 0]]
  /\ crashes = 0
  /\ retries = 0

-----------------------------------------------------------------------------
(* Slips: plausible mistakes in the predicates below. No action uses them;  *)
(* each stands in for one predicate when the properties are put to the test. *)

ClaimableInAnyStatus(j) == status[j] # "absent" /\ due[j] /\ attempts[j] < MaxAttempts
ClaimAnyChannel(w, j) == TRUE
StartWithoutFence(w, j) == status[j] \in Leased
ForgetLog(w, j) == {}
SkipPastLog(w, j) == {b \in Blocks : \E c \in sentLog[j] : b <= c + 1}
ReleaseByAge(j) == status[j] \in Leased /\ old[j]
ExpireInAnyStatus(j) == status[j] # "absent" /\ old[j]

-----------------------------------------------------------------------------
(* The WHERE clauses and decisions of the queue.                           *)

\* claim: the rows of its channel a worker may pick.
Claimable(j) ==
  /\ status[j] = "queued"
  /\ due[j]
  /\ attempts[j] < MaxAttempts

InLane(w, j) == ChannelOf[j] = Lane[w]

\* mark_sending: the fence on claimed_by.
MayStart(w, j) == owner[j] = w /\ status[j] \in Leased

\* mark_sent: owner only, whatever the status.
MayFinish(w, j) == owner[j] = w

\* sent_positions, read only when the snapshot taken at claim says attempts > 0.
AlreadySent(w, j) == IF j \in retried[w] THEN sentLog[j] ELSE {}

\* release_stale and expire_old.
Releasable(j) == status[j] \in Leased /\ stale[j]
Expirable(j) == status[j] = "queued" /\ old[j]

\* mark_failed: the status is decided on the row as it is now.
Exhausted(j, permanent) == permanent \/ attempts[j] >= MaxAttempts
StatusAfterFailure(j, permanent) ==
  IF Exhausted(j, permanent) THEN "failed" ELSE "queued"

\* The for loop walks the blocks in order.
First(w, b) == b \in todo[w] /\ \A c \in todo[w] : b <= c

-----------------------------------------------------------------------------
(* Posting.                                                                *)

\* enqueue: a second INSERT of the same pair does nothing, so only the first
\* is a step. scheduled_at may lie ahead.
Enqueue(j) ==
  /\ status[j] = "absent"
  /\ status' = [status EXCEPT ![j] = "queued"]
  /\ \E now \in BOOLEAN : due' = [due EXCEPT ![j] = now]
  /\ UNCHANGED <<attempts, owner, stale, old, tableVars, workerVars, reached, budget>>

-----------------------------------------------------------------------------
(* Time. Each answer changes in the statuses in which some statement asks   *)
(* for it. A claim outlives the threshold while its holder is alive only if *)
(* the holder is slow.                                                     *)

BecomeDue(j) ==
  /\ status[j] = "queued" /\ ~due[j]
  /\ due' = [due EXCEPT ![j] = TRUE]
  /\ UNCHANGED <<status, attempts, owner, stale, old, tableVars, workerVars, reached, budget>>

Abandoned(j) == \A w \in Workers : j \notin Held(w)
CanGoStale(j) == "slow" \in Faults \/ Abandoned(j)

BecomeStale(j) ==
  /\ status[j] \in Leased /\ ~stale[j]
  /\ CanGoStale(j)
  /\ stale' = [stale EXCEPT ![j] = TRUE]
  /\ UNCHANGED <<status, attempts, owner, due, old, tableVars, workerVars, reached, budget>>

BecomeOld(j) ==
  /\ status[j] = "queued" /\ ~old[j]
  /\ old' = [old EXCEPT ![j] = TRUE]
  /\ UNCHANGED <<status, attempts, owner, due, stale, tableVars, workerVars, reached, budget>>

-----------------------------------------------------------------------------
(* One run of a delivery flow: _run_channel and, per job, _send_job.        *)

Release ==
  /\ status' = [j \in Jobs |-> IF Releasable(j) THEN "queued" ELSE status[j]]
  /\ owner' = [j \in Jobs |-> IF Releasable(j) THEN NoWorker ELSE owner[j]]
  /\ stale' = [j \in Jobs |-> IF Releasable(j) THEN FALSE ELSE stale[j]]

StartRun(w) ==
  /\ pc[w] = "off"
  /\ Release
  /\ pc' = [pc EXCEPT ![w] = "claim"]
  /\ UNCHANGED <<attempts, due, old, tableVars, batch, retried, cur, todo, reached, budget>>

\* claim: LIMIT rows, SKIP LOCKED makes concurrent claims disjoint; an empty
\* batch ends the run.
Claim(w) ==
  /\ pc[w] = "claim"
  /\ LET ready == {j \in Jobs : Claimable(j) /\ InLane(w, j)} IN
     \E S \in SUBSET ready :
       /\ Cardinality(S) <= BatchSize
       /\ S = ready \/ Cardinality(S) = BatchSize
       /\ status' = [j \in Jobs |-> IF j \in S THEN "claimed" ELSE status[j]]
       /\ owner' = [j \in Jobs |-> IF j \in S THEN w ELSE owner[j]]
       /\ stale' = [j \in Jobs |-> IF j \in S THEN FALSE ELSE stale[j]]
       /\ batch' = [batch EXCEPT ![w] = S]
       /\ retried' = [retried EXCEPT ![w] = {j \in S : attempts[j] > 0}]
       /\ pc' = [pc EXCEPT ![w] = IF S = {} THEN "off" ELSE "next"]
  /\ UNCHANGED <<attempts, due, old, tableVars, cur, todo, reached, budget>>

\* mark_sending succeeds: the attempt begins.
StartJob(w, j) ==
  /\ pc[w] = "next" /\ j \in batch[w]
  /\ MayStart(w, j)
  /\ status' = [status EXCEPT ![j] = "sending"]
  /\ attempts' = [attempts EXCEPT ![j] = @ + 1]
  /\ batch' = [batch EXCEPT ![w] = @ \ {j}]
  /\ cur' = [cur EXCEPT ![w] = j]
  /\ pc' = [pc EXCEPT ![w] = "resume"]
  /\ UNCHANGED <<owner, due, stale, old, tableVars, retried, todo, reached, budget>>

\* mark_sending returns False: the job is somebody else's by now.
LoseJob(w, j) ==
  /\ pc[w] = "next" /\ j \in batch[w]
  /\ ~MayStart(w, j)
  /\ batch' = [batch EXCEPT ![w] = @ \ {j}]
  /\ UNCHANGED <<rowVars, tableVars, pc, retried, cur, todo, reached, budget>>

EndRun(w) ==
  /\ pc[w] = "next" /\ batch[w] = {}
  /\ pc' = [pc EXCEPT ![w] = "off"]
  /\ retried' = [retried EXCEPT ![w] = {}]
  /\ UNCHANGED <<rowVars, tableVars, batch, cur, todo, reached, budget>>

Resume(w) ==
  /\ pc[w] = "resume"
  /\ todo' = [todo EXCEPT ![w] = Blocks \ AlreadySent(w, cur[w])]
  /\ pc' = [pc EXCEPT ![w] = "send"]
  /\ UNCHANGED <<rowVars, tableVars, batch, retried, cur, reached, budget>>

Appear(j, b) == reached' = [reached EXCEPT ![j][b] = Count(@)]

\* send_message returned.
SendBlock(w, b) ==
  /\ pc[w] = "send" /\ First(w, b) /\ w \notin DryWorkers
  /\ Appear(cur[w], b)
  /\ pc' = [pc EXCEPT ![w] = "log"]
  /\ UNCHANGED <<rowVars, tableVars, batch, retried, cur, todo, budget>>

\* send_message raised; with a lost reply the message is in the chat anyway.
SendRaises(w, b) ==
  /\ pc[w] = "send" /\ First(w, b) /\ w \notin DryWorkers
  /\ \/ pc' = [pc EXCEPT ![w] = "fail"] /\ UNCHANGED reached
     \/ pc' = [pc EXCEPT ![w] = "fail_permanent"] /\ UNCHANGED reached
     \/ /\ "lost_reply" \in Faults
        /\ pc' = [pc EXCEPT ![w] = "fail"]
        /\ Appear(cur[w], b)
  /\ UNCHANGED <<rowVars, tableVars, batch, retried, cur, todo, budget>>

\* log_message(status='sent').
LogSent(w, b) ==
  /\ pc[w] = "log" /\ First(w, b)
  /\ sentLog' = [sentLog EXCEPT ![cur[w]] = @ \cup {b}]
  /\ todo' = [todo EXCEPT ![w] = @ \ {b}]
  /\ pc' = [pc EXCEPT ![w] = "send"]
  /\ UNCHANGED <<rowVars, digest, received, batch, retried, cur, reached, budget>>

\* Dry run: a 'skipped' row, which sent_positions never reads, and on to the next.
SkipBlock(w, b) ==
  /\ pc[w] = "send" /\ First(w, b) /\ w \in DryWorkers
  /\ todo' = [todo EXCEPT ![w] = @ \ {b}]
  /\ UNCHANGED <<rowVars, tableVars, pc, batch, retried, cur, reached, budget>>

\* A statement inside the try block raises: log_message or mark_sent.
DbRaises(w) ==
  /\ "db_error" \in Faults
  /\ pc[w] = "log" \/ (pc[w] = "send" /\ (todo[w] = {} \/ w \in DryWorkers))
  /\ pc' = [pc EXCEPT ![w] = "fail"]
  /\ UNCHANGED <<rowVars, tableVars, batch, retried, cur, todo, reached, budget>>

BackToBatch(w) ==
  /\ cur' = [cur EXCEPT ![w] = NoJob]
  /\ todo' = [todo EXCEPT ![w] = {}]
  /\ pc' = [pc EXCEPT ![w] = "next"]
  /\ UNCHANGED <<batch, retried>>

\* mark_sent: job, digest and activity event in one transaction; not for a
\* worker that lost the job.
MarkSent(w) ==
  /\ pc[w] = "send" /\ todo[w] = {}
  /\ LET j == cur[w] IN
     \/ /\ MayFinish(w, j)
        /\ status' = [status EXCEPT ![j] = "sent"]
        /\ digest' = [digest EXCEPT ![j] = "sent"]
        /\ received' = [received EXCEPT ![j] = Count(@)]
     \/ /\ ~MayFinish(w, j)
        /\ UNCHANGED <<status, digest, received>>
  /\ BackToBatch(w)
  /\ UNCHANGED <<attempts, owner, due, stale, old, sentLog, reached, budget>>

\* mark_failed: WHERE id only. A retry waits (next_retry_at), claimed_at stays.
MarkFailed(w) ==
  /\ pc[w] \in {"fail", "fail_permanent"}
  /\ LET j == cur[w]
         permanent == pc[w] = "fail_permanent" IN
     /\ status' = [status EXCEPT ![j] = StatusAfterFailure(j, permanent)]
     /\ due' = [due EXCEPT ![j] = Exhausted(j, permanent)]
     /\ owner' = [owner EXCEPT ![j] = NoWorker]
  /\ BackToBatch(w)
  /\ UNCHANGED <<attempts, stale, old, tableVars, reached, budget>>

\* The process dies, or a statement outside the try block (claim,
\* mark_sending, sent_positions, the except branch itself) ends the flow.
Crash(w) ==
  /\ pc[w] # "off" /\ crashes < MaxCrashes
  /\ pc' = [pc EXCEPT ![w] = "off"]
  /\ batch' = [batch EXCEPT ![w] = {}]
  /\ retried' = [retried EXCEPT ![w] = {}]
  /\ cur' = [cur EXCEPT ![w] = NoJob]
  /\ todo' = [todo EXCEPT ![w] = {}]
  /\ crashes' = crashes + 1
  /\ UNCHANGED <<rowVars, tableVars, reached, retries>>

-----------------------------------------------------------------------------
(* delivery_maintenance_flow: two statements, and the flow may die between. *)

ExpireOld ==
  /\ status' = [j \in Jobs |-> IF Expirable(j) THEN "skipped" ELSE status[j]]
  /\ UNCHANGED <<attempts, owner, due, stale, old, tableVars, workerVars, reached, budget>>

ReleaseStale ==
  /\ Release
  /\ UNCHANGED <<attempts, due, old, tableVars, workerVars, reached, budget>>

-----------------------------------------------------------------------------
(* The admin panel.                                                        *)

AdminCancel(j) ==
  /\ status[j] \in {"queued"} \cup Leased
  /\ status' = [status EXCEPT ![j] = "cancelled"]
  /\ UNCHANGED <<attempts, owner, due, stale, old, tableVars, workerVars, reached, budget>>

AdminRetry(j) ==
  /\ status[j] \in Final \ {"sent"}
  /\ retries < MaxRetries
  /\ status' = [status EXCEPT ![j] = "queued"]
  /\ attempts' = [attempts EXCEPT ![j] = 0]
  /\ due' = [due EXCEPT ![j] = TRUE]
  /\ owner' = [owner EXCEPT ![j] = NoWorker]
  /\ stale' = [stale EXCEPT ![j] = FALSE]
  /\ retries' = retries + 1
  /\ UNCHANGED <<old, tableVars, workerVars, reached, crashes>>

-----------------------------------------------------------------------------
\* What a healthy worker does next.
WorkerStep(w) ==
  \/ StartRun(w)
  \/ Claim(w)
  \/ \E j \in Jobs : StartJob(w, j) \/ LoseJob(w, j)
  \/ EndRun(w)
  \/ Resume(w)
  \/ \E b \in Blocks : SendBlock(w, b) \/ SendRaises(w, b) \/ LogSent(w, b) \/ SkipBlock(w, b)
  \/ MarkSent(w)
  \/ MarkFailed(w)

Next ==
  \/ \E w \in Workers : WorkerStep(w) \/ DbRaises(w) \/ Crash(w)
  \/ \E j \in Jobs : Enqueue(j) \/ BecomeDue(j) \/ BecomeStale(j) \/ BecomeOld(j)
  \/ \E j \in Jobs : AdminCancel(j) \/ AdminRetry(j)
  \/ ExpireOld
  \/ ReleaseStale

Spec == Init /\ [][Next]_vars

\* Cron restarts the flows of the fair lanes and the maintenance flow for
\* ever, and time passes. Posting, failures and the admin owe nothing.
Fairness ==
  /\ \A w \in Workers : Lane[w] \in FairLanes => WF_vars(WorkerStep(w))
  /\ \A j \in Jobs : WF_vars(BecomeDue(j)) /\ WF_vars(BecomeStale(j)) /\ WF_vars(BecomeOld(j))
  /\ WF_vars(ExpireOld)
  /\ WF_vars(ReleaseStale)

FairSpec == Spec /\ Fairness

-----------------------------------------------------------------------------
(* Properties.                                                             *)

\* mark_sending adds an attempt without looking at max_attempts: the limit
\* holds only because claim filters on it and no job is started twice under
\* one claim, through crashes, releases, retries and takeovers.
AttemptsBounded == \A j \in Jobs : attempts[j] <= MaxAttempts

\* A digest counted as sent has put every block into the chat, over however
\* many attempts and workers, and the journal never lists a block that is not
\* there (without DELIVERY_DRY_RUN).
SentIsComplete ==
  \A j \in Jobs :
    /\ \A b \in sentLog[j] : reached[j][b] > 0
    /\ DryWorkers = {} /\ (digest[j] = "sent" \/ status[j] = "sent") => sentLog[j] = Blocks

\* A finished job moves again only by a manual retry or by a worker that was
\* still sending it when it was finished; maintenance and claims leave it.
FinalLeftWithCause ==
  [][\A j \in Jobs :
       status[j] \in Final /\ status'[j] # status[j] =>
         \/ retries' = retries + 1
         \/ \E w \in Workers : cur[w] = j /\ cur'[w] # j]_vars

\* No live run outlasts its claims, and nobody retries by hand.
Undisturbed == "slow" \notin Faults /\ MaxRetries = 0

\* Undisturbed, a job is in the memory of at most one run, crashes and cancels
\* notwithstanding: what the fence on claimed_by and release_stale promise.
ExclusiveSending ==
  Undisturbed => \A v, w \in Workers : Held(v) \cap Held(w) # {} => v = w

\* Job, digest and activity feed tell the same story: one digest_received
\* event per sent digest, and a sent job is never sent again.
SentOnce ==
  \A j \in Jobs :
    /\ received[j] <= 1
    /\ status[j] = "sent" <=> received[j] = 1
    /\ digest[j] = "sent" <=> received[j] = 1

\* Every job of a lane whose workers run is settled in the end, whatever the
\* other lane's workers do, crashes and exhausted attempts included.
FairLaneSettles ==
  \A j \in Jobs :
    ChannelOf[j] \in FairLanes => <>[](status[j] \in {"absent"} \cup Final)

\* What the comment in _send_job claims without conditions: a block that went
\* out on an earlier attempt is not sent a second time.
LoggedBlockNotResent ==
  [][\A j \in Jobs, b \in Blocks : b \in sentLog[j] => reached'[j][b] = reached[j][b]]_vars

-----------------------------------------------------------------------------
(* Refinement: undisturbed, the queue implements DeliveryPromise.          *)

PhaseOf(j) ==
  CASE status[j] = "absent" -> "unposted"
    [] status[j] \in {"queued"} \cup Leased -> "open"
    [] status[j] \in {"failed", "skipped", "cancelled"} -> "given_up"
    [] status[j] = "sent" -> "delivered"

Promise == INSTANCE DeliveryPromise WITH
  Rehearsed <- {j \in Jobs : \E w \in DryWorkers : Lane[w] = ChannelOf[j]},
  phase <- [j \in Jobs |-> PhaseOf(j)],
  shown <- [j \in Jobs |-> {b \in Blocks : reached[j][b] > 0}]

\* Every behaviour of the queue, seen from outside, keeps the promise.
KeepsPromise == Promise!Spec
=============================================================================
