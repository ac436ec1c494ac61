------------------------------ MODULE Dispatch ------------------------------
(***************************************************************************)
(* Who gets a digest and what goes into it: the dispatcher, the flow of one *)
(* subscriber, and the columns last_digest_at / next_digest_at they share   *)
(* (workflows/dispatch.py, services/dispatch_queries.py). The corpus grows, *)
(* profiles are paused and the delivery queue works meanwhile; of the queue *)
(* only what DeliveryPromise promises is used.                             *)
(*                                                                         *)
(* A moment of time is the set of items created before it: that is all      *)
(* "created_at >= since" can tell.                                          *)
(***************************************************************************)
EXTENDS Naturals, FiniteSets

CONSTANTS
  Profiles,
  Items,         \* items that may enter the corpus
  Digests,       \* rows of digests, one per run of subscriber_digest_flow
  Flows,         \* slots for concurrent runs of subscriber_digest_flow
  MaxItems,      \* least of profile.max_items and the plan's ceiling
  Plans,         \* min_interval_hours of the plans a subscriber may have
  Wishes,        \* digest_settings.interval_hours, 0 if absent or garbage
  GraceMinutes,  \* DIGEST_DUE_GRACE_MINUTES
  Faults,        \* which of "overlap", "flow_dies" may happen
  NoProfile, NoDigest

ASSUME DispatchAssumption ==
  /\ MaxItems \in Nat \ {0}
  /\ Plans \subseteq Nat \ {0}
  /\ Wishes \subseteq Nat
  /\ GraceMinutes \in Nat
  /\ NoProfile \notin Profiles
  /\ NoDigest \notin Digests

VARIABLES
  \* items
  created,   \* items in the corpus
  ranked,    \* those with a rank_total_score above the digest threshold
  aged,      \* those older than lookback_hours
  \* subscriber_profiles, with the subscriber, subscription and chat behind it
  eligible,  \* every condition of DUE_PROFILES but the date
  due,       \* next_digest_at is NULL or no later than now + grace
  before,    \* last_digest_at: items created before it
  \* digests and their delivery jobs
  digest,    \* digests.status, "absent" before the row is inserted
  content,   \* digest_items
  of,        \* profile_id
  job,       \* phase of the delivery job, as in DeliveryPromise
  \* memory of the flows
  pc,
  subject,   \* profile_id parameter
  outside,   \* items older than period_start
  found,     \* candidates of list_personalized
  dig,       \* digest_id
  \* history
  cut,       \* digests whose flow died between posting and scheduling
  waiting    \* no time has passed since the last round was closed, under a plan
             \* that keeps digests further apart than the grace

corpusVars == <<created, ranked, aged>>
profileVars == <<eligible, due, before>>
history == <<cut, waiting>>
digestVars == <<digest, content, of, job>>
flowVars == <<pc, subject, outside, found, dig>>
vars == <<corpusVars, profileVars, digestVars, flowVars, cut, waiting>>

Idle == "idle"
\* Between "posted" and the end the job is in the queue and the date unmoved.
AfterPosting == {"posted", "marked"}
WithDigest == {"created"} \cup AfterPosting \cup {"skipped"}
PC == {Idle, "selected", "window", "found"} \cup WithDigest

Posted(d) == job[d] # "unposted"

TypeOK ==
  /\ created \subseteq Items
  /\ ranked \subseteq created
  /\ aged \subseteq created
  /\ eligible \in [Profiles -> BOOLEAN]
  /\ due \in [Profiles -> BOOLEAN]
  /\ before \in [Profiles -> SUBSET created]
  /\ digest \in [Digests -> {"absent", "ready", "queued", "sent", "skipped"}]
  /\ content \in [Digests -> SUBSET created]
  /\ of \in [Digests -> Profiles \cup {NoProfile}]
  /\ job \in [Digests -> {"unposted", "open", "given_up", "delivered"}]
  /\ pc \in [Flows -> PC]
  /\ subject \in [Flows -> Profiles \cup {NoProfile}]
  /\ \A f \in Flows : pc[f] # Idle => subject[f] \in Profiles
  /\ outside \in [Flows -> SUBSET created]
  /\ found \in [Flows -> SUBSET created]
  /\ dig \in [Flows -> Digests \cup {NoDigest}]
  /\ \A f \in Flows : pc[f] \in WithDigest => dig[f] \in Digests
  /\ cut \subseteq Digests
  /\ waiting \in [Profiles -> BOOLEAN]

Init ==
  /\ created = {} /\ ranked = {} /\ aged = {}
  /\ eligible = [p \in Profiles |-> TRUE]
  /\ due = [p \in Profiles |-> TRUE]
  /\ before = [p \in Profiles |-> {}]
  /\ digest = [d \in Digests |-> "absent"]
  /\ content = [d \in Digests |-> {}]
  /\ of = [d \in Digests |-> NoProfile]
  /\ job = [d \in Digests |-> "unposted"]
  /\ pc = [f \in Flows |-> Idle]
  /\ subject = [f \in Flows |-> NoProfile]
  /\ outside = [f \in Flows |-> {}]
  /\ found = [f \in Flows |-> {}]
  /\ dig = [f \in Flows |-> NoDigest]
  /\ cut = {}
  /\ waiting = [p \in Profiles |-> FALSE]

-----------------------------------------------------------------------------
(* Slips: plausible mistakes, used by no action.                           *)

WishedInterval(plan, wished) == IF wished > 0 THEN wished ELSE plan
WindowByLookback(p) == aged
StatusNotMoved(d) == digest[d]

-----------------------------------------------------------------------------
(* Decisions of the code.                                                  *)

\* digest_interval_hours: a profile may ask for less often, never for more.
Largest(S) == CHOOSE n \in S : \A m \in S : m <= n
IntervalHours(plan, wished) == Largest({plan, wished, 1})

\* DUE_PROFILES.
Due(p) == eligible[p] /\ due[p]

\* period_start = max(now - lookback, last_digest_at).
Outside(p) == before[p] \cup aged

\* An empty digest is not posted.
Postable(f) == found[f] # {}

\* mark_digest_status after enqueue: WHERE id only, whatever a worker wrote.
StatusOncePosted(d) == "queued"

Active(f) == pc[f] # Idle
Busy(p) == \E f \in Flows : Active(f) /\ subject[f] = p
Unused == {d \in Digests : digest[d] = "absent"}

-----------------------------------------------------------------------------
(* The world around the dispatcher.                                        *)

\* Harvesting: an item is stored first and ranked later.
Collect(i) ==
  /\ i \in Items \ created
  /\ created' = created \cup {i}
  /\ UNCHANGED <<ranked, aged, profileVars, digestVars, flowVars, history>>

RankItem(i) ==
  /\ i \in created \ ranked
  /\ ranked' = ranked \cup {i}
  /\ UNCHANGED <<created, aged, profileVars, digestVars, flowVars, history>>

Age(i) ==
  /\ i \in created \ aged
  /\ aged' = aged \cup {i}
  /\ UNCHANGED <<created, ranked, profileVars, digestVars, flowVars, history>>

\* A pause, the end of a subscription, a ban of the bot - and the way back.
ChangeEligibility(p) ==
  /\ eligible' = [eligible EXCEPT ![p] = ~@]
  /\ UNCHANGED <<corpusVars, due, before, digestVars, flowVars, history>>

BecomeDue(p) ==
  /\ ~due[p]
  /\ due' = [due EXCEPT ![p] = TRUE]
  /\ waiting' = [waiting EXCEPT ![p] = FALSE]
  /\ UNCHANGED <<corpusVars, eligible, before, digestVars, flowVars, cut>>

\* The moves of DeliveryPromise that end or reopen a job. mark_sent closes the
\* digest together with the job.
JobDelivered(d) ==
  /\ job[d] \in {"open", "given_up"}
  /\ job' = [job EXCEPT ![d] = "delivered"]
  /\ digest' = [digest EXCEPT ![d] = "sent"]
  /\ UNCHANGED <<corpusVars, profileVars, content, of, flowVars, history>>

JobGivenUpOrReopened(d) ==
  /\ \/ job[d] = "open" /\ job' = [job EXCEPT ![d] = "given_up"]
     \/ job[d] = "given_up" /\ job' = [job EXCEPT ![d] = "open"]
  /\ UNCHANGED <<corpusVars, profileVars, digest, content, of, flowVars, history>>

-----------------------------------------------------------------------------
(* digest_dispatch_flow and subscriber_digest_flow, statement by statement.  *)

\* The run is over and its memory gone.
Leave(f) ==
  /\ pc' = [pc EXCEPT ![f] = Idle]
  /\ subject' = [subject EXCEPT ![f] = NoProfile]
  /\ outside' = [outside EXCEPT ![f] = {}]
  /\ found' = [found EXCEPT ![f] = {}]
  /\ dig' = [dig EXCEPT ![f] = NoDigest]

\* The dispatcher selects the profile; its flow may wait for the semaphore.
\* Dispatchers that run one at a time never start two flows for a profile.
Select(f, p) ==
  /\ pc[f] = Idle
  /\ Due(p)
  /\ "overlap" \in Faults \/ ~Busy(p)
  /\ pc' = [pc EXCEPT ![f] = "selected"]
  /\ subject' = [subject EXCEPT ![f] = p]
  /\ UNCHANGED <<corpusVars, profileVars, digestVars, outside, found, dig, history>>

\* PROFILE_CONTEXT: none of the conditions of DUE_PROFILES is looked at again.
ReadContext(f) ==
  /\ pc[f] = "selected"
  /\ outside' = [outside EXCEPT ![f] = Outside(subject[f])]
  /\ pc' = [pc EXCEPT ![f] = "window"]
  /\ UNCHANGED <<corpusVars, profileVars, digestVars, subject, found, dig, history>>

\* list_personalized: scores and thresholds may drop any candidate.
ListPersonalized(f) ==
  /\ pc[f] = "window"
  /\ \E C \in SUBSET (ranked \ outside[f]) :
       /\ Cardinality(C) <= MaxItems
       /\ found' = [found EXCEPT ![f] = C]
  /\ pc' = [pc EXCEPT ![f] = "found"]
  /\ UNCHANGED <<corpusVars, profileVars, digestVars, subject, outside, dig, history>>

CreateDigest(f, d) ==
  /\ pc[f] = "found" /\ d \in Unused
  /\ digest' = [digest EXCEPT ![d] = "ready"]
  /\ content' = [content EXCEPT ![d] = found[f]]
  /\ of' = [of EXCEPT ![d] = subject[f]]
  /\ dig' = [dig EXCEPT ![f] = d]
  /\ pc' = [pc EXCEPT ![f] = "created"]
  /\ UNCHANGED <<corpusVars, profileVars, job, subject, outside, found, history>>

MarkSkipped(f) ==
  /\ pc[f] = "created" /\ ~Postable(f)
  /\ digest' = [digest EXCEPT ![dig[f]] = "skipped"]
  /\ pc' = [pc EXCEPT ![f] = "skipped"]
  /\ UNCHANGED <<corpusVars, profileVars, content, of, job, subject, outside, found, dig, history>>

\* deliver=False: the digest stays 'ready' and the date where it was.
EndDryRun(f) ==
  /\ pc[f] = "created" /\ Postable(f)
  /\ Leave(f)
  /\ UNCHANGED <<corpusVars, profileVars, digestVars, history>>

\* render_digest and enqueue: from here the workers may send it. The row is the
\* flow's own, so ON CONFLICT (digest_id, ...) finds no job.
PostJob(f) ==
  /\ pc[f] = "created" /\ Postable(f)
  /\ job' = [job EXCEPT ![dig[f]] = "open"]
  /\ pc' = [pc EXCEPT ![f] = "posted"]
  /\ UNCHANGED <<corpusVars, profileVars, digest, content, of, subject, outside, found, dig, history>>

MarkQueued(f) ==
  /\ pc[f] = "posted"
  /\ digest' = [digest EXCEPT ![dig[f]] = StatusOncePosted(dig[f])]
  /\ pc' = [pc EXCEPT ![f] = "marked"]
  /\ UNCHANGED <<corpusVars, profileVars, content, of, job, subject, outside, found, dig, history>>

\* SCHEDULE_NEXT, with the plan and the wish PROFILE_CONTEXT has read. The next
\* date may already lie within the grace period.
ScheduleNext(f) ==
  /\ pc[f] \in {"skipped", "marked"}
  /\ \E plan \in Plans, wished \in Wishes :
       LET p == subject[f] IN
       /\ before' = [before EXCEPT ![p] = created]
       /\ due' = [due EXCEPT ![p] = IntervalHours(plan, wished) * 60 <= GraceMinutes]
       /\ waiting' = [waiting EXCEPT ![p] = plan * 60 > GraceMinutes]
  /\ Leave(f)
  /\ UNCHANGED <<corpusVars, eligible, digestVars, cut>>

\* An exception anywhere in the flow, or the death of its process.
FlowDies(f) ==
  /\ Active(f) /\ "flow_dies" \in Faults
  /\ Leave(f)
  /\ cut' = IF pc[f] \in AfterPosting THEN cut \cup {dig[f]} ELSE cut
  /\ UNCHANGED <<corpusVars, profileVars, digestVars, waiting>>

-----------------------------------------------------------------------------
FlowStep(f) ==
  \/ \E p \in Profiles : Select(f, p)
  \/ ReadContext(f)
  \/ ListPersonalized(f)
  \/ \E d \in Digests : CreateDigest(f, d)
  \/ MarkSkipped(f)
  \/ EndDryRun(f)
  \/ PostJob(f)
  \/ MarkQueued(f)
  \/ ScheduleNext(f)
  \/ FlowDies(f)

Next ==
  \/ \E f \in Flows : FlowStep(f)
  \/ \E i \in Items : Collect(i) \/ RankItem(i) \/ Age(i)
  \/ \E p \in Profiles : ChangeEligibility(p) \/ BecomeDue(p)
  \/ \E d \in Digests : JobDelivered(d) \/ JobGivenUpOrReopened(d)

Spec == Init /\ [][Next]_vars

-----------------------------------------------------------------------------
(* Properties.                                                             *)

\* There is no list of what was already sent: last_digest_at is the only guard
\* against repeats. With dispatchers run one at a time two posted digests of a
\* profile share an item only if one of their flows died after posting and
\* before moving the date - whatever happens to items, jobs and dry runs.
RepeatsHaveCause ==
  "overlap" \notin Faults =>
    \A d, e \in Digests :
      /\ d # e /\ Posted(d) /\ Posted(e) /\ of[d] = of[e]
      /\ content[d] \cap content[e] # {}
      => d \in cut \/ e \in cut

\* digests.status can be trusted this far: sent means delivered, skipped means
\* nothing to send, and a posted digest is left 'ready' only by a flow still
\* under way or cut off.
StatusTellsJob ==
  \A d \in Digests :
    /\ digest[d] = "sent" => job[d] = "delivered"
    /\ digest[d] = "skipped" => job[d] = "unposted" /\ content[d] = {}
    /\ Posted(d) /\ digest[d] = "ready" =>
         d \in cut \/ \E f \in Flows : pc[f] = "posted" /\ dig[f] = d

\* With dispatchers run one at a time the grace period and the wishes of a
\* profile make no second digest of one interval: after a round is closed under
\* a plan that keeps digests further apart than the grace, none is posted until
\* time has passed - however flows, pauses and dry runs follow each other. Under
\* a shorter plan the profile is due again at once, and only RepeatsHaveCause is
\* left to it (dispatch_queries.py:54).
OneDigestPerInterval ==
  [][\A f \in Flows :
       /\ "overlap" \notin Faults
       /\ pc[f] = "created" /\ pc'[f] = "posted"
       => ~waiting[subject[f]]]_vars

-----------------------------------------------------------------------------
(* The queue, seen from here: digests without blocks, jobs without workers. *)

Queue == INSTANCE DeliveryPromise WITH
  Jobs <- Digests, Blocks <- {}, Rehearsed <- {},
  phase <- job, shown <- [d \in Digests |-> {}]

\* The flows and what goes on around them move the jobs only as the queue's
\* promise allows: a digest is posted once, however flows overlap or die, and
\* what was delivered is left alone.
JobsMoveAsPromised == Queue!Spec
=============================================================================
