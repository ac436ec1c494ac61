--------------------------- MODULE DispatchProofs ---------------------------
(***************************************************************************)
(* Theorems about Dispatch for any number of profiles, items, digests and   *)
(* flows.                                                                  *)
(***************************************************************************)
EXTENDS Dispatch, TLAPS

-----------------------------------------------------------------------------
(* Type correctness.                                                       *)

LEMMA TypeInit == Init => TypeOK
  BY DispatchAssumption DEF Init, TypeOK, PC, Idle, WithDigest, AfterPosting

LEMMA TypeFlowStep ==
  ASSUME TypeOK, NEW f \in Flows, FlowStep(f)
  PROVE  TypeOK'
<1> USE DispatchAssumption
        DEF TypeOK, PC, Idle, WithDigest, AfterPosting, corpusVars, profileVars, digestVars, history
<1>1. ASSUME NEW p \in Profiles, Select(f, p) PROVE TypeOK'
  BY <1>1 DEF Select
<1>2. CASE ReadContext(f)
  BY <1>2 DEF ReadContext, Outside
<1>3. CASE ListPersonalized(f)
  <2>1. PICK C \in SUBSET (ranked \ outside[f]) : found' = [found EXCEPT ![f] = C]
    BY <1>3 DEF ListPersonalized
  <2> QED
    BY <1>3, <2>1 DEF ListPersonalized
<1>4. ASSUME NEW d \in Digests, CreateDigest(f, d) PROVE TypeOK'
  BY <1>4 DEF CreateDigest, Unused
<1>5. CASE MarkSkipped(f)
  BY <1>5 DEF MarkSkipped
<1>6. CASE EndDryRun(f)
  BY <1>6 DEF EndDryRun, Leave
<1>7. CASE PostJob(f)
  BY <1>7 DEF PostJob
<1>8. CASE MarkQueued(f)
  BY <1>8 DEF MarkQueued, StatusOncePosted
<1>9. CASE ScheduleNext(f)
  <2>1. PICK plan \in Plans, wished \in Wishes :
          /\ due' = [due EXCEPT ![subject[f]] = IntervalHours(plan, wished) * 60 <= GraceMinutes]
          /\ waiting' = [waiting EXCEPT ![subject[f]] = plan * 60 > GraceMinutes]
    BY <1>9 DEF ScheduleNext
  <2> QED
    BY <1>9, <2>1 DEF ScheduleNext, Leave
<1>10. CASE FlowDies(f)
  BY <1>10 DEF FlowDies, Active, Leave
<1> QED
  BY <1>1, <1>2, <1>3, <1>4, <1>5, <1>6, <1>7, <1>8, <1>9, <1>10 DEF FlowStep

LEMMA TypeNext == TypeOK /\ [Next]_vars => TypeOK'
<1> SUFFICES ASSUME TypeOK, [Next]_vars PROVE TypeOK'
  OBVIOUS
<1> USE DispatchAssumption DEF TypeOK
<1>1. ASSUME NEW f \in Flows, FlowStep(f) PROVE TypeOK'
  BY <1>1, TypeFlowStep
<1>2. ASSUME NEW i \in Items, Collect(i) PROVE TypeOK'
  BY <1>2 DEF Collect, profileVars, digestVars, flowVars, history
<1>3. ASSUME NEW i \in Items, RankItem(i) \/ Age(i) PROVE TypeOK'
  BY <1>3 DEF RankItem, Age, profileVars, digestVars, flowVars, history
<1>4. ASSUME NEW p \in Profiles, ChangeEligibility(p) \/ BecomeDue(p) PROVE TypeOK'
  BY <1>4 DEF ChangeEligibility, BecomeDue, corpusVars, digestVars, flowVars, history
<1>5. ASSUME NEW d \in Digests, JobDelivered(d) PROVE TypeOK'
  BY <1>5 DEF JobDelivered, corpusVars, profileVars, flowVars, history
<1>6. ASSUME NEW d \in Digests, JobGivenUpOrReopened(d) PROVE TypeOK'
  BY <1>6 DEF JobGivenUpOrReopened, corpusVars, profileVars, flowVars, history
<1>7. CASE UNCHANGED vars
  BY <1>7 DEF vars, corpusVars, profileVars, digestVars, flowVars
<1> QED
  BY <1>1, <1>2, <1>3, <1>4, <1>5, <1>6, <1>7 DEF Next

\* Every variable keeps its type, whatever the constants.
THEOREM TypeCorrect == Spec => []TypeOK
  BY TypeInit, TypeNext, PTL DEF Spec

-----------------------------------------------------------------------------
(* No repeats.                                                             *)

\* Inductive, with dispatchers run one at a time: a profile has one flow, what
\* that flow selects lies outside everything before last_digest_at, and a
\* posted digest is inside it unless its flow is about to move the date or has
\* been cut off.
OneFlow ==
  \A f, g \in Flows : Active(f) /\ Active(g) /\ subject[f] = subject[g] => f = g

WindowAhead ==
  \A f \in Flows :
    /\ pc[f] \in PC \ {Idle, "selected"} => before[subject[f]] \subseteq outside[f]
    /\ pc[f] \in {"found"} \cup WithDigest => found[f] \cap outside[f] = {}

OwnDigest ==
  /\ \A d \in Digests : digest[d] = "absent" => ~Posted(d)
  /\ \A f \in Flows : pc[f] \in WithDigest =>
       /\ digest[dig[f]] # "absent"
       /\ of[dig[f]] = subject[f] /\ content[dig[f]] = found[f]
  /\ \A f, g \in Flows : pc[f] \in WithDigest /\ pc[g] \in WithDigest /\ dig[f] = dig[g] => f = g

PostedIsPast ==
  \A d \in Digests : Posted(d) =>
    \/ d \in cut
    \/ of[d] \in Profiles /\ content[d] \subseteq before[of[d]]
    \/ \E f \in Flows : pc[f] \in AfterPosting /\ dig[f] = d

NoRepeat ==
  \A d, e \in Digests :
    /\ d # e /\ Posted(d) /\ Posted(e) /\ of[d] = of[e]
    /\ content[d] \cap content[e] # {}
    => d \in cut \/ e \in cut

RepeatInv ==
  "overlap" \notin Faults => OneFlow /\ WindowAhead /\ OwnDigest /\ PostedIsPast /\ NoRepeat

LEMMA RepeatInit == Init => RepeatInv
  BY DEF Init, RepeatInv, OneFlow, WindowAhead, OwnDigest, PostedIsPast, NoRepeat,
         Active, Posted, WithDigest, AfterPosting, PC, Idle

\* What the steps outside the flows leave alone is enough for the invariant.
LEMMA RepeatOutside ==
  ASSUME TypeOK, RepeatInv, UNCHANGED <<before, content, of, flowVars, cut>>,
         \A d \in Digests : Posted(d)' <=> Posted(d),
         \A d \in Digests : digest'[d] = "absent" <=> digest[d] = "absent"
  PROVE  RepeatInv'
<1> SUFFICES ASSUME "overlap" \notin Faults PROVE RepeatInv'
  BY DEF RepeatInv
<1>1. UNCHANGED <<pc, subject, outside, found, dig>>
  BY DEF flowVars
<1>2. OneFlow' /\ WindowAhead'
  BY <1>1 DEF RepeatInv, OneFlow, WindowAhead, Active
<1>3. OwnDigest'
  BY <1>1 DEF RepeatInv, OwnDigest, TypeOK
<1>4. PostedIsPast'
  BY <1>1 DEF RepeatInv, PostedIsPast
<1>5. NoRepeat'
  BY <1>1 DEF RepeatInv, NoRepeat
<1> QED
  BY <1>2, <1>3, <1>4, <1>5 DEF RepeatInv

LEMMA RepeatFlowStep ==
  ASSUME TypeOK, RepeatInv, NEW f \in Flows, FlowStep(f)
  PROVE  RepeatInv'
<1> SUFFICES ASSUME "overlap" \notin Faults PROVE RepeatInv'
  BY DEF RepeatInv
<1> USE DispatchAssumption
        DEF TypeOK, RepeatInv, PC, Idle, WithDigest, AfterPosting, corpusVars, profileVars, digestVars,
            history
<1>1. ASSUME NEW p \in Profiles, Select(f, p) PROVE RepeatInv'
  BY <1>1 DEF Select, Busy, Active, OneFlow, WindowAhead, OwnDigest, PostedIsPast, NoRepeat, Posted
<1>2. CASE ReadContext(f)
  BY <1>2 DEF ReadContext, Outside, Active, OneFlow, WindowAhead, OwnDigest, PostedIsPast, NoRepeat, Posted
<1>3. CASE ListPersonalized(f)
  <2>1. PICK C \in SUBSET (ranked \ outside[f]) : found' = [found EXCEPT ![f] = C]
    BY <1>3 DEF ListPersonalized
  <2> QED
    BY <1>3, <2>1 DEF ListPersonalized, Active, OneFlow, WindowAhead, OwnDigest, PostedIsPast, NoRepeat, Posted
<1>4. ASSUME NEW d \in Digests, CreateDigest(f, d) PROVE RepeatInv'
  BY <1>4 DEF CreateDigest, Unused, Active, OneFlow, WindowAhead, OwnDigest, PostedIsPast, NoRepeat, Posted
<1>5. CASE MarkSkipped(f)
  BY <1>5 DEF MarkSkipped, Active, OneFlow, WindowAhead, OwnDigest, PostedIsPast, NoRepeat, Posted
<1>6. CASE EndDryRun(f)
  BY <1>6 DEF EndDryRun, Leave, Active, OneFlow, WindowAhead, OwnDigest, PostedIsPast, NoRepeat, Posted
<1>7. CASE PostJob(f)
  <2>1. OneFlow' /\ WindowAhead' /\ OwnDigest' /\ PostedIsPast'
    BY <1>7 DEF PostJob, Active, OneFlow, WindowAhead, OwnDigest, PostedIsPast, Posted
  <2>2. ASSUME NEW e \in Digests, e # dig[f], Posted(e), of[e] = subject[f], e \notin cut
        PROVE  content[e] \cap content[dig[f]] = {}
    <3>1. \A g \in Flows : ~(pc[g] \in AfterPosting /\ dig[g] = e)
      BY <1>7, <2>2 DEF PostJob, OneFlow, OwnDigest, Active
    <3>2. content[e] \subseteq before[subject[f]]
      BY <2>2, <3>1 DEF PostedIsPast
    <3>3. content[dig[f]] \cap before[subject[f]] = {}
      BY <1>7 DEF PostJob, WindowAhead, OwnDigest
    <3> QED
      BY <3>2, <3>3
  <2>3. of[dig[f]] = subject[f]
    BY <1>7 DEF PostJob, OwnDigest
  <2>4. /\ UNCHANGED <<content, of, cut>>
        /\ \A d \in Digests \ {dig[f]} : Posted(d)' <=> Posted(d)
    BY <1>7 DEF PostJob, Posted
  <2>5. NoRepeat'
    BY <2>2, <2>3, <2>4 DEF NoRepeat
  <2> QED
    BY <2>1, <2>5
<1>8. CASE MarkQueued(f)
  BY <1>8 DEF MarkQueued, StatusOncePosted, Active, OneFlow, WindowAhead, OwnDigest, PostedIsPast, NoRepeat, Posted
<1>9. CASE ScheduleNext(f)
  <2>1. \A g \in Flows \ {f} : Active(g) => subject[g] # subject[f]
    BY <1>9 DEF ScheduleNext, OneFlow, Active
  <2> QED
    BY <1>9, <2>1 DEF ScheduleNext, Leave, Active, OneFlow, WindowAhead, OwnDigest, PostedIsPast, NoRepeat, Posted
<1>10. CASE FlowDies(f)
  BY <1>10 DEF FlowDies, Leave, Active, OneFlow, WindowAhead, OwnDigest, PostedIsPast, NoRepeat, Posted
<1> QED
  BY <1>1, <1>2, <1>3, <1>4, <1>5, <1>6, <1>7, <1>8, <1>9, <1>10 DEF FlowStep

LEMMA RepeatNext == TypeOK /\ RepeatInv /\ [Next]_vars => RepeatInv'
<1> SUFFICES ASSUME TypeOK, RepeatInv, [Next]_vars PROVE RepeatInv'
  OBVIOUS
<1>1. ASSUME NEW f \in Flows, FlowStep(f) PROVE RepeatInv'
  BY <1>1, RepeatFlowStep
<1>2. ASSUME NEW i \in Items, Collect(i) \/ RankItem(i) \/ Age(i) PROVE RepeatInv'
  BY <1>2, RepeatOutside DEF Collect, RankItem, Age, profileVars, digestVars, history, Posted
<1>3. ASSUME NEW p \in Profiles, ChangeEligibility(p) \/ BecomeDue(p) PROVE RepeatInv'
  BY <1>3, RepeatOutside DEF ChangeEligibility, BecomeDue, digestVars, history, Posted
<1>4. ASSUME NEW d \in Digests, JobDelivered(d) \/ JobGivenUpOrReopened(d) PROVE RepeatInv'
  <2>1. \A e \in Digests : Posted(e)' <=> Posted(e)
    BY <1>4 DEF JobDelivered, JobGivenUpOrReopened, Posted, TypeOK
  <2>2. "overlap" \notin Faults => \A e \in Digests : digest'[e] = "absent" <=> digest[e] = "absent"
    BY <1>4 DEF JobDelivered, JobGivenUpOrReopened, TypeOK, RepeatInv, OwnDigest, Posted
  <2>3. UNCHANGED <<before, content, of, flowVars, cut>>
    BY <1>4 DEF JobDelivered, JobGivenUpOrReopened, profileVars, history
  <2> QED
    BY <2>1, <2>2, <2>3, RepeatOutside DEF RepeatInv
<1>5. CASE UNCHANGED vars
  BY <1>5, RepeatOutside DEF vars, profileVars, digestVars, Posted
<1> QED
  BY <1>1, <1>2, <1>3, <1>4, <1>5 DEF Next

\* With dispatchers run one at a time no item is posted to a profile twice,
\* unless a flow died between posting and moving the date: for any number of
\* profiles, items, rounds, dry runs, pauses and retried deliveries.
THEOREM RepeatsAlwaysHaveCause == Spec => []RepeatsHaveCause
<1>1. RepeatInv => RepeatsHaveCause
  BY DEF RepeatInv, NoRepeat, RepeatsHaveCause
<1> QED
  BY <1>1, RepeatInit, RepeatNext, TypeCorrect, PTL DEF Spec

-----------------------------------------------------------------------------
(* What the status of a digest tells.                                      *)

\* Inductive: a flow knows its digest alone, and what it has not posted yet is
\* neither in the queue nor closed.
FreshDigest ==
  \A f \in Flows : pc[f] = "created" => digest[dig[f]] = "ready" /\ ~Posted(dig[f])

StatusInv == OwnDigest /\ FreshDigest /\ StatusTellsJob

LEMMA StatusInit == Init => StatusInv
  BY DEF Init, StatusInv, OwnDigest, FreshDigest, StatusTellsJob, Posted, WithDigest, AfterPosting, Idle

\* A step of a flow, or beside all flows, that touches no digest.
LEMMA StatusStays ==
  ASSUME TypeOK, StatusInv, UNCHANGED <<digest, content, of, job>>, cut \subseteq cut',
         \A f \in Flows :
           \/ /\ pc'[f] = pc[f] /\ dig'[f] = dig[f]
              /\ pc[f] \in WithDigest => subject'[f] = subject[f] /\ found'[f] = found[f]
           \/ pc'[f] \notin WithDigest /\ (pc[f] = "posted" => dig[f] \in cut')
  PROVE  StatusInv'
<1>1. ASSUME NEW f \in Flows, pc'[f] \in WithDigest
      PROVE  /\ pc[f] = pc'[f] /\ dig'[f] = dig[f]
             /\ subject'[f] = subject[f] /\ found'[f] = found[f]
  BY <1>1
<1>2. OwnDigest'
  BY <1>1 DEF StatusInv, OwnDigest, Posted
<1>3. FreshDigest'
  BY <1>1 DEF StatusInv, FreshDigest, Posted, WithDigest
<1>4. StatusTellsJob'
  <2>1. ASSUME NEW d \in Digests, Posted(d), digest[d] = "ready"
        PROVE  d \in cut' \/ \E f \in Flows : pc'[f] = "posted" /\ dig'[f] = d
    BY <2>1 DEF StatusInv, StatusTellsJob
  <2> QED BY <2>1 DEF StatusInv, StatusTellsJob, Posted
<1> QED BY <1>2, <1>3, <1>4 DEF StatusInv

LEMMA StatusFlowStep ==
  ASSUME TypeOK, StatusInv, NEW f \in Flows, FlowStep(f)
  PROVE  StatusInv'
<1> USE DEF WithDigest, AfterPosting, Idle, history
<1>0. pc[f] \in WithDigest =>
        /\ dig[f] \in Digests /\ digest[dig[f]] # "absent"
        /\ of[dig[f]] = subject[f] /\ content[dig[f]] = found[f]
        /\ \A g \in Flows \ {f} : pc[g] \in WithDigest => dig[g] # dig[f]
  BY DEF TypeOK, StatusInv, OwnDigest
<1>1. ASSUME NEW p \in Profiles, Select(f, p) PROVE StatusInv'
  BY <1>1, StatusStays DEF Select, digestVars, TypeOK
<1>2. CASE ReadContext(f)
  BY <1>2, StatusStays DEF ReadContext, digestVars, TypeOK
<1>3. CASE ListPersonalized(f)
  <2>1. PICK C \in SUBSET created : found' = [found EXCEPT ![f] = C]
    BY <1>3 DEF ListPersonalized, TypeOK
  <2> QED BY <1>3, <2>1, StatusStays DEF ListPersonalized, digestVars, TypeOK
<1>4. ASSUME NEW d \in Digests, CreateDigest(f, d) PROVE StatusInv'
  <2>1. /\ digest[d] = "absent" /\ job[d] = "unposted" /\ pc[f] = "found"
        /\ digest' = [digest EXCEPT ![d] = "ready"] /\ content' = [content EXCEPT ![d] = found[f]]
        /\ of' = [of EXCEPT ![d] = subject[f]] /\ dig' = [dig EXCEPT ![f] = d]
        /\ pc' = [pc EXCEPT ![f] = "created"] /\ UNCHANGED <<job, subject, found, cut>>
    BY <1>4 DEF CreateDigest, Unused, StatusInv, OwnDigest, Posted
  <2>2. \A g \in Flows : pc[g] \in WithDigest => dig[g] # d
    BY <2>1 DEF StatusInv, OwnDigest
  <2>3. OwnDigest'
    BY <2>1, <2>2 DEF StatusInv, OwnDigest, Posted, TypeOK
  <2>4. FreshDigest'
    BY <2>1, <2>2 DEF StatusInv, FreshDigest, Posted, TypeOK
  <2>5. StatusTellsJob'
    BY <2>1 DEF StatusInv, StatusTellsJob, Posted, TypeOK
  <2> QED BY <2>3, <2>4, <2>5 DEF StatusInv
<1>5. CASE MarkSkipped(f)
  <2>1. /\ pc[f] = "created" /\ found[f] = {} /\ digest' = [digest EXCEPT ![dig[f]] = "skipped"]
        /\ pc' = [pc EXCEPT ![f] = "skipped"]
        /\ UNCHANGED <<content, of, job, subject, found, dig, cut>>
    BY <1>5 DEF MarkSkipped, Postable
  <2>2. job[dig[f]] = "unposted" /\ content[dig[f]] = {}
    BY <1>0, <2>1 DEF StatusInv, FreshDigest, Posted
  <2>3. OwnDigest'
    BY <2>1 DEF StatusInv, OwnDigest, Posted, TypeOK
  <2>4. FreshDigest'
    BY <1>0, <2>1 DEF StatusInv, FreshDigest, Posted, TypeOK
  <2>5. StatusTellsJob'
    BY <2>1, <2>2 DEF StatusInv, StatusTellsJob, Posted, TypeOK
  <2> QED BY <2>3, <2>4, <2>5 DEF StatusInv
<1>6. CASE EndDryRun(f)
  BY <1>6, StatusStays DEF EndDryRun, Leave, digestVars, TypeOK
<1>7. CASE PostJob(f)
  <2>1. /\ pc[f] = "created" /\ job' = [job EXCEPT ![dig[f]] = "open"]
        /\ pc' = [pc EXCEPT ![f] = "posted"]
        /\ UNCHANGED <<digest, content, of, subject, found, dig, cut>>
    BY <1>7 DEF PostJob
  <2>2. digest[dig[f]] = "ready"
    BY <2>1 DEF StatusInv, FreshDigest
  <2>3. OwnDigest'
    BY <1>0, <2>1 DEF StatusInv, OwnDigest, Posted, TypeOK
  <2>4. FreshDigest'
    BY <1>0, <2>1 DEF StatusInv, FreshDigest, Posted, TypeOK
  <2>5. StatusTellsJob'
    BY <1>0, <2>1, <2>2 DEF StatusInv, StatusTellsJob, Posted, TypeOK
  <2> QED BY <2>3, <2>4, <2>5 DEF StatusInv
<1>8. CASE MarkQueued(f)
  <2>1. /\ pc[f] = "posted" /\ digest' = [digest EXCEPT ![dig[f]] = "queued"]
        /\ pc' = [pc EXCEPT ![f] = "marked"]
        /\ UNCHANGED <<content, of, job, subject, found, dig, cut>>
    BY <1>8 DEF MarkQueued, StatusOncePosted
  <2>2. OwnDigest'
    BY <1>0, <2>1 DEF StatusInv, OwnDigest, Posted, TypeOK
  <2>3. FreshDigest'
    BY <1>0, <2>1 DEF StatusInv, FreshDigest, Posted, TypeOK
  <2>4. StatusTellsJob'
    BY <1>0, <2>1 DEF StatusInv, StatusTellsJob, Posted, TypeOK
  <2> QED BY <2>2, <2>3, <2>4 DEF StatusInv
<1>9. CASE ScheduleNext(f)
  BY <1>9, StatusStays DEF ScheduleNext, Leave, digestVars, TypeOK
<1>10. CASE FlowDies(f)
  <2>1. cut \subseteq cut' /\ (pc[f] = "posted" => dig[f] \in cut')
    BY <1>10 DEF FlowDies
  <2> QED BY <1>10, <2>1, StatusStays DEF FlowDies, Leave, digestVars, TypeOK
<1> QED
  BY <1>1, <1>2, <1>3, <1>4, <1>5, <1>6, <1>7, <1>8, <1>9, <1>10 DEF FlowStep

LEMMA StatusNext == TypeOK /\ StatusInv /\ [Next]_vars => StatusInv'
<1> SUFFICES ASSUME TypeOK, StatusInv, [Next]_vars PROVE StatusInv'
  OBVIOUS
<1>1. ASSUME NEW f \in Flows, FlowStep(f) PROVE StatusInv'
  BY <1>1, StatusFlowStep
<1>2. ASSUME UNCHANGED <<digestVars, flowVars, cut>> PROVE StatusInv'
  BY <1>2, StatusStays DEF digestVars, flowVars
<1>3. ASSUME NEW i \in Items, Collect(i) \/ RankItem(i) \/ Age(i) PROVE StatusInv'
  BY <1>2, <1>3 DEF Collect, RankItem, Age, history
<1>4. ASSUME NEW p \in Profiles, ChangeEligibility(p) \/ BecomeDue(p) PROVE StatusInv'
  BY <1>2, <1>4 DEF ChangeEligibility, BecomeDue, history
<1>5. ASSUME NEW d \in Digests, JobDelivered(d) \/ JobGivenUpOrReopened(d) PROVE StatusInv'
  <2>1. /\ job[d] \in {"open", "given_up"} /\ UNCHANGED <<content, of, cut>>
        /\ \/ digest' = digest /\ job' \in {[job EXCEPT ![d] = "open"], [job EXCEPT ![d] = "given_up"]}
           \/ digest' = [digest EXCEPT ![d] = "sent"] /\ job' = [job EXCEPT ![d] = "delivered"]
    BY <1>5 DEF JobDelivered, JobGivenUpOrReopened, history
  <2>2. UNCHANGED <<pc, subject, found, dig>>
    BY <1>5 DEF JobDelivered, JobGivenUpOrReopened, flowVars
  <2>3. \A e \in Digests : /\ Posted(e)' <=> Posted(e)
                           /\ digest'[e] = "absent" <=> digest[e] = "absent"
    BY <2>1 DEF StatusInv, OwnDigest, Posted, TypeOK
  <2>4. OwnDigest'
    BY <2>1, <2>2, <2>3 DEF StatusInv, OwnDigest, TypeOK
  <2>5. FreshDigest'
    BY <2>1, <2>2, <2>3 DEF StatusInv, FreshDigest, Posted, TypeOK, WithDigest
  <2>6. StatusTellsJob'
    BY <2>1, <2>2 DEF StatusInv, StatusTellsJob, Posted, TypeOK
  <2> QED BY <2>4, <2>5, <2>6 DEF StatusInv
<1>6. CASE UNCHANGED vars
  BY <1>2, <1>6 DEF vars
<1> QED
  BY <1>1, <1>3, <1>4, <1>5, <1>6 DEF Next

\* Sent means delivered, skipped means empty and never posted, and a posted
\* digest stays 'ready' only under a flow still at work or one that was cut
\* off - with dispatchers that overlap as well.
THEOREM StatusIsHonest == Spec => []StatusTellsJob
<1>1. StatusInv => StatusTellsJob
  BY DEF StatusInv
<1> QED
  BY <1>1, StatusInit, StatusNext, TypeCorrect, PTL DEF Spec

-----------------------------------------------------------------------------
(* The next date.                                                          *)

\* A profile may ask for fewer digests than its plan gives, not for more.
LEMMA IntervalIsPlans ==
  ASSUME NEW plan \in Plans, NEW wished \in Wishes
  PROVE  IntervalHours(plan, wished) \in Nat /\ IntervalHours(plan, wished) >= plan
<1> DEFINE S == {plan, wished, 1}
<1>1. plan \in Nat /\ wished \in Nat BY DispatchAssumption
<1>2. \E n \in S : \A m \in S : m <= n
  <2>1. CASE plan >= wished /\ plan >= 1 BY <1>1, <2>1
  <2>2. CASE wished >= plan /\ wished >= 1 BY <1>1, <2>2
  <2> QED BY <1>1, <2>1, <2>2, DispatchAssumption
<1>3. IntervalHours(plan, wished) \in S /\ \A m \in S : m <= IntervalHours(plan, wished)
  BY <1>2 DEF IntervalHours, Largest
<1> QED BY <1>1, <1>3

\* Inductive: a profile that waits is not in the selection and has no flow.
WaitInv ==
  "overlap" \notin Faults =>
    \A p \in Profiles : waiting[p] => ~due[p] /\ ~Busy(p)

\* Flows that end or go on make nobody busy, and nothing begins to wait.
LEMMA WaitStays ==
  ASSUME TypeOK, WaitInv,
         \A p \in Profiles : waiting'[p] => waiting[p] /\ due'[p] = due[p],
         \A f \in Flows : pc'[f] # Idle => pc[f] # Idle /\ subject'[f] = subject[f]
  PROVE  WaitInv'
<1>1. ASSUME NEW p \in Profiles, ~Busy(p) PROVE ~Busy(p)'
  BY <1>1 DEF Busy, Active
<1> QED BY <1>1 DEF WaitInv

LEMMA WaitFlowStep ==
  ASSUME TypeOK, RepeatInv, WaitInv, NEW f \in Flows, FlowStep(f)
  PROVE  WaitInv'
<1> USE DEF profileVars, history, TypeOK, Idle
<1>1. ASSUME NEW p \in Profiles, Select(f, p) PROVE WaitInv'
  <2>1. /\ due[p] /\ UNCHANGED <<due, waiting>>
        /\ \A q \in Profiles \ {p} : Busy(q)' => Busy(q)
    BY <1>1 DEF Select, Due, Busy, Active
  <2> QED BY <2>1 DEF WaitInv
<1>2. CASE ReadContext(f) BY <1>2, WaitStays DEF ReadContext
<1>3. CASE ListPersonalized(f) BY <1>3, WaitStays DEF ListPersonalized
<1>4. ASSUME NEW d \in Digests, CreateDigest(f, d) PROVE WaitInv'
  BY <1>4, WaitStays DEF CreateDigest
<1>5. CASE MarkSkipped(f) BY <1>5, WaitStays DEF MarkSkipped
<1>6. CASE EndDryRun(f) BY <1>6, WaitStays DEF EndDryRun, Leave
<1>7. CASE PostJob(f) BY <1>7, WaitStays DEF PostJob
<1>8. CASE MarkQueued(f) BY <1>8, WaitStays DEF MarkQueued
<1>9. CASE ScheduleNext(f)
  <2> SUFFICES ASSUME "overlap" \notin Faults, NEW p \in Profiles, waiting'[p]
               PROVE  ~due'[p] /\ ~Busy(p)'
    BY DEF WaitInv
  <2>1. /\ pc[f] # Idle /\ subject[f] \in Profiles
        /\ pc' = [pc EXCEPT ![f] = Idle] /\ subject' = [subject EXCEPT ![f] = NoProfile]
    BY <1>9 DEF ScheduleNext, Leave
  <2>2. PICK plan \in Plans, wished \in Wishes :
          /\ due' = [due EXCEPT ![subject[f]] = IntervalHours(plan, wished) * 60 <= GraceMinutes]
          /\ waiting' = [waiting EXCEPT ![subject[f]] = plan * 60 > GraceMinutes]
    BY <1>9 DEF ScheduleNext
  <2>3. CASE p = subject[f]
    <3>1. plan * 60 > GraceMinutes BY <2>1, <2>2, <2>3
    <3>2. ~(IntervalHours(plan, wished) * 60 <= GraceMinutes)
      BY <3>1, IntervalIsPlans, DispatchAssumption
    <3>3. ~due'[p] BY <2>1, <2>2, <2>3, <3>2
    <3>4. \A g \in Flows \ {f} : Active(g) => subject[g] # p
      BY <2>1, <2>3 DEF RepeatInv, OneFlow, Active
    <3>5. ~Busy(p)' BY <2>1, <3>4 DEF Busy, Active
    <3> QED BY <3>3, <3>5
  <2>4. CASE p # subject[f]
    <3>1. waiting[p] /\ due'[p] = due[p] BY <2>1, <2>2, <2>4
    <3>2. ~due[p] /\ ~Busy(p) BY <3>1 DEF WaitInv
    <3>3. ~Busy(p)' BY <2>1, <3>2 DEF Busy, Active
    <3> QED BY <3>1, <3>2, <3>3
  <2> QED BY <2>3, <2>4
<1>10. CASE FlowDies(f) BY <1>10, WaitStays DEF FlowDies, Leave
<1> QED
  BY <1>1, <1>2, <1>3, <1>4, <1>5, <1>6, <1>7, <1>8, <1>9, <1>10 DEF FlowStep

LEMMA WaitNext == TypeOK /\ RepeatInv /\ WaitInv /\ [Next]_vars => WaitInv'
<1> SUFFICES ASSUME TypeOK, RepeatInv, WaitInv, [Next]_vars PROVE WaitInv'
  OBVIOUS
<1> USE DEF profileVars, flowVars, history
<1>1. ASSUME NEW f \in Flows, FlowStep(f) PROVE WaitInv'
  BY <1>1, WaitFlowStep
<1>2. ASSUME NEW i \in Items, Collect(i) \/ RankItem(i) \/ Age(i) PROVE WaitInv'
  BY <1>2, WaitStays DEF Collect, RankItem, Age
<1>3. ASSUME NEW p \in Profiles, ChangeEligibility(p) PROVE WaitInv'
  BY <1>3, WaitStays DEF ChangeEligibility
<1>4. ASSUME NEW p \in Profiles, BecomeDue(p) PROVE WaitInv'
  BY <1>4, WaitStays DEF BecomeDue, TypeOK
<1>5. ASSUME NEW d \in Digests, JobDelivered(d) \/ JobGivenUpOrReopened(d) PROVE WaitInv'
  BY <1>5, WaitStays DEF JobDelivered, JobGivenUpOrReopened
<1>6. CASE UNCHANGED vars
  BY <1>6, WaitStays DEF vars
<1> QED
  BY <1>1, <1>2, <1>3, <1>4, <1>5, <1>6 DEF Next

\* With dispatchers run one at a time a subscriber gets one digest per interval
\* of a plan that exceeds the grace: once a round is closed none is posted until
\* time has passed, whatever interval the profile asks for and however flows,
\* pauses and dry runs follow each other.
THEOREM DigestsKeepTheInterval == Spec => OneDigestPerInterval
<1>1. Init => WaitInv
  BY DEF Init, WaitInv
<1>2. ASSUME TypeOK, WaitInv, [Next]_vars, NEW f \in Flows, "overlap" \notin Faults,
             pc[f] = "created"
      PROVE  ~waiting[subject[f]]
  <2>1. Active(f) /\ subject[f] \in Profiles
    BY <1>2 DEF TypeOK, Active, Idle
  <2> QED BY <1>2, <2>1 DEF WaitInv, Busy
<1>3. TypeOK /\ WaitInv /\ [Next]_vars =>
        [\A f \in Flows :
           /\ "overlap" \notin Faults
           /\ pc[f] = "created" /\ pc'[f] = "posted"
           => ~waiting[subject[f]]]_vars
  BY <1>2
<1> QED
  BY <1>1, <1>3, WaitNext, RepeatInit, RepeatNext, TypeCorrect, PTL DEF Spec, OneDigestPerInterval

-----------------------------------------------------------------------------
(* The jobs.                                                               *)

\* The digest a flow has created has no job yet.
LEMMA PostedOnce ==
  ASSUME TypeOK, StatusInv, NEW f \in Flows, PostJob(f)
  PROVE  dig[f] \in Digests /\ job[dig[f]] = "unposted" /\ job' = [job EXCEPT ![dig[f]] = "open"]
BY DEF PostJob, TypeOK, StatusInv, FreshDigest, Posted, WithDigest

\* Of all that happens only posting and the queue itself touch a job.
LEMMA JobsRest ==
  ASSUME [Next]_vars, \A f \in Flows : ~PostJob(f),
         \A d \in Digests : ~JobDelivered(d) /\ ~JobGivenUpOrReopened(d)
  PROVE  job' = job
<1>1. \A f \in Flows : FlowStep(f) => job' = job
  BY DEF FlowStep, Select, ReadContext, ListPersonalized, CreateDigest, MarkSkipped, EndDryRun,
         MarkQueued, ScheduleNext, FlowDies, digestVars
<1>2. \A i \in Items : Collect(i) \/ RankItem(i) \/ Age(i) => job' = job
  BY DEF Collect, RankItem, Age, digestVars
<1>3. \A p \in Profiles : ChangeEligibility(p) \/ BecomeDue(p) => job' = job
  BY DEF ChangeEligibility, BecomeDue, digestVars
<1>4. UNCHANGED vars => job' = job
  BY DEF vars, digestVars
<1> QED
  BY <1>1, <1>2, <1>3, <1>4 DEF Next

LEMMA JobsGoOn ==
  ASSUME TypeOK, StatusInv, [Next]_vars
  PROVE  [Queue!Next]_(Queue!vars)
<1> USE DEF Queue!Next, Queue!Post, Queue!GiveUp, Queue!Reopen, Queue!Deliver, Queue!Goes, Queue!Rest
<1>1. ASSUME NEW f \in Flows, PostJob(f) PROVE Queue!Next
  <2>1. /\ dig[f] \in Digests /\ job[dig[f]] = "unposted"
        /\ job'[dig[f]] = "open" /\ \A d \in Digests \ {dig[f]} : job'[d] = job[d]
    BY <1>1, PostedOnce DEF TypeOK
  <2> QED BY <2>1
<1>2. ASSUME NEW d \in Digests, JobDelivered(d) PROVE Queue!Next
  <2>1. /\ job[d] \in {"open", "given_up"} /\ job'[d] = "delivered"
        /\ \A e \in Digests \ {d} : job'[e] = job[e]
    BY <1>2 DEF JobDelivered, TypeOK
  <2> QED BY <2>1
<1>3. ASSUME NEW d \in Digests, JobGivenUpOrReopened(d) PROVE Queue!Next
  <2>1. /\ \/ job[d] = "open" /\ job'[d] = "given_up"
           \/ job[d] = "given_up" /\ job'[d] = "open"
        /\ \A e \in Digests \ {d} : job'[e] = job[e]
    BY <1>3 DEF JobGivenUpOrReopened, TypeOK
  <2> QED BY <2>1
<1>4. CASE job' = job
  BY <1>4 DEF Queue!vars
<1> QED
  BY <1>1, <1>2, <1>3, <1>4, JobsRest

\* Dispatchers and the queue agree: every step of the flows, overlapping or
\* dying, leaves the jobs as they are or moves them as DeliveryPromise allows -
\* so what DeliveryQueue implements is what Dispatch relies on.
THEOREM QueueIsUsedAsPromised == Spec => JobsMoveAsPromised
<1>1. Init => Queue!Init
  BY DEF Init, Queue!Init
<1> QED
  BY <1>1, JobsGoOn, StatusInit, StatusNext, TypeCorrect, PTL
  DEF Spec, JobsMoveAsPromised, Queue!Spec

=============================================================================
