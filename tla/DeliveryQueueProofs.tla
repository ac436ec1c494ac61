------------------------- MODULE DeliveryQueueProofs -------------------------
(***************************************************************************)
(* Theorems about DeliveryQueue for every number of jobs, workers, blocks,  *)
(* attempts, crashes and retries.                                          *)
(***************************************************************************)
EXTENDS DeliveryQueue, TLAPS

-----------------------------------------------------------------------------
(* Type correctness.                                                       *)

LEMMA TypeInit == Init => TypeOK
  BY ConstantsAssumption
  DEF Init, TypeOK, Status, PC, Sending, Blocks

LEMMA TypeWorkerStep ==
  ASSUME TypeOK, NEW w \in Workers, WorkerStep(w)
  PROVE  TypeOK'
<1> USE ConstantsAssumption DEF TypeOK, PC, Sending
<1>1. CASE StartRun(w)
  BY <1>1 DEF StartRun, Release, Status, tableVars, budget
<1>2. CASE Claim(w)
  <2>1. PICK S \in SUBSET Jobs :
           /\ status' = [j \in Jobs |-> IF j \in S THEN "claimed" ELSE status[j]]
           /\ owner' = [j \in Jobs |-> IF j \in S THEN w ELSE owner[j]]
           /\ stale' = [j \in Jobs |-> IF j \in S THEN FALSE ELSE stale[j]]
           /\ batch' = [batch EXCEPT ![w] = S]
           /\ retried' = [retried EXCEPT ![w] = {j \in S : attempts[j] > 0}]
           /\ pc' = [pc EXCEPT ![w] = IF S = {} THEN "off" ELSE "next"]
    BY <1>2 DEF Claim
  <2>2. pc[w] = "claim" /\ UNCHANGED <<attempts, due, old, tableVars, cur, todo, reached, budget>>
    BY <1>2 DEF Claim
  <2>3. status' \in [Jobs -> Status] /\ owner' \in [Jobs -> Workers \cup {NoWorker}]
    BY <2>1 DEF Status, Leased
  <2>4. stale' \in [Jobs -> BOOLEAN]
    BY <2>1
  <2>5. /\ batch' \in [Workers -> SUBSET Jobs]
        /\ retried' \in [Workers -> SUBSET Jobs]
        /\ pc' \in [Workers -> PC]
        /\ \A v \in Workers : pc'[v] \in Sending <=> cur'[v] # NoJob
    BY <2>1, <2>2
  <2> QED
    BY <2>2, <2>3, <2>4, <2>5 DEF tableVars, budget
<1>3. ASSUME NEW j \in Jobs, StartJob(w, j) PROVE TypeOK'
  BY <1>3 DEF StartJob, Status, Leased, tableVars, budget
<1>4. ASSUME NEW j \in Jobs, LoseJob(w, j) PROVE TypeOK'
  BY <1>4 DEF LoseJob, rowVars, tableVars, budget
<1>5. CASE EndRun(w)
  BY <1>5 DEF EndRun, rowVars, tableVars, budget
<1>6. CASE Resume(w)
  BY <1>6 DEF Resume, rowVars, tableVars, budget
<1>7. ASSUME NEW b \in Blocks, SendBlock(w, b) PROVE TypeOK'
  BY <1>7 DEF SendBlock, Appear, Count, rowVars, tableVars, budget
<1>8. ASSUME NEW b \in Blocks, SendRaises(w, b) PROVE TypeOK'
  <2>1. cur[w] \in Jobs
    BY <1>8 DEF SendRaises
  <2>3. Appear(cur[w], b) => reached' \in [Jobs -> [Blocks -> 0..2]]
    BY <2>1 DEF Appear, Count
  <2>2. /\ pc' \in [Workers -> PC]
        /\ \A v \in Workers : pc'[v] \in Sending <=> cur[v] # NoJob
    BY <1>8 DEF SendRaises
  <2>4. reached' \in [Jobs -> [Blocks -> 0..2]]
    BY <1>8, <2>3 DEF SendRaises
  <2> QED
    BY <1>8, <2>2, <2>4 DEF SendRaises, rowVars, tableVars, budget
<1>9. ASSUME NEW b \in Blocks, LogSent(w, b) PROVE TypeOK'
  BY <1>9 DEF LogSent, rowVars, budget
<1>10. ASSUME NEW b \in Blocks, SkipBlock(w, b) PROVE TypeOK'
  BY <1>10 DEF SkipBlock, rowVars, tableVars, budget
<1>11. CASE MarkSent(w)
  <2>1. cur[w] \in Jobs
    BY <1>11 DEF MarkSent
  <2>2. /\ status' \in [Jobs -> Status]
        /\ digest' \in [Jobs -> {"open", "sent"}]
        /\ received' \in [Jobs -> 0..2]
    <3>1. CASE MayFinish(w, cur[w])
      <4>1. /\ status' = [status EXCEPT ![cur[w]] = "sent"]
            /\ digest' = [digest EXCEPT ![cur[w]] = "sent"]
            /\ received' = [received EXCEPT ![cur[w]] = Count(@)]
        BY <1>11, <3>1 DEF MarkSent
      <4> QED
        BY <2>1, <4>1 DEF Count, Status, Final
    <3>2. CASE ~MayFinish(w, cur[w])
      BY <1>11, <3>2 DEF MarkSent
    <3> QED
      BY <3>1, <3>2
  <2> QED
    BY <1>11, <2>2 DEF MarkSent, BackToBatch, budget
<1>12. CASE MarkFailed(w)
  BY <1>12 DEF MarkFailed, BackToBatch, StatusAfterFailure, Exhausted, Status, Final, tableVars, budget
<1> QED
  BY <1>1, <1>2, <1>3, <1>4, <1>5, <1>6, <1>7, <1>8, <1>9, <1>10, <1>11, <1>12 DEF WorkerStep

LEMMA TypeNext == TypeOK /\ [Next]_vars => TypeOK'
<1> SUFFICES ASSUME TypeOK, [Next]_vars PROVE TypeOK'
  OBVIOUS
<1> USE ConstantsAssumption DEF TypeOK
<1>1. ASSUME NEW w \in Workers, WorkerStep(w) PROVE TypeOK'
  BY <1>1, TypeWorkerStep
<1>2. ASSUME NEW w \in Workers, DbRaises(w) PROVE TypeOK'
  BY <1>2 DEF DbRaises, rowVars, tableVars, budget, PC, Sending
<1>3. ASSUME NEW w \in Workers, Crash(w) PROVE TypeOK'
  BY <1>3 DEF Crash, rowVars, tableVars, PC, Sending
<1>4. ASSUME NEW j \in Jobs, Enqueue(j) \/ AdminCancel(j) \/ AdminRetry(j) PROVE TypeOK'
  <2>1. CASE Enqueue(j)
    BY <2>1 DEF Enqueue, Status, tableVars, workerVars, budget
  <2>2. CASE AdminCancel(j)
    BY <2>2 DEF AdminCancel, Status, Final, tableVars, workerVars, budget
  <2>3. CASE AdminRetry(j)
    BY <2>3 DEF AdminRetry, Status, tableVars, workerVars
  <2> QED
    BY <1>4, <2>1, <2>2, <2>3
<1>5. ASSUME NEW j \in Jobs, BecomeDue(j) \/ BecomeStale(j) \/ BecomeOld(j) PROVE TypeOK'
  <2>1. CASE BecomeDue(j)
    BY <2>1 DEF BecomeDue, tableVars, workerVars, budget
  <2>2. CASE BecomeStale(j)
    BY <2>2 DEF BecomeStale, tableVars, workerVars, budget
  <2>3. CASE BecomeOld(j)
    BY <2>3 DEF BecomeOld, tableVars, workerVars, budget
  <2> QED
    BY <1>5, <2>1, <2>2, <2>3
<1>6. CASE ExpireOld
  BY <1>6 DEF ExpireOld, Status, Final, tableVars, workerVars, budget
<1>7. CASE ReleaseStale
  BY <1>7 DEF ReleaseStale, Release, Status, tableVars, workerVars, budget
<1>8. CASE UNCHANGED vars
  BY <1>8 DEF vars, rowVars, tableVars, workerVars, budget
<1> QED
  BY <1>1, <1>2, <1>3, <1>4, <1>5, <1>6, <1>7, <1>8 DEF Next

\* Every variable keeps its type, whatever the constants.
THEOREM TypeCorrect == Spec => []TypeOK
  BY TypeInit, TypeNext, PTL DEF Spec

-----------------------------------------------------------------------------
(* The attempt limit.                                                      *)

\* Inductive: a row outside any claim has no owner, a claimed row has an
\* attempt left, and a job a run still has to start is, if it is still that
\* run's, claimed or cancelled - so mark_sending adds one attempt per claim.
AttemptsInv ==
  /\ \A j \in Jobs : attempts[j] <= MaxAttempts
  /\ \A j \in Jobs : status[j] \in {"absent", "queued"} => owner[j] = NoWorker
  /\ \A j \in Jobs : status[j] = "claimed" => attempts[j] < MaxAttempts
  /\ \A w \in Workers : \A j \in batch[w] :
       owner[j] = w => status[j] \in {"claimed", "cancelled"}
  /\ \A w \in Workers : cur[w] \notin batch[w]

LEMMA AttemptsInit == Init => AttemptsInv
  BY ConstantsAssumption DEF Init, AttemptsInv

LEMMA AttemptsWorkerStep ==
  ASSUME TypeOK, AttemptsInv, NEW w \in Workers, WorkerStep(w)
  PROVE  AttemptsInv'
<1> USE ConstantsAssumption DEF TypeOK, AttemptsInv
<1>1. CASE StartRun(w)
  BY <1>1 DEF StartRun, Release, Releasable, Leased
<1>2. CASE Claim(w)
  <2>1. cur[w] \notin Jobs
    BY <1>2 DEF Claim, Sending
  <2> QED
    BY <1>2, <2>1 DEF Claim, Claimable
<1>3. ASSUME NEW j \in Jobs, StartJob(w, j) PROVE AttemptsInv'
  <2>1. status[j] = "claimed" /\ owner[j] = w
    BY <1>3 DEF StartJob, MayStart, Leased
  <2> QED
    BY <1>3, <2>1 DEF StartJob
<1>4. ASSUME NEW j \in Jobs, LoseJob(w, j) PROVE AttemptsInv'
  BY <1>4 DEF LoseJob, rowVars
<1>5. CASE EndRun(w)
  BY <1>5 DEF EndRun, rowVars
<1>6. CASE Resume(w)
  BY <1>6 DEF Resume, rowVars
<1>7. ASSUME NEW b \in Blocks,
             SendBlock(w, b) \/ SendRaises(w, b) \/ LogSent(w, b) \/ SkipBlock(w, b)
      PROVE  AttemptsInv'
  BY <1>7 DEF SendBlock, SendRaises, LogSent, SkipBlock, rowVars
<1>8. CASE MarkSent(w)
  <2>1. cur[w] \in Jobs
    BY <1>8 DEF MarkSent, Sending
  <2>4. /\ attempts' = attempts /\ owner' = owner /\ batch' = batch
        /\ cur' = [cur EXCEPT ![w] = NoJob]
    BY <1>8 DEF MarkSent, BackToBatch
  <2>2. CASE MayFinish(w, cur[w])
    <3>1. owner[cur[w]] = w /\ status' = [status EXCEPT ![cur[w]] = "sent"]
      BY <1>8, <2>2 DEF MarkSent, MayFinish
    <3> QED
      BY <2>1, <2>4, <3>1
  <2>3. CASE ~MayFinish(w, cur[w])
    BY <1>8, <2>3, <2>4 DEF MarkSent
  <2> QED
    BY <2>2, <2>3
<1>9. CASE MarkFailed(w)
  <2>1. cur[w] \in Jobs
    BY <1>9 DEF MarkFailed, Sending
  <2> QED
    BY <1>9, <2>1 DEF MarkFailed, BackToBatch, StatusAfterFailure
<1> QED
  BY <1>1, <1>2, <1>3, <1>4, <1>5, <1>6, <1>7, <1>8, <1>9 DEF WorkerStep

LEMMA AttemptsNext == TypeOK /\ AttemptsInv /\ [Next]_vars => AttemptsInv'
<1> SUFFICES ASSUME TypeOK, AttemptsInv, [Next]_vars PROVE AttemptsInv'
  OBVIOUS
<1> USE ConstantsAssumption DEF TypeOK, AttemptsInv
<1>1. ASSUME NEW w \in Workers, WorkerStep(w) PROVE AttemptsInv'
  BY <1>1, AttemptsWorkerStep
<1>2. ASSUME NEW w \in Workers, DbRaises(w) \/ Crash(w) PROVE AttemptsInv'
  <2>1. CASE DbRaises(w)
    BY <2>1 DEF DbRaises, rowVars
  <2>2. CASE Crash(w)
    <3>1. /\ status' = status /\ attempts' = attempts /\ owner' = owner
          /\ batch' = [batch EXCEPT ![w] = {}]
          /\ cur' = [cur EXCEPT ![w] = NoJob]
      BY <2>2 DEF Crash, rowVars
    <3> QED
      BY <3>1
  <2> QED
    BY <1>2, <2>1, <2>2
<1>3. ASSUME NEW j \in Jobs, Enqueue(j) PROVE AttemptsInv'
  BY <1>3 DEF Enqueue, workerVars
<1>4. ASSUME NEW j \in Jobs, BecomeDue(j) \/ BecomeStale(j) \/ BecomeOld(j) PROVE AttemptsInv'
  BY <1>4 DEF BecomeDue, BecomeStale, BecomeOld, workerVars
<1>5. ASSUME NEW j \in Jobs, AdminCancel(j) PROVE AttemptsInv'
  BY <1>5 DEF AdminCancel, workerVars
<1>6. ASSUME NEW j \in Jobs, AdminRetry(j) PROVE AttemptsInv'
  BY <1>6 DEF AdminRetry, workerVars
<1>7. CASE ExpireOld
  BY <1>7 DEF ExpireOld, Expirable, workerVars
<1>8. CASE ReleaseStale
  BY <1>8 DEF ReleaseStale, Release, Releasable, Leased, workerVars
<1>9. CASE UNCHANGED vars
  BY <1>9 DEF vars, rowVars, workerVars
<1> QED
  BY <1>1, <1>2, <1>3, <1>4, <1>5, <1>6, <1>7, <1>8, <1>9 DEF Next

LEMMA AttemptsInvHolds == Spec => []AttemptsInv
  BY AttemptsInit, AttemptsNext, TypeCorrect, PTL DEF Spec

\* No job is attempted more than max_attempts times between manual retries,
\* with any number of workers, slow ones and crashes included.
THEOREM AttemptsStayBounded == Spec => []AttemptsBounded
<1>1. AttemptsInv => AttemptsBounded
  BY DEF AttemptsInv, AttemptsBounded
<1> QED
  BY <1>1, AttemptsInvHolds, PTL

-----------------------------------------------------------------------------
(* Exclusive sending.                                                      *)

\* Inductive, undisturbed: a run owns what it holds, and no claim it holds is
\* both stale and open to release_stale.
LeaseInv ==
  Undisturbed =>
    \A w \in Workers : \A j \in Held(w) :
      /\ owner[j] = w
      /\ ~(stale[j] /\ status[j] \in Leased)

LEMMA LeaseInit == Init => LeaseInv
  BY DEF Init, LeaseInv, Held

LEMMA LeaseWorkerStep ==
  ASSUME TypeOK, AttemptsInv, LeaseInv, NEW w \in Workers, WorkerStep(w)
  PROVE  LeaseInv'
<1> SUFFICES ASSUME Undisturbed PROVE LeaseInv'
  BY DEF LeaseInv, Undisturbed
<1> USE ConstantsAssumption DEF TypeOK, LeaseInv, Held
<1>1. CASE StartRun(w)
  BY <1>1 DEF StartRun, Release, Releasable
<1>2. CASE Claim(w)
  <2>1. PICK S \in SUBSET Jobs :
           /\ \A j \in S : status[j] = "queued"
           /\ status' = [j \in Jobs |-> IF j \in S THEN "claimed" ELSE status[j]]
           /\ owner' = [j \in Jobs |-> IF j \in S THEN w ELSE owner[j]]
           /\ stale' = [j \in Jobs |-> IF j \in S THEN FALSE ELSE stale[j]]
           /\ batch' = [batch EXCEPT ![w] = S]
    BY <1>2 DEF Claim, Claimable
  <2>2. pc[w] = "claim" /\ cur' = cur
    BY <1>2 DEF Claim
  <2>4. cur[w] = NoJob
    BY <2>2 DEF Sending
  <2>3. \A j \in S : owner[j] \notin Workers
    BY <2>1 DEF AttemptsInv
  <2> QED
    BY <2>1, <2>2, <2>3, <2>4
<1>3. ASSUME NEW j \in Jobs, StartJob(w, j) PROVE LeaseInv'
  BY <1>3 DEF StartJob, MayStart
<1>4. ASSUME NEW j \in Jobs, LoseJob(w, j) PROVE LeaseInv'
  BY <1>4 DEF LoseJob, rowVars
<1>5. CASE EndRun(w)
  BY <1>5 DEF EndRun, rowVars
<1>6. CASE Resume(w)
  BY <1>6 DEF Resume, rowVars
<1>7. ASSUME NEW b \in Blocks,
             SendBlock(w, b) \/ SendRaises(w, b) \/ LogSent(w, b) \/ SkipBlock(w, b)
      PROVE  LeaseInv'
  BY <1>7 DEF SendBlock, SendRaises, LogSent, SkipBlock, rowVars
<1>8. CASE MarkSent(w)
  <2>1. cur[w] \in Jobs
    BY <1>8 DEF MarkSent, Sending
  <2> QED
    BY <1>8, <2>1 DEF MarkSent, BackToBatch, Leased
<1>9. CASE MarkFailed(w)
  <2>1. cur[w] \in Jobs /\ cur[w] \notin batch[w]
    BY <1>9 DEF MarkFailed, Sending, AttemptsInv
  <2>2. owner[cur[w]] = w
    BY <2>1
  <2> QED
    BY <1>9, <2>1, <2>2 DEF MarkFailed, BackToBatch, StatusAfterFailure, Leased
<1> QED
  BY <1>1, <1>2, <1>3, <1>4, <1>5, <1>6, <1>7, <1>8, <1>9 DEF WorkerStep

LEMMA LeaseNext == TypeOK /\ AttemptsInv /\ LeaseInv /\ [Next]_vars => LeaseInv'
<1> SUFFICES ASSUME TypeOK, AttemptsInv, LeaseInv, [Next]_vars, Undisturbed PROVE LeaseInv'
  BY DEF LeaseInv, Undisturbed
<1> USE ConstantsAssumption DEF TypeOK, LeaseInv, Held
<1>1. ASSUME NEW w \in Workers, WorkerStep(w) PROVE LeaseInv'
  BY <1>1, LeaseWorkerStep
<1>2. ASSUME NEW w \in Workers, DbRaises(w) \/ Crash(w) PROVE LeaseInv'
  <2>1. CASE DbRaises(w)
    BY <2>1 DEF DbRaises, rowVars
  <2>2. CASE Crash(w)
    <3>1. \A v \in Workers : batch'[v] \subseteq batch[v] /\ cur'[v] \in {cur[v], NoJob}
      BY <2>2 DEF Crash
    <3> QED
      BY <2>2, <3>1 DEF Crash, rowVars
  <2> QED
    BY <1>2, <2>1, <2>2
<1>3. ASSUME NEW j \in Jobs, Enqueue(j) \/ AdminCancel(j) PROVE LeaseInv'
  BY <1>3 DEF Enqueue, AdminCancel, workerVars, Leased
<1>4. ASSUME NEW j \in Jobs, BecomeDue(j) \/ BecomeOld(j) PROVE LeaseInv'
  BY <1>4 DEF BecomeDue, BecomeOld, workerVars
<1>5. ASSUME NEW j \in Jobs, BecomeStale(j) PROVE LeaseInv'
  BY <1>5 DEF BecomeStale, CanGoStale, Abandoned, Undisturbed, workerVars
<1>6. ASSUME NEW j \in Jobs, AdminRetry(j) PROVE LeaseInv'
  BY <1>6 DEF AdminRetry, Undisturbed
<1>7. CASE ExpireOld
  BY <1>7 DEF ExpireOld, workerVars, Leased
<1>8. CASE ReleaseStale
  BY <1>8 DEF ReleaseStale, Release, Releasable, workerVars
<1>9. CASE UNCHANGED vars
  BY <1>9 DEF vars, rowVars, workerVars
<1> QED
  BY <1>1, <1>2, <1>3, <1>4, <1>5, <1>6, <1>7, <1>8, <1>9 DEF Next

LEMMA LeaseInvHolds == Spec => []LeaseInv
  BY LeaseInit, LeaseNext, TypeCorrect, AttemptsInvHolds, PTL DEF Spec

\* While runs finish within the stale threshold and nobody retries by hand,
\* no two runs ever hold the same job: the fence on claimed_by does its work.
THEOREM SendingIsExclusive == Spec => []ExclusiveSending
<1>1. LeaseInv => ExclusiveSending
  BY DEF LeaseInv, ExclusiveSending
<1> QED
  BY <1>1, LeaseInvHolds, PTL

-----------------------------------------------------------------------------
(* Sent means complete.                                                    *)

\* Inductive: what a run has taken off its list is in the journal, and a block
\* about to be written down has been seen in the chat.
JournalInv ==
  /\ \A j \in Jobs : \A b \in sentLog[j] : reached[j][b] > 0
  /\ \A w \in Workers : \A b \in Blocks :
       pc[w] = "log" /\ First(w, b) => reached[cur[w]][b] > 0
  /\ \A w \in Workers \ DryWorkers :
       pc[w] \in {"send", "log"} => Blocks \ todo[w] \subseteq sentLog[cur[w]]
  /\ DryWorkers = {} =>
       \A j \in Jobs : digest[j] = "sent" \/ status[j] = "sent" => sentLog[j] = Blocks

LEMMA JournalInit == Init => JournalInv
  BY DEF Init, JournalInv

LEMMA JournalWorkerStep ==
  ASSUME TypeOK, JournalInv, NEW w \in Workers, WorkerStep(w)
  PROVE  JournalInv'
<1> USE ConstantsAssumption DEF TypeOK, JournalInv, First
<1>0. pc[w] \in Sending => cur[w] \in Jobs
  OBVIOUS
<1>1. CASE StartRun(w)
  BY <1>1 DEF StartRun, Release, tableVars
<1>2. CASE Claim(w)
  BY <1>2 DEF Claim, tableVars
<1>3. ASSUME NEW j \in Jobs, StartJob(w, j) PROVE JournalInv'
  BY <1>3 DEF StartJob, tableVars
<1>4. ASSUME NEW j \in Jobs, LoseJob(w, j) PROVE JournalInv'
  BY <1>4 DEF LoseJob, rowVars, tableVars
<1>5. CASE EndRun(w)
  BY <1>5 DEF EndRun, rowVars, tableVars
<1>6. CASE Resume(w)
  BY <1>0, <1>6 DEF Resume, AlreadySent, rowVars, tableVars, Sending
<1>7. ASSUME NEW b \in Blocks, SendBlock(w, b) PROVE JournalInv'
  <2>1. cur[w] \in Jobs
    BY <1>0, <1>7 DEF SendBlock, Sending
  <2>2. \A j \in Jobs, c \in Blocks : reached'[j][c] > 0 <=> reached[j][c] > 0 \/ (j = cur[w] /\ c = b)
    BY <1>7, <2>1 DEF SendBlock, Appear, Count
  <2>3. \A c \in Blocks : First(w, c) => c = b
    BY <1>7 DEF SendBlock, Blocks
  <2> QED
    <3>1. /\ pc[w] = "send" /\ pc' = [pc EXCEPT ![w] = "log"]
          /\ UNCHANGED <<status, sentLog, digest, cur, todo>>
      BY <1>7 DEF SendBlock, rowVars, tableVars
    <3>2. \A v \in Workers : \A c \in Blocks :
            pc'[v] = "log" /\ First(v, c)' => reached'[cur'[v]][c] > 0
      BY <3>1, <2>1, <2>2, <2>3 DEF Sending
    <3>3. \A j \in Jobs : \A c \in sentLog'[j] : reached'[j][c] > 0
      BY <3>1, <2>2
    <3>4. \A v \in Workers : pc'[v] \in {"send", "log"} => pc[v] \in {"send", "log"}
      BY <3>1
    <3> QED
      BY <3>1, <3>2, <3>3, <3>4
<1>8. ASSUME NEW b \in Blocks, SendRaises(w, b) PROVE JournalInv'
  <2>1. cur[w] \in Jobs
    BY <1>0, <1>8 DEF SendRaises, Sending
  <2>2. \A j \in Jobs, c \in Blocks : reached[j][c] > 0 => reached'[j][c] > 0
    <3>1. UNCHANGED reached \/ reached' = [reached EXCEPT ![cur[w]][b] = Count(@)]
      BY <1>8 DEF SendRaises, Appear
    <3> QED
      <4>1. CASE UNCHANGED reached
        BY <4>1
      <4>2. CASE reached' = [reached EXCEPT ![cur[w]][b] = Count(@)]
        BY <2>1, <4>2 DEF Count
      <4> QED
        BY <3>1, <4>1, <4>2
  <2>3. pc'[w] \notin {"send", "log"} /\ \A v \in Workers \ {w} : pc'[v] = pc[v]
    BY <1>8 DEF SendRaises
  <2> QED
    BY <1>8, <2>2, <2>3 DEF SendRaises, rowVars, tableVars, Sending
<1>9. ASSUME NEW b \in Blocks, LogSent(w, b) PROVE JournalInv'
  <2>1. cur[w] \in Jobs
    BY <1>0, <1>9 DEF LogSent, Sending
  <2>2. reached[cur[w]][b] > 0
    BY <1>9 DEF LogSent
  <2> QED
    BY <1>9, <2>1, <2>2 DEF LogSent, rowVars
<1>10. ASSUME NEW b \in Blocks, SkipBlock(w, b) PROVE JournalInv'
  BY <1>10 DEF SkipBlock, rowVars, tableVars
<1>11. CASE MarkSent(w)
  <2>1. cur[w] \in Jobs
    BY <1>0, <1>11 DEF MarkSent, Sending
  <2>2. DryWorkers = {} => sentLog[cur[w]] = Blocks
    <3>1. pc[w] = "send" /\ todo[w] = {}
      BY <1>11 DEF MarkSent
    <3>2. sentLog[cur[w]] \subseteq Blocks
      BY <2>1
    <3>3. DryWorkers = {} => Blocks \ todo[w] \subseteq sentLog[cur[w]]
      BY <3>1
    <3>4. Blocks \ todo[w] = Blocks
      BY <3>1
    <3> HIDE DEF TypeOK, JournalInv, First
    <3> QED
      BY <3>2, <3>3, <3>4
  <2>3. \A j \in Jobs \ {cur[w]} : status'[j] = status[j] /\ digest'[j] = digest[j]
    <3>1. CASE MayFinish(w, cur[w])
      BY <1>11, <2>1, <3>1 DEF MarkSent
    <3>2. CASE ~MayFinish(w, cur[w])
      BY <1>11, <3>2 DEF MarkSent
    <3> QED
      BY <3>1, <3>2
  <2> QED
    BY <1>11, <2>2, <2>3 DEF MarkSent, BackToBatch
<1>12. CASE MarkFailed(w)
  BY <1>12 DEF MarkFailed, BackToBatch, StatusAfterFailure, tableVars
<1> QED
  BY <1>1, <1>2, <1>3, <1>4, <1>5, <1>6, <1>7, <1>8, <1>9, <1>10, <1>11, <1>12 DEF WorkerStep

LEMMA JournalNext == TypeOK /\ JournalInv /\ [Next]_vars => JournalInv'
<1> SUFFICES ASSUME TypeOK, JournalInv, [Next]_vars PROVE JournalInv'
  OBVIOUS
<1> USE ConstantsAssumption DEF TypeOK, JournalInv, First
<1>1. ASSUME NEW w \in Workers, WorkerStep(w) PROVE JournalInv'
  BY <1>1, JournalWorkerStep
<1>2. ASSUME NEW w \in Workers, DbRaises(w) \/ Crash(w) PROVE JournalInv'
  <2>1. UNCHANGED <<status, sentLog, digest, reached>>
    BY <1>2 DEF DbRaises, Crash, rowVars, tableVars
  <2>2. /\ pc'[w] \notin {"send", "log"}
        /\ \A v \in Workers \ {w} : pc'[v] = pc[v] /\ cur'[v] = cur[v] /\ todo'[v] = todo[v]
    BY <1>2 DEF DbRaises, Crash
  <2> QED
    BY <2>1, <2>2
<1>3. ASSUME NEW j \in Jobs,
             Enqueue(j) \/ AdminCancel(j) \/ AdminRetry(j) \/ BecomeDue(j) \/ BecomeStale(j) \/ BecomeOld(j)
      PROVE  JournalInv'
  BY <1>3 DEF Enqueue, AdminCancel, AdminRetry, BecomeDue, BecomeStale, BecomeOld, tableVars, workerVars
<1>4. CASE ExpireOld \/ ReleaseStale
  <2>1. \A j \in Jobs : status'[j] = "sent" => status[j] = "sent"
    <3>1. CASE ExpireOld
      BY <3>1 DEF ExpireOld
    <3>2. CASE ReleaseStale
      BY <3>2 DEF ReleaseStale, Release
    <3> QED
      BY <1>4, <3>1, <3>2
  <2>2. UNCHANGED <<tableVars, workerVars, reached>>
    BY <1>4 DEF ExpireOld, ReleaseStale
  <2> QED
    BY <2>1, <2>2 DEF tableVars, workerVars
<1>5. CASE UNCHANGED vars
  BY <1>5 DEF vars, rowVars, tableVars, workerVars
<1> QED
  BY <1>1, <1>2, <1>3, <1>4, <1>5 DEF Next

LEMMA JournalInvHolds == Spec => []JournalInv
  BY JournalInit, JournalNext, TypeCorrect, PTL DEF Spec

\* A job or digest is marked sent only when every block was seen in the chat,
\* through any crashes, lost replies, slow workers, takeovers and retries.
THEOREM SentIsAlwaysComplete == Spec => []SentIsComplete
<1>1. JournalInv => SentIsComplete
  BY DEF JournalInv, SentIsComplete
<1> QED
  BY <1>1, JournalInvHolds, PTL

-----------------------------------------------------------------------------
(* Nothing in the journal is sent again.                                   *)

\* Inductive, undisturbed: the snapshot taken at claim is good enough to decide
\* whether the journal must be read, and the list made from the journal stays
\* right while the run holds the job.
ResumeInv ==
  Undisturbed =>
    /\ \A j \in Jobs : attempts[j] = 0 => sentLog[j] = {}
    /\ \A w \in Workers : cur[w] # NoJob => attempts[cur[w]] > 0
    /\ \A w \in Workers : \A j \in batch[w] : j \notin retried[w] => sentLog[j] = {}
    /\ \A w \in Workers :
         pc[w] = "resume" /\ cur[w] \notin retried[w] => sentLog[cur[w]] = {}
    /\ \A w \in Workers :
         pc[w] \in {"send", "log"} => todo[w] \cap sentLog[cur[w]] = {}

LEMMA ResumeInit == Init => ResumeInv
  BY DEF Init, ResumeInv

LEMMA ResumeWorkerStep ==
  ASSUME TypeOK, AttemptsInv, LeaseInv, ResumeInv, NEW w \in Workers, WorkerStep(w)
  PROVE  ResumeInv'
<1> SUFFICES ASSUME Undisturbed PROVE ResumeInv'
  BY DEF ResumeInv, Undisturbed
<1> USE ConstantsAssumption DEF TypeOK, ResumeInv
<1>0. pc[w] \in Sending => cur[w] \in Jobs /\ \A v \in Workers \ {w} : cur[w] \notin Held(v)
  BY DEF LeaseInv, Held
<1>1. CASE StartRun(w)
  BY <1>1 DEF StartRun, tableVars
<1>2. CASE Claim(w)
  BY <1>2 DEF Claim, tableVars
<1>3. ASSUME NEW j \in Jobs, StartJob(w, j) PROVE ResumeInv'
  BY <1>3 DEF StartJob, tableVars
<1>4. ASSUME NEW j \in Jobs, LoseJob(w, j) PROVE ResumeInv'
  BY <1>4 DEF LoseJob, rowVars, tableVars
<1>5. CASE EndRun(w)
  BY <1>5 DEF EndRun, rowVars, tableVars
<1>6. CASE Resume(w)
  BY <1>0, <1>6 DEF Resume, AlreadySent, rowVars, tableVars, Sending
<1>7. ASSUME NEW b \in Blocks, SendBlock(w, b) \/ SendRaises(w, b) \/ SkipBlock(w, b)
      PROVE  ResumeInv'
  <2>1. UNCHANGED <<attempts, sentLog, cur, batch, retried>>
    BY <1>7 DEF SendBlock, SendRaises, SkipBlock, rowVars, tableVars
  <2>2. \A v \in Workers : pc'[v] # pc[v] => pc[v] = "send" /\ pc'[v] # "resume"
    BY <1>7 DEF SendBlock, SendRaises, SkipBlock
  <2>3. \A v \in Workers : todo'[v] \subseteq todo[v]
    BY <1>7 DEF SendBlock, SendRaises, SkipBlock
  <2> QED
    BY <2>1, <2>2, <2>3
<1>8. ASSUME NEW b \in Blocks, LogSent(w, b) PROVE ResumeInv'
  <2>1. /\ pc[w] = "log" /\ cur[w] \in Jobs /\ cur[w] \notin batch[w]
        /\ \A v \in Workers \ {w} : cur[v] # cur[w] /\ cur[w] \notin batch[v]
    BY <1>0, <1>8 DEF LogSent, Sending, Held, AttemptsInv
  <2> QED
    BY <1>8, <2>1 DEF LogSent, rowVars
<1>9. CASE MarkSent(w)
  BY <1>9 DEF MarkSent, BackToBatch
<1>10. CASE MarkFailed(w)
  BY <1>10 DEF MarkFailed, BackToBatch, tableVars
<1> QED
  BY <1>1, <1>2, <1>3, <1>4, <1>5, <1>6, <1>7, <1>8, <1>9, <1>10 DEF WorkerStep

LEMMA ResumeNext ==
  TypeOK /\ AttemptsInv /\ LeaseInv /\ ResumeInv /\ [Next]_vars => ResumeInv'
<1> SUFFICES ASSUME TypeOK, AttemptsInv, LeaseInv, ResumeInv, [Next]_vars, Undisturbed
             PROVE  ResumeInv'
  BY DEF ResumeInv, Undisturbed
<1> USE ConstantsAssumption DEF TypeOK, ResumeInv
<1>1. ASSUME NEW w \in Workers, WorkerStep(w) PROVE ResumeInv'
  BY <1>1, ResumeWorkerStep
<1>2. ASSUME NEW w \in Workers, DbRaises(w) PROVE ResumeInv'
  BY <1>2 DEF DbRaises, rowVars, tableVars
<1>3. ASSUME NEW w \in Workers, Crash(w) PROVE ResumeInv'
  BY <1>3 DEF Crash, rowVars, tableVars
<1>4. ASSUME NEW j \in Jobs,
             Enqueue(j) \/ AdminCancel(j) \/ BecomeDue(j) \/ BecomeStale(j) \/ BecomeOld(j)
      PROVE  ResumeInv'
  <2>1. UNCHANGED <<attempts, tableVars, workerVars>>
    BY <1>4 DEF Enqueue, AdminCancel, BecomeDue, BecomeStale, BecomeOld
  <2> QED
    BY <2>1 DEF tableVars, workerVars
<1>5. ASSUME NEW j \in Jobs, AdminRetry(j) PROVE ResumeInv'
  BY <1>5 DEF AdminRetry, Undisturbed
<1>6. CASE ExpireOld
  BY <1>6 DEF ExpireOld, tableVars, workerVars
<1>7. CASE ReleaseStale
  BY <1>7 DEF ReleaseStale, tableVars, workerVars
<1>8. CASE UNCHANGED vars
  BY <1>8 DEF vars, rowVars, tableVars, workerVars
<1> QED
  BY <1>1, <1>2, <1>3, <1>4, <1>5, <1>6, <1>7, <1>8 DEF Next

LEMMA ResumeInvHolds == Spec => []ResumeInv
  BY ResumeInit, ResumeNext, TypeCorrect, AttemptsInvHolds, LeaseInvHolds, PTL DEF Spec

\* Only a Bot API call touches the chat, and it posts a block of the run's list.
LEMMA SendsFromList ==
  ASSUME TypeOK, ResumeInv, Undisturbed, [Next]_vars,
         NEW j \in Jobs, NEW b \in Blocks, b \in sentLog[j]
  PROVE  reached'[j][b] = reached[j][b]
<1> USE ConstantsAssumption DEF TypeOK
<1>1. ASSUME NEW w \in Workers, NEW c \in Blocks, SendBlock(w, c) \/ SendRaises(w, c)
      PROVE  reached'[j][b] = reached[j][b]
  <2>1. pc[w] = "send" /\ c \in todo[w] /\ cur[w] \in Jobs
    BY <1>1 DEF SendBlock, SendRaises, First, Sending
  <2>2. ~(j = cur[w] /\ b = c)
    BY <2>1 DEF ResumeInv
  <2>3. Appear(cur[w], c) => reached'[j][b] = reached[j][b]
    BY <2>1, <2>2 DEF Appear
  <2> QED
    BY <1>1, <2>3 DEF SendBlock, SendRaises
<1>2. ASSUME NEW w \in Workers,
             \/ StartRun(w) \/ Claim(w) \/ EndRun(w) \/ Resume(w) \/ MarkSent(w) \/ MarkFailed(w)
             \/ DbRaises(w) \/ Crash(w)
             \/ \E i \in Jobs : StartJob(w, i) \/ LoseJob(w, i)
             \/ \E c \in Blocks : LogSent(w, c) \/ SkipBlock(w, c)
      PROVE  reached' = reached
  BY <1>2 DEF StartRun, Claim, EndRun, Resume, MarkSent, MarkFailed, DbRaises, Crash,
              StartJob, LoseJob, LogSent, SkipBlock
<1>3. ASSUME NEW i \in Jobs,
             \/ Enqueue(i) \/ BecomeDue(i) \/ BecomeStale(i) \/ BecomeOld(i)
             \/ AdminCancel(i) \/ AdminRetry(i)
      PROVE  reached' = reached
  BY <1>3 DEF Enqueue, BecomeDue, BecomeStale, BecomeOld, AdminCancel, AdminRetry
<1>4. CASE ExpireOld \/ ReleaseStale \/ UNCHANGED vars
  BY <1>4 DEF ExpireOld, ReleaseStale, vars
<1> QED
  BY <1>1, <1>2, <1>3, <1>4 DEF Next, WorkerStep

\* While runs finish within the stale threshold and nobody retries by hand, a
\* block the journal lists is never posted again.
THEOREM LoggedIsNotResent == ASSUME Undisturbed PROVE Spec => LoggedBlockNotResent
<1>1. TypeOK /\ ResumeInv /\ [Next]_vars =>
        [\A j \in Jobs, b \in Blocks : b \in sentLog[j] => reached'[j][b] = reached[j][b]]_vars
  BY SendsFromList
<1> QED
  BY <1>1, TypeCorrect, ResumeInvHolds, PTL DEF Spec, LoggedBlockNotResent

-----------------------------------------------------------------------------
(* What one step can do to one job.                                        *)

Quiet(j) == digest'[j] = digest[j] /\ received'[j] = received[j] /\ reached'[j] = reached[j]

Rests(j) == status'[j] = status[j] /\ Quiet(j)
Posted(j) == status[j] = "absent" /\ status'[j] = "queued" /\ Quiet(j)
Moves(j) ==
  /\ status[j] \in {"queued"} \cup Leased /\ status'[j] \in Status \ {"absent", "sent"}
  /\ Quiet(j)
Retried(j) ==
  /\ status[j] \in Final \ {"sent"} /\ status'[j] = "queued" /\ retries' = retries + 1
  /\ Quiet(j)

\* A worker comes out of its job: with a failure, or with the job sent.
LetsGo(w, j) == cur[w] = j /\ cur'[w] = NoJob /\ batch'[w] = batch[w]
Fails(j) ==
  /\ \E w \in Workers : LetsGo(w, j)
  /\ status'[j] \in {"queued", "failed"} /\ Quiet(j)
Sent(j) ==
  /\ \E w \in Workers : LetsGo(w, j) /\ owner[j] = w /\ pc[w] = "send" /\ todo[w] = {}
  /\ status'[j] = "sent" /\ digest'[j] = "sent" /\ received'[j] = Count(received[j])
  /\ reached'[j] = reached[j]
Shows(j) ==
  /\ \E w \in Workers : cur[w] = j
  /\ status'[j] = status[j] /\ digest'[j] = digest[j] /\ received'[j] = received[j]
  /\ \E b \in Blocks : \A c \in Blocks : reached'[j][c] > 0 <=> reached[j][c] > 0 \/ c = b

Happens(j) ==
  Rests(j) \/ Posted(j) \/ Moves(j) \/ Retried(j) \/ Fails(j) \/ Sent(j) \/ Shows(j)

LEMMA WorkerMoves ==
  ASSUME TypeOK, NEW w \in Workers, WorkerStep(w), NEW j \in Jobs
  PROVE  Happens(j)
<1> USE DEF Quiet
<1>0. pc[w] \in Sending => cur[w] \in Jobs
  BY ConstantsAssumption DEF TypeOK
<1>1. CASE StartRun(w)
  <2>1. Rests(j) \/ Moves(j)
    BY <1>1 DEF StartRun, Release, Releasable, Leased, Rests, Moves, Status, tableVars
  <2> QED BY <2>1 DEF Happens
<1>2. CASE Claim(w)
  <2>1. PICK S \in SUBSET Jobs :
           /\ \A i \in S : status[i] = "queued"
           /\ status' = [i \in Jobs |-> IF i \in S THEN "claimed" ELSE status[i]]
    BY <1>2 DEF Claim, Claimable
  <2>2. Quiet(j)
    BY <1>2 DEF Claim, tableVars
  <2>3. Rests(j) \/ Moves(j)
    BY <2>1, <2>2 DEF Rests, Moves, Leased, Status
  <2> QED BY <2>3 DEF Happens
<1>3. ASSUME NEW i \in Jobs, StartJob(w, i) PROVE Happens(j)
  <2>1. Rests(j) \/ Moves(j)
    BY <1>3 DEF StartJob, MayStart, Leased, Rests, Moves, Status, TypeOK, tableVars
  <2> QED BY <2>1 DEF Happens
<1>4. CASE (\E i \in Jobs : LoseJob(w, i)) \/ EndRun(w) \/ Resume(w)
  <2>1. Rests(j)
    BY <1>4 DEF LoseJob, EndRun, Resume, Rests, rowVars, tableVars
  <2> QED BY <2>1 DEF Happens
<1>5. ASSUME NEW b \in Blocks, SendBlock(w, b) \/ SendRaises(w, b) PROVE Happens(j)
  <2>1. cur[w] \in Jobs /\ UNCHANGED <<status, digest, received>>
    BY <1>0, <1>5 DEF SendBlock, SendRaises, Sending, rowVars, tableVars
  <2>2. reached' = reached \/ Appear(cur[w], b)
    BY <1>5 DEF SendBlock, SendRaises
  <2>3. CASE reached'[j] = reached[j]
    BY <2>1, <2>3 DEF Happens, Rests
  <2>4. CASE reached'[j] # reached[j]
    <3>1. cur[w] = j /\ reached' = [reached EXCEPT ![j][b] = Count(@)]
      BY <2>1, <2>2, <2>4 DEF Appear, TypeOK
    <3>2. \A c \in Blocks : reached'[j][c] > 0 <=> reached[j][c] > 0 \/ c = b
      BY <3>1 DEF Count, TypeOK
    <3>3. Shows(j)
      BY <2>1, <3>1, <3>2 DEF Shows
    <3> QED BY <3>3 DEF Happens
  <2> QED BY <2>3, <2>4
<1>6. ASSUME NEW b \in Blocks, LogSent(w, b) \/ SkipBlock(w, b) PROVE Happens(j)
  <2>1. Rests(j)
    BY <1>6 DEF LogSent, SkipBlock, Rests, rowVars, tableVars
  <2> QED BY <2>1 DEF Happens
<1>7. CASE MarkSent(w)
  <2>1. cur[w] \in Jobs /\ reached' = reached
    BY <1>0, <1>7 DEF MarkSent, Sending
  <2>2. CASE MayFinish(w, cur[w])
    <3>1. /\ status' = [status EXCEPT ![cur[w]] = "sent"]
          /\ digest' = [digest EXCEPT ![cur[w]] = "sent"]
          /\ received' = [received EXCEPT ![cur[w]] = Count(@)]
      BY <1>7, <2>2 DEF MarkSent
    <3>2. CASE cur[w] = j
      <4>1. LetsGo(w, j) /\ owner[j] = w /\ pc[w] = "send" /\ todo[w] = {}
        BY <1>7, <2>2, <3>2 DEF MarkSent, BackToBatch, MayFinish, LetsGo, TypeOK
      <4>2. Sent(j)
        BY <2>1, <3>1, <3>2, <4>1 DEF Sent, TypeOK
      <4> QED BY <4>2 DEF Happens
    <3>3. CASE cur[w] # j
      <4>1. Rests(j)
        BY <2>1, <3>1, <3>3 DEF Rests, TypeOK
      <4> QED BY <4>1 DEF Happens
    <3> QED BY <3>2, <3>3
  <2>3. CASE ~MayFinish(w, cur[w])
    <3>1. Rests(j)
      BY <1>7, <2>1, <2>3 DEF MarkSent, Rests
    <3> QED BY <3>1 DEF Happens
  <2> QED BY <2>2, <2>3
<1>8. CASE MarkFailed(w)
  <2>1. cur[w] \in Jobs /\ Quiet(j)
    BY <1>0, <1>8 DEF MarkFailed, Sending, tableVars
  <2>2. PICK to \in {"queued", "failed"} : status' = [status EXCEPT ![cur[w]] = to]
    BY <1>8 DEF MarkFailed, StatusAfterFailure
  <2>3. CASE cur[w] = j
    <3>1. LetsGo(w, j)
      BY <1>8, <2>3 DEF MarkFailed, BackToBatch, LetsGo, TypeOK
    <3>2. Fails(j)
      BY <2>1, <2>2, <2>3, <3>1 DEF Fails, TypeOK
    <3> QED BY <3>2 DEF Happens
  <2>4. CASE cur[w] # j
    <3>1. Rests(j)
      BY <2>1, <2>2, <2>4 DEF Rests, TypeOK
    <3> QED BY <3>1 DEF Happens
  <2> QED BY <2>3, <2>4
<1> QED
  BY <1>1, <1>2, <1>3, <1>4, <1>5, <1>6, <1>7, <1>8 DEF WorkerStep

LEMMA JobMoves ==
  ASSUME TypeOK, [Next]_vars, NEW j \in Jobs
  PROVE  Happens(j)
<1> USE DEF Quiet
<1>1. ASSUME NEW w \in Workers, WorkerStep(w) PROVE Happens(j)
  BY <1>1, WorkerMoves
<1>2. ASSUME NEW w \in Workers, DbRaises(w) \/ Crash(w) PROVE Happens(j)
  <2>1. Rests(j)
    BY <1>2 DEF DbRaises, Crash, Rests, rowVars, tableVars
  <2> QED BY <2>1 DEF Happens
<1>3. ASSUME NEW i \in Jobs, Enqueue(i) PROVE Happens(j)
  <2>1. Rests(j) \/ Posted(j)
    BY <1>3 DEF Enqueue, Rests, Posted, TypeOK, tableVars
  <2> QED BY <2>1 DEF Happens
<1>4. ASSUME NEW i \in Jobs, BecomeDue(i) \/ BecomeStale(i) \/ BecomeOld(i) PROVE Happens(j)
  <2>1. Rests(j)
    BY <1>4 DEF BecomeDue, BecomeStale, BecomeOld, Rests, tableVars
  <2> QED BY <2>1 DEF Happens
<1>5. ASSUME NEW i \in Jobs, AdminCancel(i) PROVE Happens(j)
  <2>1. Rests(j) \/ Moves(j)
    BY <1>5 DEF AdminCancel, Rests, Moves, Status, Final, TypeOK, tableVars
  <2> QED BY <2>1 DEF Happens
<1>6. ASSUME NEW i \in Jobs, AdminRetry(i) PROVE Happens(j)
  <2>1. Rests(j) \/ Retried(j)
    BY <1>6 DEF AdminRetry, Rests, Retried, TypeOK, tableVars
  <2> QED BY <2>1 DEF Happens
<1>7. CASE ExpireOld
  <2>1. Rests(j) \/ Moves(j)
    BY <1>7 DEF ExpireOld, Expirable, Rests, Moves, Status, Final, tableVars
  <2> QED BY <2>1 DEF Happens
<1>8. CASE ReleaseStale
  <2>1. Rests(j) \/ Moves(j)
    BY <1>8 DEF ReleaseStale, Release, Releasable, Rests, Moves, Status, tableVars
  <2> QED BY <2>1 DEF Happens
<1>9. CASE UNCHANGED vars
  <2>1. Rests(j)
    BY <1>9 DEF vars, Rests, rowVars, tableVars
  <2> QED BY <2>1 DEF Happens
<1> QED
  BY <1>1, <1>2, <1>3, <1>4, <1>5, <1>6, <1>7, <1>8, <1>9 DEF Next

\* A run takes a job into its memory only by a claim, of its lane.
LEMMA HeldByClaim ==
  ASSUME TypeOK, [Next]_vars, NEW w \in Workers, NEW j \in Held(w)'
  PROVE  j \in Held(w) \/ (j \in Jobs /\ status'[j] = "claimed" /\ InLane(w, j))
<1> USE DEF Held
<1>1. ASSUME NEW v \in Workers, Claim(v) PROVE j \in Held(w) \/ (j \in Jobs /\ status'[j] = "claimed" /\ InLane(w, j))
  <2>1. PICK S \in SUBSET {i \in Jobs : Claimable(i) /\ InLane(v, i)} :
           /\ status' = [i \in Jobs |-> IF i \in S THEN "claimed" ELSE status[i]]
           /\ batch' = [batch EXCEPT ![v] = S]
    BY <1>1 DEF Claim
  <2>2. cur' = cur
    BY <1>1 DEF Claim
  <2>3. CASE j \in S /\ w = v
    BY <2>1, <2>3
  <2>4. CASE ~(j \in S /\ w = v)
    BY <2>1, <2>2, <2>4 DEF TypeOK
  <2> QED BY <2>3, <2>4
<1>2. ASSUME NEW v \in Workers,
             StartRun(v) \/ EndRun(v) \/ Resume(v) \/ MarkSent(v) \/ MarkFailed(v) \/ DbRaises(v) \/ Crash(v)
      PROVE  j \in Held(w)
  <2>1. batch'[w] \subseteq batch[w] /\ cur'[w] \in {cur[w], NoJob}
    BY <1>2 DEF StartRun, EndRun, Resume, MarkSent, MarkFailed, BackToBatch, DbRaises, Crash, TypeOK
  <2> QED BY <2>1
<1>3. ASSUME NEW v \in Workers, NEW i \in Jobs, StartJob(v, i) \/ LoseJob(v, i) PROVE j \in Held(w)
  <2>1. i \in batch[v] /\ batch'[w] \subseteq batch[w]
    BY <1>3 DEF StartJob, LoseJob, TypeOK
  <2>2. cur'[w] = cur[w] \/ (w = v /\ cur'[w] = i)
    BY <1>3 DEF StartJob, LoseJob, TypeOK
  <2>3. i # NoJob
    BY ConstantsAssumption
  <2> QED BY <2>1, <2>2, <2>3
<1>4. ASSUME NEW v \in Workers, NEW b \in Blocks,
             SendBlock(v, b) \/ SendRaises(v, b) \/ LogSent(v, b) \/ SkipBlock(v, b)
      PROVE  j \in Held(w)
  BY <1>4 DEF SendBlock, SendRaises, LogSent, SkipBlock
<1>5. ASSUME NEW i \in Jobs,
             \/ Enqueue(i) \/ BecomeDue(i) \/ BecomeStale(i) \/ BecomeOld(i)
             \/ AdminCancel(i) \/ AdminRetry(i)
      PROVE  j \in Held(w)
  BY <1>5 DEF Enqueue, BecomeDue, BecomeStale, BecomeOld, AdminCancel, AdminRetry, workerVars
<1>6. CASE ExpireOld \/ ReleaseStale \/ UNCHANGED vars
  BY <1>6 DEF ExpireOld, ReleaseStale, vars, workerVars
<1> QED
  BY <1>1, <1>2, <1>3, <1>4, <1>5, <1>6 DEF Next, WorkerStep

-----------------------------------------------------------------------------
(* Finished jobs.                                                          *)

\* A finished job moves again only by a manual retry or by a worker that was
\* still sending it when it was finished, whatever else goes on.
THEOREM FinishedStaysFinished == Spec => FinalLeftWithCause
<1>1. ASSUME TypeOK, [Next]_vars, NEW j \in Jobs, status[j] \in Final, status'[j] # status[j]
      PROVE  \/ retries' = retries + 1
             \/ \E w \in Workers : cur[w] = j /\ cur'[w] # j
  <2>1. Happens(j)
    BY <1>1, JobMoves
  <2>2. CASE Fails(j) \/ Sent(j)
    BY <2>2, ConstantsAssumption DEF Fails, Sent, LetsGo
  <2>3. CASE Retried(j)
    BY <2>3 DEF Retried
  <2>4. ~(Rests(j) \/ Posted(j) \/ Moves(j) \/ Shows(j))
    BY <1>1 DEF Rests, Posted, Moves, Shows, Final, Leased
  <2> QED BY <2>1, <2>2, <2>3, <2>4 DEF Happens
<1>2. TypeOK /\ [Next]_vars =>
        [\A j \in Jobs :
           status[j] \in Final /\ status'[j] # status[j] =>
             \/ retries' = retries + 1
             \/ \E w \in Workers : cur[w] = j /\ cur'[w] # j]_vars
  BY <1>1
<1> QED
  BY <1>2, TypeCorrect, PTL DEF Spec, FinalLeftWithCause

-----------------------------------------------------------------------------
(* Sent once.                                                              *)

\* Inductive, undisturbed: what a run holds is posted and not yet sent.
SentInv ==
  Undisturbed =>
    /\ SentOnce
    /\ \A w \in Workers : \A j \in Held(w) : status[j] \notin {"absent", "sent"}

LEMMA SentInit == Init => SentInv
  BY DEF Init, SentInv, SentOnce, Held

LEMMA SentNext ==
  TypeOK /\ AttemptsInv /\ LeaseInv /\ SentInv /\ [Next]_vars => SentInv'
<1> SUFFICES ASSUME TypeOK, AttemptsInv, LeaseInv, SentInv, [Next]_vars, Undisturbed
             PROVE  SentInv'
  BY DEF SentInv, Undisturbed
<1>1. SentOnce /\ \A w \in Workers : \A j \in Held(w) : status[j] \notin {"absent", "sent"}
  BY DEF SentInv
<1>2. ASSUME NEW w \in Workers, NEW j \in Jobs, LetsGo(w, j)
      PROVE  j \in Held(w) /\ \A v \in Workers : j \in Held(v) => v = w
  BY <1>2, ConstantsAssumption DEF LetsGo, Held, LeaseInv
<1>3. ASSUME NEW j \in Jobs
      PROVE  /\ received'[j] <= 1
             /\ status'[j] = "sent" <=> received'[j] = 1
             /\ digest'[j] = "sent" <=> received'[j] = 1
  <2>1. received[j] \in 0..2 /\ Happens(j)
    BY JobMoves DEF TypeOK
  <2>2. /\ received[j] <= 1
        /\ status[j] = "sent" <=> received[j] = 1
        /\ digest[j] = "sent" <=> received[j] = 1
    BY <1>1 DEF SentOnce
  <2>3. CASE Rests(j) \/ Shows(j)
    BY <2>2, <2>3 DEF Rests, Shows, Quiet
  <2>4. CASE Posted(j) \/ Moves(j) \/ Retried(j)
    BY <2>2, <2>4 DEF Posted, Moves, Retried, Quiet, Leased, Final
  <2>5. CASE Fails(j)
    <3>1. status[j] # "sent"
      BY <1>1, <1>2, <2>5 DEF Fails
    <3> QED BY <2>2, <2>5, <3>1 DEF Fails, Quiet
  <2>6. CASE Sent(j)
    <3>1. status[j] # "sent"
      BY <1>1, <1>2, <2>6 DEF Sent
    <3>2. received[j] = 0
      BY <2>1, <2>2, <3>1
    <3> QED BY <2>6, <3>2 DEF Sent, Count
  <2> QED BY <2>1, <2>3, <2>4, <2>5, <2>6 DEF Happens
<1>4. ASSUME NEW w \in Workers, NEW j \in Held(w)' PROVE status'[j] \notin {"absent", "sent"}
  <2>1. CASE j \in Jobs /\ status'[j] = "claimed"
    BY <2>1
  <2>2. CASE j \in Held(w)
    <3>1. j \in Jobs /\ status[j] \notin {"absent", "sent"}
      BY <1>1, <2>2 DEF Held, TypeOK
    <3>2. Happens(j)
      BY <3>1, JobMoves
    <3>3. ~Sent(j)
      <4> SUFFICES ASSUME Sent(j) PROVE FALSE
        OBVIOUS
      <4>1. PICK v \in Workers : LetsGo(v, j)
        BY DEF Sent
      <4>2. w = v
        BY <1>2, <2>2, <3>1, <4>1
      <4>3. cur[w] = j /\ cur'[w] = NoJob /\ batch'[w] = batch[w]
        BY <4>1, <4>2 DEF LetsGo
      <4>4. j \notin batch[w] /\ j # NoJob
        BY <3>1, <4>3, ConstantsAssumption DEF AttemptsInv
      <4> QED BY <4>3, <4>4 DEF Held
    <3> QED
      BY <3>1, <3>2, <3>3 DEF Happens, Rests, Posted, Moves, Retried, Fails, Shows
  <2> QED BY <2>1, <2>2, HeldByClaim
<1> QED BY <1>3, <1>4 DEF SentInv, SentOnce

LEMMA SentInvHolds == Spec => []SentInv
  BY SentInit, SentNext, TypeCorrect, AttemptsInvHolds, LeaseInvHolds, PTL DEF Spec

\* While runs finish within the stale threshold and nobody retries by hand, a
\* job is sent once: one digest_received event for each, and job, digest and
\* activity feed agree.
THEOREM JobsAreSentOnce == ASSUME Undisturbed PROVE Spec => []SentOnce
<1>1. SentInv => SentOnce
  BY DEF SentInv
<1> QED
  BY <1>1, SentInvHolds, PTL

-----------------------------------------------------------------------------
(* The queue implements its promise.                                       *)

\* Inductive: a run holds only jobs of its lane.
LaneInv == \A w \in Workers : \A j \in Held(w) : InLane(w, j)

LEMMA LaneInvHolds == Spec => []LaneInv
<1>1. Init => LaneInv
  BY DEF Init, LaneInv, Held
<1>2. TypeOK /\ LaneInv /\ [Next]_vars => LaneInv'
  <2> SUFFICES ASSUME TypeOK, LaneInv, [Next]_vars, NEW w \in Workers, NEW j \in Held(w)'
               PROVE  InLane(w, j)
    BY DEF LaneInv, InLane
  <2> QED BY HeldByClaim DEF LaneInv
<1> QED BY <1>1, <1>2, TypeCorrect, PTL DEF Spec

\* The phase of a job, case by case.
LEMMA Phases ==
  ASSUME NEW j \in Jobs
  PROVE  /\ status[j] = "absent" => PhaseOf(j) = "unposted"
         /\ status[j] \in {"queued"} \cup Leased => PhaseOf(j) = "open"
         /\ status[j] \in Final \ {"sent"} => PhaseOf(j) = "given_up"
         /\ status[j] = "sent" => PhaseOf(j) = "delivered"
  BY DEF PhaseOf, Leased, Final

LEMMA PhasesNext ==
  ASSUME NEW j \in Jobs
  PROVE  /\ status'[j] = "absent" => PhaseOf(j)' = "unposted"
         /\ status'[j] \in {"queued"} \cup Leased => PhaseOf(j)' = "open"
         /\ status'[j] \in Final \ {"sent"} => PhaseOf(j)' = "given_up"
         /\ status'[j] = "sent" => PhaseOf(j)' = "delivered"
  BY DEF PhaseOf, Leased, Final

ShownOf(j) == {b \in Blocks : reached[j][b] > 0}

LEMMA PromiseInit == Init => Promise!Init
<1> SUFFICES ASSUME Init PROVE Promise!Init
  OBVIOUS
<1>1. ASSUME NEW j \in Jobs PROVE PhaseOf(j) = "unposted" /\ ShownOf(j) = {}
  BY Phases DEF Init, ShownOf
<1> QED BY <1>1 DEF Promise!Init, ShownOf

\* Each thing that can happen to a job is something the promise allows.
LEMMA PromiseKept ==
  ASSUME TypeOK, JournalInv, SentInv, LaneInv, Undisturbed, NEW j \in Jobs, Happens(j)
  PROVE  \/ Promise!Post(j) \/ Promise!GiveUp(j) \/ Promise!Reopen(j)
         \/ Promise!Show(j) \/ Promise!Deliver(j) \/ Promise!Rest(j)
<1> DEFINE Phase == [i \in Jobs |-> PhaseOf(i)]
           Shown == [i \in Jobs |-> ShownOf(i)]
<1>1. Phase[j] = PhaseOf(j) /\ Shown[j] = ShownOf(j)
  OBVIOUS
<1>2. Phase'[j] = PhaseOf(j)' /\ Shown'[j] = ShownOf(j)'
  OBVIOUS
<1>3. Quiet(j) => Shown'[j] = Shown[j]
  BY <1>1, <1>2 DEF Quiet, ShownOf
<1>4. status[j] \in Status
  BY DEF TypeOK
<1>5. ASSUME NEW w \in Workers, cur[w] = j
      PROVE  Phase[j] \in {"open", "given_up"}
  <2>1. status[j] \notin {"absent", "sent"}
    BY <1>5, ConstantsAssumption DEF SentInv, Held
  <2> QED BY <1>1, <1>4, <2>1, Phases DEF Status
<1>6. CASE Rests(j)
  <2>1. Phase'[j] = Phase[j]
    BY <1>1, <1>2, <1>6 DEF Rests, PhaseOf
  <2>2. Promise!Rest(j)
    BY <1>3, <1>6, <2>1 DEF Rests, Promise!Rest, ShownOf
  <2> QED BY <2>2
<1>7. CASE Posted(j)
  <2>1. Phase[j] = "unposted" /\ Phase'[j] = "open"
    BY <1>1, <1>2, <1>7, Phases, PhasesNext DEF Posted
  <2>2. Promise!Post(j)
    BY <1>3, <1>7, <2>1 DEF Posted, Promise!Post, Promise!Goes, ShownOf
  <2> QED BY <2>2
<1>8. CASE Moves(j)
  <2>1. Phase[j] = "open" /\ Phase'[j] \in {"open", "given_up"}
    BY <1>1, <1>2, <1>8, Phases, PhasesNext DEF Moves, Status
  <2>2. Promise!Rest(j) \/ Promise!GiveUp(j)
    BY <1>3, <1>8, <2>1 DEF Moves, Promise!Rest, Promise!GiveUp, Promise!Goes, ShownOf
  <2> QED BY <2>2
<1>9. CASE Retried(j)
  <2>1. Phase[j] = "given_up" /\ Phase'[j] = "open"
    BY <1>1, <1>2, <1>9, Phases, PhasesNext DEF Retried
  <2>2. Promise!Reopen(j)
    BY <1>3, <1>9, <2>1 DEF Retried, Promise!Reopen, Promise!Goes, ShownOf
  <2> QED BY <2>2
<1>10. CASE Fails(j)
  <2>1. Phase[j] \in {"open", "given_up"}
    BY <1>5, <1>10 DEF Fails, LetsGo
  <2>2. Phase'[j] \in {"open", "given_up"}
    BY <1>2, <1>10, PhasesNext DEF Fails, Final
  <2>3. Promise!Rest(j) \/ Promise!GiveUp(j) \/ Promise!Reopen(j)
    BY <1>3, <1>10, <2>1, <2>2
    DEF Fails, Promise!Rest, Promise!GiveUp, Promise!Reopen, Promise!Goes, ShownOf
  <2> QED BY <2>3
<1>11. CASE Sent(j)
  <2>1. PICK w \in Workers : LetsGo(w, j) /\ pc[w] = "send" /\ todo[w] = {}
    BY <1>11 DEF Sent
  <2>2. Phase[j] \in {"open", "given_up"} /\ Phase'[j] = "delivered"
    BY <1>2, <1>5, <1>11, <2>1, PhasesNext DEF Sent, LetsGo
  <2>3. Shown'[j] = Shown[j]
    BY <1>1, <1>2, <1>11 DEF Sent, ShownOf
  <2>4. CASE w \notin DryWorkers
    <3>1. Blocks \subseteq sentLog[j]
      BY <2>1, <2>4 DEF JournalInv, LetsGo
    <3>2. Shown[j] = Blocks
      BY <1>1, <3>1 DEF JournalInv, ShownOf
    <3>3. Promise!Deliver(j)
      BY <2>2, <2>3, <3>2 DEF Promise!Deliver, Promise!Goes, ShownOf
    <3> QED BY <3>3
  <2>5. CASE w \in DryWorkers
    <3>1. Lane[w] = ChannelOf[j]
      BY <2>1, ConstantsAssumption DEF LaneInv, LetsGo, Held, InLane
    <3>2. Promise!Deliver(j)
      BY <2>2, <2>3, <2>5, <3>1 DEF Promise!Deliver, Promise!Goes, ShownOf
    <3> QED BY <3>2
  <2> QED BY <2>4, <2>5
<1>12. CASE Shows(j)
  <2>1. Phase[j] \in {"open", "given_up"}
    BY <1>5, <1>12 DEF Shows
  <2>2. Phase'[j] = Phase[j]
    BY <1>1, <1>2, <1>12 DEF Shows, PhaseOf
  <2>3. PICK b \in Blocks : \A c \in Blocks : reached'[j][c] > 0 <=> reached[j][c] > 0 \/ c = b
    BY <1>12 DEF Shows
  <2>4. Shown'[j] = Shown[j] \cup {b}
    BY <1>1, <1>2, <2>3 DEF ShownOf
  <2>5. Promise!Show(j)
    BY <2>1, <2>2, <2>4 DEF Promise!Show, ShownOf
  <2> QED BY <2>5
<1> QED
  BY <1>6, <1>7, <1>8, <1>9, <1>10, <1>11, <1>12 DEF Happens

\* While runs finish within the stale threshold and nobody retries by hand,
\* the workers, claims, releases, crashes and repeated attempts of the queue
\* come to what the promise says: step by step, every job keeps it.
THEOREM QueueKeepsPromise == ASSUME Undisturbed PROVE Spec => KeepsPromise
<1>1. TypeOK /\ JournalInv /\ SentInv /\ LaneInv /\ [Next]_vars => [Promise!Next]_(Promise!vars)
  <2> SUFFICES ASSUME TypeOK, JournalInv, SentInv, LaneInv, [Next]_vars PROVE Promise!Next
    OBVIOUS
  <2>1. ASSUME NEW j \in Jobs
        PROVE  \/ Promise!Post(j) \/ Promise!GiveUp(j) \/ Promise!Reopen(j)
               \/ Promise!Show(j) \/ Promise!Deliver(j) \/ Promise!Rest(j)
    <3>1. Happens(j)
      BY JobMoves
    <3> QED BY <3>1, PromiseKept
  <2> QED BY <2>1 DEF Promise!Next
<1> QED
  BY <1>1, PromiseInit, TypeCorrect, JournalInvHolds, SentInvHolds, LaneInvHolds, PTL
  DEF Spec, KeepsPromise, Promise!Spec

=============================================================================
