-------------------------- MODULE OperationsProofs --------------------------
(***************************************************************************)
(* What an operator sees in the panel can be relied on: a day of the       *)
(* metrics keeps its true numbers although the rows they were made from    *)
(* are purged, and a schedule without the mark is what Prefect runs.  For  *)
(* any runs, rows, days, windows and ages; any flows, requests, edits and  *)
(* failures.                                                               *)
(***************************************************************************)
EXTENDS Metrics, Schedules, FiniteSetTheorems, TLAPS

-----------------------------------------------------------------------------
(* Metrics: the invariant.                                                 *)

\* The rows the aggregate of a day is made of.
Reads(d, x) ==
  IF scope = "subscribers"
  THEN x.day <= d /\ (x.table = "subscriber" \/ (x.table = "activity" /\ x.day + Week > d))
  ELSE x.day = d

\* Only old rows that are done with are gone.
Purged == raw \subseteq ever /\ \A x \in ever \ raw : Expired(x)

RowsFit ==
  /\ \A x \in ever : x.table \in Feeding[scope] /\ x.day <= today
  /\ IsFiniteSet(ever) /\ Cardinality(ever) <= written

\* A run writes days that have come and that it was asked for, and what it calls
\* fresh is exact.
HonestRun(x) ==
  /\ x.at = "running" => x.window = x.promised /\ x.promised \subseteq 1..today
  /\ x.at = "computed" =>
       /\ x.fresh \subseteq x.promised /\ x.promised \subseteq 1..today
       /\ \A d \in Days \ x.promised : x.values[d] = None
       /\ \A d \in x.fresh : x.values[d] = Rollup(d, ever)

\* What is not behind is exact.
Exact == \A d \in Days \ behind : daily[d] = Rollup(d, ever)

\* What is behind and out of the window has been given up.
GivenUp == \A d \in behind : d <= today /\ ~InWindow(d, today) => d \in given_up

MetricsInv ==
  /\ MetricsTypeOK
  /\ Purged
  /\ RowsFit
  /\ \A r \in Runs : HonestRun(run[r])
  /\ Exact
  /\ GivenUp

-----------------------------------------------------------------------------
(* Metrics: what a statement reads and writes.                             *)

\* An aggregate depends on the rows it reads and on no other.
LEMMA SameRollup ==
  ASSUME NEW A \in SUBSET RawRow, NEW B \in SUBSET RawRow, NEW d \in Days, scope \in Scopes,
         \A x \in RawRow : Reads(d, x) => (x \in A <=> x \in B)
  PROVE  Rollup(d, A) = Rollup(d, B)
<1>1. \A x \in RawRow : x.day \in Days BY DEF RawRow
<1>2. CASE scope = "harvest"
  <2>1. Of(A, "decision", {d}) = Of(B, "decision", {d}) BY <1>2 DEF Of, Reads
  <2> QED BY <1>2, <2>1 DEF Rollup, HarvestRollup
<1>3. CASE scope = "delivery"
  <2>1. Of(A, "job", {d}) = Of(B, "job", {d}) BY <1>3 DEF Of, Reads
  <2> QED BY <1>3, <2>1 DEF Rollup, DeliveryRollup
<1>4. CASE scope = "engagement"
  <2>1. /\ Of(A, "digest", {d}) = Of(B, "digest", {d})
        /\ Of(A, "feedback", {d}) = Of(B, "feedback", {d})
    BY <1>4 DEF Of, Reads
  <2> QED BY <1>4, <2>1 DEF Rollup, EngagementRollup
<1>5. CASE scope = "subscribers"
  <2>1. \A x \in RawRow : x.day \in 1..d <=> x.day <= d
    BY <1>1, MetricsBounds DEF Days
  <2>2. /\ Of(A, "subscriber", 1..d) = Of(B, "subscriber", 1..d)
        /\ Of(A, "subscriber", {d}) = Of(B, "subscriber", {d})
    BY <1>1, <1>5, <2>1, MetricsBounds DEF Of, Reads, Days
  <2>3. Of(A, "activity", {d}) = Of(B, "activity", {d})
    BY <1>1, <1>5, MetricsBounds, SettingsAreDays DEF Of, Reads, Days
  <2>4. {x \in Of(A, "activity", 1..d) : x.day + Week > d}
        = {x \in Of(B, "activity", 1..d) : x.day + Week > d}
    BY <1>1, <1>5, <2>1 DEF Of, Reads
  <2> QED BY <1>5, <2>2, <2>3, <2>4 DEF Rollup, SubscribersRollup
<1> QED BY <1>2, <1>3, <1>4, <1>5 DEF Scopes

\* A row feeds the aggregates that read it.
LEMMA ReadIsFed ==
  ASSUME NEW x \in RawRow, NEW d \in Days, Reads(d, x)
  PROVE  d \in Fed(x.day)
BY MetricsBounds DEF RawRow, Days, Reads, Fed

\* Counts of a small set are small.
LEMMA CountOf ==
  ASSUME NEW A, IsFiniteSet(A), Cardinality(A) <= MaxRows, NEW B \in SUBSET A
  PROVE  Cardinality(B) \in Count /\ Subscribers(B) \in Count
<1>1. /\ IsFiniteSet(B) /\ Cardinality(B) <= Cardinality(A)
      /\ Cardinality(A) \in Nat /\ Cardinality(B) \in Nat
  BY FS_Subset, FS_CardinalityType
<1> DEFINE W == {x.who : x \in B}
           f == [x \in B |-> x.who]
<1>2. f \in Surjection(B, W) BY DEF Surjection
<1>3. IsFiniteSet(W) /\ Cardinality(W) <= Cardinality(B) BY <1>1, <1>2, FS_Surjection
<1>4. Cardinality(W) \in Nat BY <1>3, FS_CardinalityType
<1> QED BY <1>1, <1>3, <1>4, MetricsBounds DEF Count, Subscribers

LEMMA RollupIsAggregate ==
  ASSUME NEW A \in SUBSET RawRow, IsFiniteSet(A), Cardinality(A) <= MaxRows, NEW d \in Days,
         scope \in Scopes
  PROVE  Rollup(d, A) \in Aggregate
<1>1. \A t, D : Of(A, t, D) \in SUBSET A BY DEF Of
<1>2. \A B \in SUBSET A : Cardinality(B) \in Count /\ Subscribers(B) \in Count BY CountOf
<1>3. \A t, D, s : In(Of(A, t, D), s) \in Count BY <1>1, <1>2 DEF In
<1>4. CASE scope = "harvest"
  BY <1>1, <1>2, <1>3, <1>4 DEF Rollup, HarvestRollup, HarvestDaily, Aggregate
<1>5. CASE scope = "delivery"
  BY <1>1, <1>2, <1>3, <1>5 DEF Rollup, DeliveryRollup, DeliveryDaily, Aggregate
<1>6. CASE scope = "engagement"
  BY <1>1, <1>2, <1>3, <1>6 DEF Rollup, EngagementRollup, EngagementDaily, Aggregate
<1>7. CASE scope = "subscribers"
  <2>1. {x \in Of(A, "activity", 1..d) : x.day + Week > d} \in SUBSET A BY DEF Of
  <2> QED BY <1>1, <1>2, <1>3, <1>7, <2>1 DEF Rollup, SubscribersRollup, SubscribersDaily, Aggregate
<1> QED BY <1>4, <1>5, <1>6, <1>7 DEF Scopes

\* What the purge has not come to is still there in full.
LEMMA Undepleted ==
  ASSUME MetricsTypeOK, Purged, RowsFit, NEW d \in Days, ~Depleted(d)
  PROVE  Rollup(d, raw) = Rollup(d, ever)
<1>1. ASSUME NEW x \in RawRow, Reads(d, x), x \in ever, x \notin raw PROVE FALSE
  <2>1. /\ x.table \in {"decision", "activity", "job"} /\ x.day + Retention < today
        /\ x.table \in Feeding[scope] /\ x.day \in Days
    BY <1>1 DEF Purged, RowsFit, Expired, RawRow
  <2>2. scope # "engagement" BY <2>1 DEF Feeding
  <2>3. x.day \in 1..d /\ (x.day = d \/ (scope = "subscribers" /\ x.day + Week > d))
    BY <1>1, <2>1, MetricsBounds DEF Reads, Days
  <2> QED BY <2>1, <2>2, <2>3 DEF Depleted
<1>2. raw \in SUBSET RawRow /\ ever \in SUBSET RawRow /\ raw \subseteq ever /\ scope \in Scopes
  BY DEF MetricsTypeOK, Purged
<1> QED BY <1>1, <1>2, SameRollup

LEMMA RunHas ==
  ASSUME MetricsTypeOK, NEW r \in Runs
  PROVE  /\ run[r].at \in {"waiting", "succeeded", "failed", "running", "computed"}
         /\ run[r].at = "running" =>
              run[r] \in [at : {"running"}, window : SUBSET Days, promised : SUBSET Days]
         /\ run[r].at = "computed" =>
              run[r] \in [at : {"computed"}, values : [Days -> Aggregate],
                          promised : SUBSET Days, fresh : SUBSET Days]
BY DEF MetricsTypeOK, RollupRun

LEMMA RollupNext ==
  ASSUME scope' = scope, ever' = ever, NEW d PROVE Rollup(d, ever)' = Rollup(d, ever)
BY DEF Rollup, HarvestRollup, DeliveryRollup, SubscribersRollup, EngagementRollup

LEMMA RollupThen ==
  ASSUME scope' = scope, NEW d PROVE Rollup(d, ever)' = Rollup(d, ever')
BY DEF Rollup, HarvestRollup, DeliveryRollup, SubscribersRollup, EngagementRollup

-----------------------------------------------------------------------------
(* Metrics: one lemma per action.                                          *)

\* Rows of one day feed what its rows feed.
LEMMA DayChanges ==
  ASSUME NEW day \in Days, NEW A, NEW B, \A x \in RawRow : x.day # day => (x \in A <=> x \in B)
  PROVE  /\ Fed(day) \in SUBSET Days
         /\ \A d \in Days \ Fed(day) : \A x \in RawRow : Reads(d, x) => (x \in A <=> x \in B)
<1>1. Fed(day) \in SUBSET Days BY MetricsBounds DEF Fed, Days
<1>2. ASSUME NEW d \in Days \ Fed(day), NEW x \in RawRow, Reads(d, x) PROVE x.day # day
  BY <1>2, ReadIsFed
<1> QED BY <1>1, <1>2

\* What changing rows leaves as it was, and what it puts behind.
LEMMA RowsChange ==
  ASSUME MetricsInv, NEW F \in SUBSET Days,
         raw' \subseteq ever', ever' \in SUBSET RawRow,
         IsFiniteSet(ever'), Cardinality(ever') <= written', written' \in Count,
         \A x \in ever' \ raw' : x \in ever \ raw,
         \A x \in ever' : x.table \in Feeding[scope] /\ x.day <= today,
         \A d \in Days \ F : \A x \in RawRow : Reads(d, x) => (x \in ever' <=> x \in ever),
         Changed(F), UNCHANGED <<scope, today, daily, failures>>
  PROVE  MetricsInv'
<1>1. scope' = scope /\ today' = today /\ daily' = daily /\ failures' = failures OBVIOUS
<1>2. /\ behind' = behind \union F
      /\ given_up' = given_up \union {d \in F : d <= today /\ ~InWindow(d, today)}
      /\ run' = [r \in Runs |-> IF run[r].at = "computed"
                                THEN [run[r] EXCEPT !.fresh = @ \ F] ELSE run[r]]
  BY DEF Changed
<1>3. scope \in Scopes /\ ever \in SUBSET RawRow BY DEF MetricsInv, MetricsTypeOK
<1>5. ASSUME NEW d \in Days \ F PROVE Rollup(d, ever') = Rollup(d, ever)
  BY <1>3, <1>5, SameRollup
<1>6. MetricsTypeOK'
  <2>1. ASSUME NEW r \in Runs PROVE run'[r] \in RollupRun
    <3>1. CASE run[r].at = "computed"
      BY <1>2, <3>1, RunHas DEF MetricsInv, RollupRun
    <3>2. CASE run[r].at # "computed"
      BY <1>2, <3>2 DEF MetricsInv, MetricsTypeOK
    <3> QED BY <3>1, <3>2
  <2>2. run' \in [Runs -> RollupRun] BY <1>2, <2>1
  <2>3. behind' \subseteq Days /\ given_up' \subseteq Days
    BY <1>2 DEF MetricsInv, MetricsTypeOK
  <2> QED BY <1>1, <2>2, <2>3 DEF MetricsInv, MetricsTypeOK
<1>7. Purged' BY <1>1 DEF MetricsInv, Purged, Expired
<1>8. RowsFit' BY <1>1 DEF RowsFit
<1>9. ASSUME NEW r \in Runs PROVE HonestRun(run[r])'
  <2>1. HonestRun(run[r]) BY DEF MetricsInv
  <2>2. CASE run[r].at = "computed"
    <3>1. run'[r] = [run[r] EXCEPT !.fresh = @ \ F] BY <1>2, <2>2
    <3>2. run[r] \in [at : {"computed"}, values : [Days -> Aggregate],
                      promised : SUBSET Days, fresh : SUBSET Days]
      BY <2>2, RunHas DEF MetricsInv
    <3>3. /\ run'[r].at = "computed" /\ run'[r].values = run[r].values
          /\ run'[r].promised = run[r].promised /\ run'[r].fresh = run[r].fresh \ F
      BY <3>1, <3>2
    <3>4. \A d \in run'[r].fresh : run'[r].values[d] = Rollup(d, ever)'
      BY <1>1, <1>5, <2>1, <2>2, <3>2, <3>3, RollupThen DEF HonestRun
    <3> QED BY <1>1, <2>1, <2>2, <3>2, <3>3, <3>4 DEF HonestRun
  <2>3. CASE run[r].at # "computed"
    <3>1. run'[r] = run[r] BY <1>2, <2>3
    <3> QED BY <1>1, <2>1, <2>3, <3>1 DEF HonestRun
  <2> QED BY <2>2, <2>3
<1>10. Exact' BY <1>1, <1>2, <1>5, RollupThen DEF MetricsInv, Exact
<1>11. GivenUp' BY <1>1, <1>2 DEF MetricsInv, GivenUp, InWindow
<1> QED BY <1>6, <1>7, <1>8, <1>9, <1>10, <1>11 DEF MetricsInv

LEMMA WriteKeeps ==
  ASSUME MetricsInv, NEW t \in Tables, NEW w \in Who, NEW s \in States[t], Write(t, w, s)
  PROVE  MetricsInv'
<1> DEFINE x == [id |-> written + 1, table |-> t, day |-> today, who |-> w, state |-> s]
<1>1. /\ written < MaxRows /\ written' = written + 1 /\ t \in Feeding[scope]
      /\ raw' = raw \union {x} /\ ever' = ever \union {x}
      /\ Changed(Fed(today)) /\ UNCHANGED <<scope, today, daily, failures>>
  BY DEF Write, MayWrite
<1>2. /\ IsFiniteSet(ever) /\ Cardinality(ever) \in Nat /\ today \in Days
      /\ Cardinality(ever) <= written /\ written \in Count
      /\ ever \in SUBSET RawRow /\ raw \subseteq ever
  BY FS_CardinalityType DEF MetricsInv, RowsFit, MetricsTypeOK, Purged
<1>3. x \in RawRow /\ x.day = today /\ x.table = t BY <1>1, <1>2, MetricsBounds DEF RawRow, Count
<1> HIDE DEF x
<1>4. IsFiniteSet(ever') /\ Cardinality(ever') <= written' /\ written' \in Count
  <2>1. /\ IsFiniteSet(ever')
        /\ Cardinality(ever') = IF x \in ever THEN Cardinality(ever) ELSE Cardinality(ever) + 1
    BY <1>1, <1>2, FS_AddElement
  <2> QED BY <1>1, <1>2, <2>1, MetricsBounds DEF Count
<1>5. \A y \in ever' : y.table \in Feeding[scope] /\ y.day <= today
  BY <1>1, <1>2, <1>3, MetricsBounds DEF MetricsInv, RowsFit, Days
<1>6. \A y \in RawRow : y.day # today => (y \in ever' <=> y \in ever) BY <1>1, <1>3
<1>7. /\ Fed(today) \in SUBSET Days
      /\ \A d \in Days \ Fed(today) : \A y \in RawRow : Reads(d, y) => (y \in ever' <=> y \in ever)
  BY <1>2, <1>6, DayChanges
<1>8. /\ raw' \subseteq ever' /\ ever' \in SUBSET RawRow
      /\ \A y \in ever' \ raw' : y \in ever \ raw
  BY <1>1, <1>2, <1>3
<1> QED BY <1>1, <1>4, <1>5, <1>7, <1>8, RowsChange

LEMMA ChangeKeeps ==
  ASSUME MetricsInv, NEW x \in raw, NEW s \in States[x.table], ChangeState(x, s)
  PROVE  MetricsInv'
<1> DEFINE y == [x EXCEPT !.state = s]
<1>1. /\ raw' = (raw \ {x}) \union {y} /\ ever' = (ever \ {x}) \union {y}
      /\ Changed(Fed(x.day)) /\ UNCHANGED <<scope, today, daily, failures, written>>
  BY DEF ChangeState
<1>2. /\ IsFiniteSet(ever) /\ Cardinality(ever) \in Nat /\ Cardinality(ever) <= written /\ written \in Count
      /\ ever \in SUBSET RawRow /\ raw \subseteq ever
      /\ x \in RawRow /\ x.day \in Days /\ x.day <= today /\ x.table \in Feeding[scope]
  BY FS_CardinalityType DEF MetricsInv, RowsFit, MetricsTypeOK, Purged, RawRow
<1>3. y \in RawRow /\ y.day = x.day /\ y.table = x.table
  BY <1>2 DEF RawRow
<1> HIDE DEF y
<1>4. IsFiniteSet(ever') /\ Cardinality(ever') <= written' /\ written' \in Count
  <2>1. /\ IsFiniteSet(ever \ {x}) /\ Cardinality(ever \ {x}) = Cardinality(ever) - 1
    BY <1>2, FS_RemoveElement
  <2>2. IsFiniteSet(ever') /\ Cardinality(ever') <= Cardinality(ever)
    <3>1. /\ IsFiniteSet(ever')
          /\ Cardinality(ever') = IF y \in ever \ {x} THEN Cardinality(ever \ {x})
                                 ELSE Cardinality(ever \ {x}) + 1
      BY <1>1, <2>1, FS_AddElement
    <3> QED BY <1>2, <2>1, <3>1
  <2>3. Cardinality(ever') \in Nat BY <2>2, FS_CardinalityType
  <2> QED BY <1>1, <1>2, <2>2, <2>3, MetricsBounds DEF Count
<1>5. \A z \in ever' : z.table \in Feeding[scope] /\ z.day <= today
  BY <1>1, <1>2, <1>3 DEF MetricsInv, RowsFit
<1>6. \A z \in RawRow : z.day # x.day => (z \in ever' <=> z \in ever) BY <1>1, <1>3
<1>7. /\ Fed(x.day) \in SUBSET Days
      /\ \A d \in Days \ Fed(x.day) : \A z \in RawRow : Reads(d, z) => (z \in ever' <=> z \in ever)
  BY <1>2, <1>6, DayChanges
<1>8. /\ raw' \subseteq ever' /\ ever' \in SUBSET RawRow
      /\ \A z \in ever' \ raw' : z \in ever \ raw
  BY <1>1, <1>2, <1>3
<1> QED BY <1>1, <1>4, <1>5, <1>7, <1>8, RowsChange

LEMMA ForgetKeeps == ASSUME MetricsInv, NEW w \in Who, Forget(w) PROVE MetricsInv'
<1> DEFINE F == UNION {Fed(x.day) : x \in Naming(w)}
<1>1. /\ raw' = raw \ Naming(w) /\ ever' = ever \ Naming(w) /\ written' = written
      /\ Changed(F) /\ UNCHANGED <<scope, today, daily, failures>>
  BY DEF Forget
<1>2. /\ IsFiniteSet(ever) /\ Cardinality(ever) <= written /\ written \in Count
      /\ ever \in SUBSET RawRow /\ raw \subseteq ever
      /\ \A x \in ever : x.table \in Feeding[scope] /\ x.day <= today /\ x.day \in Days
  BY DEF MetricsInv, RowsFit, MetricsTypeOK, Purged, RawRow
<1>3. Naming(w) \subseteq ever BY DEF Naming
<1>4. IsFiniteSet(ever') /\ Cardinality(ever') <= written' /\ written' \in Count
  <2>1. /\ ever' \in SUBSET ever /\ IsFiniteSet(ever') /\ Cardinality(ever') <= Cardinality(ever)
        /\ Cardinality(ever') \in Nat /\ Cardinality(ever) \in Nat
    BY <1>1, <1>2, FS_Subset, FS_CardinalityType
  <2> QED BY <1>1, <1>2, <2>1, MetricsBounds DEF Count
<1>5. F \in SUBSET Days
  <2>1. \A x \in Naming(w) : Fed(x.day) \subseteq Days
    BY <1>2, <1>3, MetricsBounds DEF Fed, Days
  <2> QED BY <2>1
<1>6. ASSUME NEW d \in Days \ F, NEW x \in RawRow, Reads(d, x) PROVE x \in ever' <=> x \in ever
  <2>1. d \in Fed(x.day) BY <1>6, ReadIsFed
  <2>2. x \notin Naming(w) BY <2>1
  <2> QED BY <1>1, <2>2
<1> HIDE DEF F
<1>7. /\ raw' \subseteq ever' /\ ever' \in SUBSET RawRow
      /\ \A x \in ever' \ raw' : x \in ever \ raw
      /\ \A x \in ever' : x.table \in Feeding[scope] /\ x.day <= today
  BY <1>1, <1>2
<1> QED BY <1>1, <1>4, <1>5, <1>6, <1>7, RowsChange

LEMMA PurgeKeeps == ASSUME MetricsInv, Purge PROVE MetricsInv'
<1>1. PICK batch \in SUBSET {x \in raw : Expired(x)} : raw' = raw \ batch
  BY DEF Purge
<1>2. /\ scope' = scope /\ today' = today /\ daily' = daily /\ run' = run /\ failures' = failures
      /\ written' = written /\ ever' = ever /\ behind' = behind /\ given_up' = given_up
  BY DEF Purge
<1>3. Purged' BY <1>1, <1>2 DEF MetricsInv, Purged, Expired
<1>4. \A d : Rollup(d, ever)' = Rollup(d, ever) BY <1>2, RollupNext
<1>5. MetricsTypeOK' BY <1>1, <1>2 DEF MetricsInv, MetricsTypeOK
<1>6. \A r \in Runs : HonestRun(run[r])' BY <1>2, <1>4 DEF MetricsInv, HonestRun
<1>7. Exact' BY <1>2, <1>4 DEF MetricsInv, Exact
<1> QED BY <1>2, <1>3, <1>5, <1>6, <1>7 DEF MetricsInv, RowsFit, GivenUp, InWindow

LEMMA NextDayKeeps == ASSUME MetricsInv, NextDay PROVE MetricsInv'
<1>1. /\ today < LastDay /\ today' = today + 1
      /\ given_up' = given_up \union {d \in behind : d <= today + 1 /\ ~InWindow(d, today + 1)}
      /\ scope' = scope /\ raw' = raw /\ daily' = daily /\ run' = run /\ failures' = failures
      /\ written' = written /\ ever' = ever /\ behind' = behind
  BY DEF NextDay
<1>2. today \in Days /\ today' \in Days
  BY <1>1, MetricsBounds DEF MetricsInv, MetricsTypeOK, Days
<1>3. \A x \in ever : x \in RawRow /\ x.day \in Days
  BY DEF MetricsInv, MetricsTypeOK, RawRow
<1>4. Purged'
  BY <1>1, <1>2, <1>3, MetricsBounds, SettingsAreDays DEF MetricsInv, Purged, Expired, Days
<1>5. RowsFit' BY <1>1, <1>2, <1>3, MetricsBounds DEF MetricsInv, RowsFit, Days
<1>6. \A d : Rollup(d, ever)' = Rollup(d, ever) BY <1>1, RollupNext
<1>7. \A r \in Runs : HonestRun(run[r])'
  <2>1. 1..today \subseteq 1..(today') BY <1>1, <1>2, MetricsBounds DEF Days
  <2> QED BY <1>1, <1>6, <2>1 DEF MetricsInv, HonestRun
<1>8. Exact' BY <1>1, <1>6 DEF MetricsInv, Exact
<1>9. GivenUp' BY <1>1 DEF MetricsInv, GivenUp, InWindow
<1>10. MetricsTypeOK' BY <1>1, <1>2 DEF MetricsInv, MetricsTypeOK
<1> QED BY <1>1, <1>4, <1>5, <1>7, <1>8, <1>9, <1>10 DEF MetricsInv

\* What a step of one run has to account for.
LEMMA RunMoves ==
  ASSUME MetricsInv, NEW r \in Runs, NEW y, run' = [run EXCEPT ![r] = y],
         y \in RollupRun, HonestRun(y),
         failures' \in 0..MaxFailures,
         UNCHANGED <<scope, today, raw, daily, written, ever, behind, given_up>>
  PROVE  MetricsInv'
<1>1. /\ scope' = scope /\ today' = today /\ raw' = raw /\ daily' = daily
      /\ written' = written /\ ever' = ever /\ behind' = behind /\ given_up' = given_up
  OBVIOUS
<1>2. \A d : Rollup(d, ever)' = Rollup(d, ever) BY <1>1, RollupNext
<1>3. run'[r] = y /\ \A q \in Runs \ {r} : run'[q] = run[q]
  BY DEF MetricsInv, MetricsTypeOK
<1>4. MetricsTypeOK' BY <1>1 DEF MetricsInv, MetricsTypeOK
<1>5. ASSUME NEW q \in Runs PROVE HonestRun(run[q])'
  <2>1. HonestRun(run'[q]) BY <1>3 DEF MetricsInv
  <2> QED BY <1>1, <1>2, <2>1 DEF HonestRun
<1>6. Purged' /\ RowsFit' /\ Exact' /\ GivenUp'
  BY <1>1, <1>2 DEF MetricsInv, Purged, Expired, RowsFit, Exact, GivenUp, InWindow
<1> QED BY <1>4, <1>5, <1>6 DEF MetricsInv

LEMMA StartKeeps ==
  ASSUME MetricsInv, NEW r \in Runs, NEW W \in SUBSET Days, W \subseteq 1..today, Start(r, W, W)
  PROVE  MetricsInv'
<1> DEFINE y == [at |-> "running", window |-> W, promised |-> W]
<1>1. y \in RollupRun /\ HonestRun(y) /\ y.at # "computed" BY DEF RollupRun, HonestRun
<1>2. run' = [run EXCEPT ![r] = y] /\ UNCHANGED <<scope, today, raw, daily, written, ever, behind, given_up>>
  BY DEF Start
<1>3. failures' \in 0..MaxFailures BY DEF Start, MetricsInv, MetricsTypeOK
<1> HIDE DEF y
<1> QED BY <1>1, <1>2, <1>3, RunMoves

LEMMA StartsKeep ==
  ASSUME MetricsInv, NEW r \in Runs, StartScheduled(r) \/ StartManual(r) PROVE MetricsInv'
<1>1. today \in Days BY DEF MetricsInv, MetricsTypeOK
<1>2. CASE StartScheduled(r)
  <2>1. /\ ScheduledWindow(r) \in SUBSET Days /\ ScheduledWindow(r) \subseteq 1..today
        /\ {d \in Days : InWindow(d, today)} = ScheduledWindow(r)
    BY <1>1, MetricsBounds DEF ScheduledWindow, InWindow, Days
  <2> QED BY <1>2, <2>1, StartKeeps DEF StartScheduled
<1>3. CASE StartManual(r)
  <2>1. PICK first \in 1..today, last \in 1..today : Start(r, first..last, first..last)
    BY <1>3 DEF StartManual
  <2>2. first..last \in SUBSET Days /\ first..last \subseteq 1..today
    BY <1>1, MetricsBounds DEF Days
  <2> QED BY <2>1, <2>2, StartKeeps
<1> QED BY <1>2, <1>3

LEMMA ComputeKeeps == ASSUME MetricsInv, NEW r \in Runs, Compute(r) PROVE MetricsInv'
<1> DEFINE x == run[r]
           v == [d \in Days |-> IF d \in x.window THEN Rollup(d, raw) ELSE None]
           y == [at |-> "computed", values |-> v, promised |-> x.promised,
                 fresh |-> {d \in x.promised : ~Depleted(d)}]
<1>1. /\ x.at = "running" /\ run' = [run EXCEPT ![r] = y]
      /\ UNCHANGED <<scope, today, raw, daily, failures, written, ever, behind, given_up>>
  BY DEF Compute
<1>2. x \in [at : {"running"}, window : SUBSET Days, promised : SUBSET Days]
  BY <1>1, RunHas DEF MetricsInv
<1>3. x.window = x.promised /\ x.promised \subseteq 1..today
  BY <1>1 DEF MetricsInv, HonestRun
<1>4. /\ raw \in SUBSET RawRow /\ IsFiniteSet(raw) /\ Cardinality(raw) <= MaxRows
      /\ ever \in SUBSET RawRow /\ raw \subseteq ever /\ scope \in Scopes
  <2>1. /\ raw \in SUBSET ever /\ IsFiniteSet(ever) /\ Cardinality(ever) <= written
        /\ written \in Count /\ raw \in SUBSET RawRow /\ ever \in SUBSET RawRow /\ scope \in Scopes
    BY DEF MetricsInv, RowsFit, Purged, MetricsTypeOK
  <2>2. /\ IsFiniteSet(raw) /\ Cardinality(raw) <= Cardinality(ever)
        /\ Cardinality(raw) \in Nat /\ Cardinality(ever) \in Nat
    BY <2>1, FS_Subset, FS_CardinalityType
  <2> QED BY <2>1, <2>2, MetricsBounds DEF Count
<1>5. v \in [Days -> Aggregate]
  <2>1. \A d \in Days : Rollup(d, raw) \in Aggregate BY <1>4, RollupIsAggregate
  <2> QED BY <2>1 DEF Aggregate
<1>6. /\ y.at = "computed" /\ y.values = v /\ y.promised = x.promised
      /\ y.fresh = {d \in x.promised : ~Depleted(d)}
  OBVIOUS
<1>7. y \in RollupRun BY <1>2, <1>5 DEF RollupRun
<1>8. \A d \in Days : v[d] = IF d \in x.window THEN Rollup(d, raw) ELSE None OBVIOUS
<1> HIDE DEF y, v
<1>9. HonestRun(y)
  <2>1. \A d \in y.fresh : y.values[d] = Rollup(d, ever)
    BY <1>2, <1>3, <1>6, <1>8, Undepleted DEF MetricsInv
  <2> QED BY <1>2, <1>3, <1>6, <1>8, <2>1 DEF HonestRun
<1>11. failures' \in 0..MaxFailures BY <1>1 DEF MetricsInv, MetricsTypeOK
<1> QED BY <1>1, <1>6, <1>7, <1>9, <1>11, RunMoves

LEMMA FailKeeps == ASSUME MetricsInv, NEW r \in Runs, Fail(r) PROVE MetricsInv'
<1> DEFINE y == [at |-> "failed"]
<1>1. y \in RollupRun /\ HonestRun(y) /\ y.at # "computed" BY DEF RollupRun, HonestRun
<1>2. run' = [run EXCEPT ![r] = y] /\ UNCHANGED <<scope, today, raw, daily, written, ever, behind, given_up>>
  BY DEF Fail
<1>3. failures' \in 0..MaxFailures BY MetricsBounds DEF Fail, MetricsInv, MetricsTypeOK
<1> HIDE DEF y
<1> QED BY <1>1, <1>2, <1>3, RunMoves

LEMMA CommitKeeps == ASSUME MetricsInv, NEW r \in Runs, Commit(r) PROVE MetricsInv'
<1> DEFINE x == run[r]
           stale == x.promised \ Renewed(r)
           y == [at |-> "succeeded"]
<1>1. /\ x.at = "computed"
      /\ \A d \in Days : daily'[d] = IF x.values[d] # None THEN x.values[d] ELSE daily[d]
      /\ daily' = [d \in Days |-> IF x.values[d] # None THEN x.values[d] ELSE daily[d]]
      /\ behind' = (behind \ Renewed(r)) \union stale
      /\ given_up' = (given_up \ Renewed(r)) \union {d \in stale : ~InWindow(d, today)}
      /\ run' = [run EXCEPT ![r] = y]
  BY DEF Commit, Written
<1>2. scope' = scope /\ today' = today /\ raw' = raw /\ failures' = failures
      /\ written' = written /\ ever' = ever
  BY DEF Commit
<1>3. /\ x \in [at : {"computed"}, values : [Days -> Aggregate],
                promised : SUBSET Days, fresh : SUBSET Days]
      /\ x.values \in [Days -> Aggregate] /\ x.promised \in SUBSET Days /\ x.fresh \in SUBSET Days
  BY <1>1, RunHas DEF MetricsInv
<1>4. /\ x.fresh \subseteq x.promised
      /\ \A d \in Days \ x.promised : x.values[d] = None
      /\ \A d \in x.fresh : x.values[d] = Rollup(d, ever)
      /\ Renewed(r) = {d \in x.fresh : x.values[d] # None \/ daily[d] = None}
  BY <1>1 DEF MetricsInv, HonestRun, Renewed
<1>5. \A d : Rollup(d, ever)' = Rollup(d, ever) BY <1>2, RollupNext
<1>6. /\ y \in RollupRun /\ HonestRun(y) /\ y.at = "succeeded" BY DEF RollupRun, HonestRun
<1> HIDE DEF y
<1>7. run'[r] = y /\ \A q \in Runs \ {r} : run'[q] = run[q]
  BY <1>1 DEF MetricsInv, MetricsTypeOK
<1>8. MetricsTypeOK'
  <2>1. daily' \in [Days -> Aggregate] BY <1>1, <1>3 DEF MetricsInv, MetricsTypeOK
  <2>2. behind' \subseteq Days /\ given_up' \subseteq Days
    BY <1>1, <1>3, <1>4 DEF MetricsInv, MetricsTypeOK
  <2> QED BY <1>1, <1>2, <1>6, <2>1, <2>2 DEF MetricsInv, MetricsTypeOK
<1>9. ASSUME NEW q \in Runs PROVE HonestRun(run[q])'
  <2>1. HonestRun(run'[q]) BY <1>6, <1>7 DEF MetricsInv
  <2> QED BY <1>2, <1>5, <2>1 DEF HonestRun
<1>10. Exact'
  <2> SUFFICES ASSUME NEW d \in Days, d \notin behind' PROVE daily'[d] = Rollup(d, ever)
    BY <1>5 DEF Exact
  <2>1. CASE d \in Renewed(r)
    <3>1. CASE x.values[d] # None BY <1>1, <1>4, <2>1, <3>1
    <3>2. CASE x.values[d] = None BY <1>1, <1>4, <2>1, <3>2
    <3> QED BY <3>1, <3>2
  <2>2. CASE d \notin Renewed(r)
    <3>1. d \notin x.promised /\ d \notin behind BY <1>1, <2>2
    <3> QED BY <1>1, <1>4, <3>1 DEF MetricsInv, Exact
  <2> QED BY <2>1, <2>2
<1>11. GivenUp' BY <1>1, <1>2 DEF MetricsInv, GivenUp, InWindow
<1>13. Purged' /\ RowsFit' BY <1>2 DEF MetricsInv, Purged, Expired, RowsFit
<1> QED BY <1>8, <1>9, <1>10, <1>11, <1>13 DEF MetricsInv

LEMMA MetricsStepKeeps == ASSUME MetricsInv, [MetricsNext]_metricsVars PROVE MetricsInv'
<1>1. CASE UNCHANGED metricsVars
  <2>1. \A d : Rollup(d, ever)' = Rollup(d, ever) BY <1>1, RollupNext DEF metricsVars
  <2> QED BY <1>1, <2>1 DEF metricsVars, MetricsInv, MetricsTypeOK, Purged, Expired, RowsFit, HonestRun,
                            Exact, GivenUp, InWindow
<1>2. CASE NextDay BY <1>2, NextDayKeeps
<1>3. CASE Purge BY <1>3, PurgeKeeps
<1>4. ASSUME NEW t \in Tables, NEW w \in Who, NEW s \in States[t], Write(t, w, s) PROVE MetricsInv'
  BY <1>4, WriteKeeps
<1>5. ASSUME NEW x \in raw, NEW s \in States[x.table], ChangeState(x, s) PROVE MetricsInv'
  BY <1>5, ChangeKeeps
<1>6. ASSUME NEW r \in Runs, StartScheduled(r) \/ StartManual(r) \/ Compute(r) \/ Commit(r) \/ Fail(r)
      PROVE  MetricsInv'
  BY <1>6, StartsKeep, ComputeKeeps, CommitKeeps, FailKeeps
<1>7. ASSUME NEW w \in Who, Forget(w) PROVE MetricsInv'
  BY <1>7, ForgetKeeps
<1> QED BY <1>1, <1>2, <1>3, <1>4, <1>5, <1>6, <1>7 DEF MetricsNext

LEMMA MetricsBegin == ASSUME MetricsInit PROVE MetricsInv
<1>1. /\ scope \in Scopes /\ today = 1 /\ raw = {} /\ ever = {} /\ failures = 0 /\ written = 0
      /\ daily = [d \in Days |-> None] /\ run = [r \in Runs |-> Waiting]
      /\ behind = Days /\ given_up = {}
  BY DEF MetricsInit
<1>2. MetricsTypeOK
  BY <1>1, MetricsBounds DEF MetricsTypeOK, Days, Count, Aggregate, RollupRun, Waiting
<1>3. RowsFit BY <1>1, FS_EmptySet, MetricsBounds DEF RowsFit
<1>4. \A r \in Runs : HonestRun(run[r]) /\ run[r].at = "waiting" BY <1>1 DEF HonestRun, Waiting
<1>5. GivenUp
  BY <1>1, MetricsBounds, SettingsAreDays DEF GivenUp, InWindow, Days
<1> QED BY <1>1, <1>2, <1>3, <1>4, <1>5 DEF MetricsInv, Purged, Exact

LEMMA MetricsInvariance == MetricsSpec => []MetricsInv
<1>1. MetricsInit => MetricsInv BY MetricsBegin
<1>2. MetricsInv /\ [MetricsNext]_metricsVars => MetricsInv' BY MetricsStepKeeps
<1> QED BY <1>1, <1>2, PTL DEF MetricsSpec

\* Every variable of the metrics keeps its type: no aggregate, run or raw row is
\* ever of another shape (metrics/rollups.py, metrics/purge.py).
THEOREM MetricsTypeCorrect == MetricsSpec => []MetricsTypeOK
<1>1. MetricsInv => MetricsTypeOK BY DEF MetricsInv
<1> QED BY <1>1, MetricsInvariance, PTL

\* A day out of the window keeps the numbers of the rows there were, although the
\* purge has taken them, but for the five named causes: a late change, a slower run,
\* a run over what the purge had left, an erased subscriber, a day without rows any
\* more (metrics/rollups.py, metrics/purge.py, delete_subscriber).
THEOREM ClosedDaysStayExact == MetricsSpec => []ClosedDaysAreExact
<1>1. MetricsInv => ClosedDaysAreExact
  <2> SUFFICES ASSUME MetricsInv, NEW d \in 1..today \ given_up, ~InWindow(d, today)
               PROVE  daily[d] = Rollup(d, ever)
    BY DEF ClosedDaysAreExact
  <2>1. d \in Days /\ d <= today
    BY MetricsBounds DEF MetricsInv, MetricsTypeOK, Days
  <2>2. d \notin behind BY <2>1 DEF MetricsInv, GivenUp
  <2> QED BY <2>1, <2>2 DEF MetricsInv, Exact
<1> QED BY <1>1, MetricsInvariance, PTL

\* Raw rows are kept for longer than the window and the longest count of active
\* subscribers reach back: with Lookback 3 and Week 30, 31 days.  The settings may say
\* otherwise: config.py only asks each of them to be at least 1.
RetentionOutlastsLookback == Retention + 2 >= Lookback + Week

\* What the scheduled rollup reads of a day in its window is what there was.
WindowIsWhole == \A d \in Days : InWindow(d, today) => Rollup(d, raw) = Rollup(d, ever)

\* The purge never takes a row from a day the scheduled rollup still writes, if the
\* settings keep the rows for that long: what it reads is all there was, but the
\* subscribers an administrator has erased (metrics/purge.py RULES, config.py).
THEOREM ScheduledRunsReadAll ==
  ASSUME RetentionOutlastsLookback PROVE MetricsSpec => []WindowIsWhole
<1>1. MetricsInv => WindowIsWhole
  <2> SUFFICES ASSUME MetricsInv, NEW d \in Days, InWindow(d, today) PROVE ~Depleted(d)
    BY Undepleted DEF WindowIsWhole, MetricsInv
  <2>1. today \in Days /\ d <= today /\ d + Lookback > today
    BY DEF InWindow, MetricsInv, MetricsTypeOK
  <2> QED BY <2>1, MetricsBounds, SettingsAreDays DEF Depleted, Days, RetentionOutlastsLookback
<1> QED BY <1>1, MetricsInvariance, PTL

-----------------------------------------------------------------------------
(* Schedules: the invariant.                                               *)

Stages ==
  [patch |-> {"parameters", "save", "find", "read", "push", "clear"},
   resync |-> {"find", "read", "push", "clear"},
   deploy |-> {"apply", "mark", "unmark"},
   run |-> {"find", "create", "mirror"}]

\* A job is at a stage of its kind and has its own keys before it.
Ordered(j) ==
  /\ j.at \in Stages[j.kind] /\ j.key \notin j.left
  /\ j.kind \in {"patch", "run"} => j.left = {}
  /\ j.kind = "run" => j.clean = {}
  /\ j.at = "parameters" => j.update.parameters # Keep
  /\ j.kind = "resync" => j.update = NoUpdate

\* Jobs write the rows they are at, but for a mere start of a run.
Edits(a, k) == job[a] # Idle /\ job[a].kind # "run" /\ k \in Touches(a)
CleanKeys(a) == IF job[a] = Idle THEN {} ELSE job[a].clean

\* A clean key is edited by nobody else; one edited by several is known to be raced.
Alone == \A a, b \in Actors : a # b => \A k \in CleanKeys(a) : ~Edits(b, k)
RacesKnown == \A a \in Actors, k \in Keys : Edits(a, k) => k \in raced \/ k \in CleanKeys(a)

InSync(k) ==
  /\ deployments[k].schedule = Fires(rows[k].time, rows[k].enabled)
  /\ EffectiveParameters(k, rows[k]) \in {Nothing, deployments[k].parameters}

SameSchedule(x, y) == x.time = y.time /\ x.enabled = y.enabled
SameRow(x, y) == SameSchedule(x, y) /\ x.parameters = y.parameters

\* A key a job has yet to come to is as the job has read it.
Ahead(j, k) == SameRow(rows[k], j.seen[k]) /\ (j.kind = "resync" => rows[k].sync_pending)

\* At the key in hand: what the job has read or written still stands, and the mark
\* is set until the push has arrived.
InHand(j, k) ==
  /\ j.at \in {"parameters", "save"} => SameSchedule(rows[k], j.seen[k])
  /\ j.at \in {"find", "read", "push", "clear"} =>
       rows[k].sync_pending /\ SameSchedule(rows[k], Wanted(j))
  /\ j.at = "push" => j.parameters = EffectiveParameters(k, rows[k])
  /\ j.at \in {"clear", "mark"} => InSync(k)
  /\ j.kind = "deploy" => SameRow(rows[k], j.seen[k])

\* A job knows the rows that are clean.
Knows(j) ==
  /\ \A k \in j.clean \intersect j.left : Ahead(j, k)
  /\ j.key \in j.clean => InHand(j, j.key)

\* The property, at every key by itself.
Told(k) == ~rows[k].sync_pending /\ deployments[k].registered => InSync(k)

SchedulesInv ==
  /\ TypeOK
  /\ \A a \in Actors : job[a] # Idle => Ordered(job[a]) /\ Knows(job[a])
  /\ Alone
  /\ RacesKnown
  /\ \A k \in Keys \ raced : Told(k)

-----------------------------------------------------------------------------
(* Schedules: a job begins.                                                *)

LEMMA IdleIsNoJob == Idle \notin Job BY DEF Idle, Job

LEMMA JobHas ==
  ASSUME TypeOK, NEW a \in Actors, job[a] # Idle
  PROVE  /\ job[a] \in Job
         /\ job[a].kind \in {"patch", "resync", "deploy", "run"} /\ job[a].key \in Keys
         /\ job[a].left \in SUBSET Keys /\ job[a].clean \in SUBSET Keys
         /\ job[a].seen \in [Keys -> Row] /\ job[a].update \in ScheduleUpdate
         /\ job[a].parameters \in Parameters \union {Nothing}
BY DEF TypeOK, Job

\* A beginning job and those it meets.
LEMMA JobBegins ==
  ASSUME SchedulesInv, NEW a \in Actors, NEW j \in Job, NEW K \in SUBSET Keys, Starts(a, j, K),
         Ordered(j), j.clean = {},
         \/ K = {j.key} \union j.left /\ j.kind # "run"
         \/ K = {} /\ j.kind = "run",
         \A k \in K : IF k \in j.left THEN Ahead(j, k) ELSE InHand(j, k),
         UNCHANGED <<rows, deployments, started, mirror, mishaps>>
  PROVE  SchedulesInv'
<1> DEFINE others == UNION {Touches(b) : b \in Actors \ {a}}
           y == [j EXCEPT !.clean = K \ others]
<1>1. /\ job[a] = Idle /\ jobs' = jobs + 1
      /\ job' = [b \in Actors |->
                   IF b = a THEN y
                   ELSE IF job[b] = Idle THEN Idle
                   ELSE [job[b] EXCEPT !.clean = @ \ K]]
      /\ raced' = raced \union (K \intersect others)
  BY DEF Starts
<1>2. /\ rows' = rows /\ deployments' = deployments /\ started' = started /\ mirror' = mirror
      /\ mishaps' = mishaps
  OBVIOUS
<1>3. /\ y \in Job /\ y.clean = K \ others /\ y.kind = j.kind /\ y.at = j.at /\ y.key = j.key
      /\ y.left = j.left /\ y.seen = j.seen /\ y.update = j.update /\ y.parameters = j.parameters
  BY DEF Job
<1>4. y # Idle BY <1>3, IdleIsNoJob
<1>5. \A b \in Actors \ {a} : Touches(b) \subseteq others OBVIOUS
<1> HIDE DEF y, others
<1>6. job'[a] = y /\ \A b \in Actors \ {a} : job[b] = Idle => job'[b] = Idle
  BY <1>1
<1>7. ASSUME NEW b \in Actors \ {a}, job[b] # Idle
      PROVE  /\ job'[b] \in Job /\ job'[b] # Idle /\ job'[b].clean = job[b].clean \ K
             /\ job'[b].kind = job[b].kind /\ job'[b].at = job[b].at /\ job'[b].key = job[b].key
             /\ job'[b].left = job[b].left /\ job'[b].seen = job[b].seen
             /\ job'[b].update = job[b].update /\ job'[b].parameters = job[b].parameters
  <2>1. job[b] \in Job BY <1>7, JobHas DEF SchedulesInv
  <2>2. job'[b] = [job[b] EXCEPT !.clean = @ \ K] BY <1>1, <1>7
  <2> QED BY <2>1, <2>2, IdleIsNoJob DEF Job
<1>8. TypeOK'
  <2>1. job' \in [Actors -> Job \union {Idle}] BY <1>1, <1>3, <1>6, <1>7
  <2>2. jobs' \in Nat /\ raced' \subseteq Keys BY <1>1 DEF SchedulesInv, TypeOK
  <2> QED BY <1>2, <2>1, <2>2 DEF SchedulesInv, TypeOK
<1>9. \A b \in Actors \ {a} : /\ Touches(b)' = Touches(b) /\ \A k : Edits(b, k)' <=> Edits(b, k)
                              /\ CleanKeys(b)' = CleanKeys(b) \ K
  BY <1>6, <1>7 DEF Touches, Edits, CleanKeys
<1>10. /\ CleanKeys(a)' = K \ others
       /\ \A k : Edits(a, k)' => k \in K
  BY <1>3, <1>4, <1>6 DEF Touches, Edits, CleanKeys
<1>11. Alone'
  <2> SUFFICES ASSUME NEW b \in Actors, NEW c \in Actors, b # c, NEW k \in CleanKeys(b)', Edits(c, k)'
               PROVE  FALSE
    BY DEF Alone
  <2>1. CASE b = a
    BY <1>5, <1>9, <1>10, <2>1 DEF Edits
  <2>2. CASE c = a
    BY <1>9, <1>10, <2>2
  <2>3. CASE b # a /\ c # a
    BY <1>9, <2>3 DEF SchedulesInv, Alone
  <2> QED BY <2>1, <2>2, <2>3
<1>12. RacesKnown'
  <2> SUFFICES ASSUME NEW b \in Actors, NEW k \in Keys, Edits(b, k)'
               PROVE  k \in raced' \/ k \in CleanKeys(b)'
    BY DEF RacesKnown
  <2>1. CASE b = a BY <1>1, <1>10, <2>1
  <2>2. CASE b # a
    <3>1. Edits(b, k) /\ k \in others BY <1>5, <1>9, <2>2 DEF Edits
    <3>2. k \in raced \/ k \in CleanKeys(b) BY <3>1 DEF SchedulesInv, RacesKnown
    <3> QED BY <1>1, <1>9, <2>2, <3>1, <3>2
  <2> QED BY <2>1, <2>2
<1>13. ASSUME NEW b \in Actors, job'[b] # Idle PROVE Ordered(job[b])' /\ Knows(job[b])'
  <2>1. CASE b = a
    <3>1. Ordered(y) BY <1>3 DEF Ordered
    <3>2. Knows(y)
      BY <1>3 DEF Knows, Ahead, InHand, Wanted, Ordered
    <3> QED BY <1>2, <1>6, <2>1, <3>1, <3>2
            DEF Ordered, Knows, Ahead, InHand, InSync, Wanted
  <2>2. CASE b # a
    <3>1. job[b] # Idle BY <1>6, <1>13, <2>2
    <3>2. Ordered(job[b]) /\ Knows(job[b]) BY <3>1 DEF SchedulesInv
    <3>3. Ordered(job'[b]) BY <1>7, <2>2, <3>1, <3>2 DEF Ordered
    <3>4. Knows(job'[b])
      BY <1>7, <2>2, <3>1, <3>2 DEF Knows, Ahead, InHand, Wanted
    <3> QED BY <1>2, <3>3, <3>4 DEF Ordered, Knows, Ahead, InHand, InSync, Wanted
  <2> QED BY <2>1, <2>2
<1>14. \A k \in Keys \ raced' : Told(k)' BY <1>1, <1>2 DEF SchedulesInv, Told, InSync
<1> QED BY <1>8, <1>11, <1>12, <1>13, <1>14 DEF SchedulesInv

LEMMA NewJobIs ==
  ASSUME TypeOK, NEW kind \in {"patch", "resync", "deploy", "run"},
         NEW at \in {"parameters", "save", "find", "apply"}, NEW key \in Keys,
         NEW left \in SUBSET Keys, NEW update \in ScheduleUpdate,
         NEW x, x = NewJob(kind, at, key, left, update)
  PROVE  /\ x \in Job /\ x.kind = kind /\ x.at = at /\ x.key = key /\ x.left = left
         /\ x.seen = rows /\ x.update = update /\ x.clean = {}
<1>1. x = [kind |-> kind, at |-> at, key |-> key, left |-> left, seen |-> rows,
           update |-> update, parameters |-> Nothing, clean |-> {}]
  BY DEF NewJob
<1>2. /\ x.kind = kind /\ x.at = at /\ x.key = key /\ x.left = left /\ x.seen = rows
      /\ x.update = update /\ x.clean = {}
  BY <1>1
<1>3. x \in Job BY <1>1 DEF Job, TypeOK
<1> QED BY <1>2, <1>3

LEMMA NothingNamed ==
  /\ NoUpdate \in ScheduleUpdate
  /\ NoUpdate.time = Keep /\ NoUpdate.enabled = Keep /\ NoUpdate.parameters = Keep
BY DEF NoUpdate, ScheduleUpdate

\* An edit begins with the row just read.
LEMMA PatchBegins ==
  ASSUME SchedulesInv, NEW a \in Actors, NEW k \in Keys, NEW update \in ScheduleUpdate,
         PatchSchedule(a, k, update)
  PROVE  SchedulesInv'
<1> PICK at : at = IF update.parameters = Keep THEN "save" ELSE "parameters" OBVIOUS
<1> PICK x : x = NewJob("patch", at, k, {}, update) OBVIOUS
<1>1. /\ TypeOK /\ at \in {"parameters", "save", "find", "apply"} /\ {} \in SUBSET Keys
      /\ "patch" \in {"patch", "resync", "deploy", "run"}
  BY DEF SchedulesInv
<1>2. /\ x \in Job /\ x.kind = "patch" /\ x.at = at /\ x.key = k /\ x.left = {} /\ x.seen = rows
      /\ x.update = update /\ x.clean = {}
  BY <1>1, NewJobIs DEF NewJob
<1>3. Starts(a, x, {k}) BY DEF PatchSchedule
<1>4. Ordered(x) BY <1>2 DEF Ordered, Stages
<1>5. InHand(x, k) BY <1>2 DEF InHand, SameSchedule
<1>6. UNCHANGED <<rows, deployments, started, mirror, mishaps>> BY DEF PatchSchedule
<1> HIDE DEF SchedulesInv
<1> QED BY <1>2, <1>3, <1>4, <1>5, <1>6, JobBegins

LEMMA ToggleBegins ==
  ASSUME SchedulesInv, NEW a \in Actors, NEW k \in Keys, Toggle(a, k)
  PROVE  SchedulesInv'
<1>1. (~rows[k].enabled) \in BOOLEAN OBVIOUS
<1>2. [NoUpdate EXCEPT !.enabled = ~rows[k].enabled] \in ScheduleUpdate
  BY <1>1 DEF NoUpdate, ScheduleUpdate
<1> QED BY <1>2, PatchBegins DEF Toggle

\* A resync takes the rows that are marked, and they stay so until it comes to them.
LEMMA ResyncBegins ==
  ASSUME SchedulesInv, NEW a \in Actors, ResyncPending(a)
  PROVE  SchedulesInv'
<1> PICK marked : marked = {k \in Keys : rows[k].sync_pending} OBVIOUS
<1>1. PICK k \in marked :
        Starts(a, NewJob("resync", "find", k, marked \ {k}, NoUpdate), marked)
  BY DEF ResyncPending
<1> PICK x : x = NewJob("resync", "find", k, marked \ {k}, NoUpdate) OBVIOUS
<1>2. /\ TypeOK /\ k \in Keys /\ marked \in SUBSET Keys /\ marked \ {k} \in SUBSET Keys
      /\ "resync" \in {"patch", "resync", "deploy", "run"}
      /\ "find" \in {"parameters", "save", "find", "apply"}
  BY DEF SchedulesInv
<1>3. /\ x \in Job /\ x.kind = "resync" /\ x.at = "find" /\ x.key = k /\ x.left = marked \ {k}
      /\ x.seen = rows /\ x.update = NoUpdate /\ x.clean = {}
  BY <1>2, NewJobIs, NothingNamed DEF NewJob
<1>4. Ordered(x) BY <1>3 DEF Ordered, Stages
<1>5. \A m \in marked : Ahead(x, m) BY <1>3 DEF Ahead, SameRow, SameSchedule
<1>6. InHand(x, k) BY <1>2, <1>3, NothingNamed DEF InHand, SameSchedule, Wanted
<1>7. UNCHANGED <<rows, deployments, started, mirror, mishaps>> BY DEF ResyncPending
<1>8. marked = {x.key} \union x.left
  <2>1. marked = {k} \union (marked \ {k}) BY <1>1
  <2> QED BY <1>3, <2>1
<1>9. Starts(a, x, marked) BY <1>1
<1> HIDE DEF SchedulesInv
<1> QED BY <1>2, <1>3, <1>4, <1>5, <1>6, <1>7, <1>8, <1>9, JobBegins

LEMMA DeployBegins ==
  ASSUME SchedulesInv, NEW a \in Actors, DeployAll(a)
  PROVE  SchedulesInv'
<1>1. PICK k \in Keys : Starts(a, NewJob("deploy", "apply", k, Keys \ {k}, NoUpdate), Keys)
  BY DEF DeployAll
<1> PICK x : x = NewJob("deploy", "apply", k, Keys \ {k}, NoUpdate) OBVIOUS
<1>2. /\ TypeOK /\ Keys \ {k} \in SUBSET Keys
      /\ "deploy" \in {"patch", "resync", "deploy", "run"}
      /\ "apply" \in {"parameters", "save", "find", "apply"}
  BY DEF SchedulesInv
<1>3. /\ x \in Job /\ x.kind = "deploy" /\ x.at = "apply" /\ x.key = k /\ x.left = Keys \ {k}
      /\ x.seen = rows /\ x.clean = {}
  BY <1>2, NewJobIs, NothingNamed DEF NewJob
<1>4. Ordered(x) BY <1>3 DEF Ordered, Stages
<1>5. \A m \in Keys : Ahead(x, m) BY <1>3 DEF Ahead, SameRow, SameSchedule
<1>6. InHand(x, k) BY <1>3 DEF InHand, SameRow, SameSchedule
<1>7. UNCHANGED <<rows, deployments, started, mirror, mishaps>> BY DEF DeployAll
<1>8. Keys = {x.key} \union x.left /\ Keys \in SUBSET Keys BY <1>3
<1>9. Starts(a, x, Keys) BY <1>1
<1> HIDE DEF SchedulesInv
<1> QED BY <1>3, <1>4, <1>5, <1>6, <1>7, <1>8, <1>9, JobBegins

LEMMA RunBegins ==
  ASSUME SchedulesInv, NEW a \in Actors, NEW k \in Keys, RunNow(a, k)
  PROVE  SchedulesInv'
<1> PICK x : x = NewJob("run", "find", k, {}, NoUpdate) OBVIOUS
<1>1. /\ TypeOK /\ {} \in SUBSET Keys /\ "run" \in {"patch", "resync", "deploy", "run"}
      /\ "find" \in {"parameters", "save", "find", "apply"}
  BY DEF SchedulesInv
<1>2. /\ x \in Job /\ x.kind = "run" /\ x.at = "find" /\ x.key = k /\ x.left = {} /\ x.clean = {}
  BY <1>1, NewJobIs, NothingNamed
<1>3. Starts(a, x, {}) BY DEF RunNow
<1>4. Ordered(x) BY <1>2 DEF Ordered, Stages
<1>5. UNCHANGED <<rows, deployments, started, mirror, mishaps>> BY DEF RunNow
<1> HIDE DEF SchedulesInv
<1> QED BY <1>2, <1>3, <1>4, <1>5, JobBegins

-----------------------------------------------------------------------------
(* Schedules: what a step leaves of the jobs' knowledge.                   *)

\* Neither the schedule, the mark nor the deployment of a key changes.
Stays(k) ==
  /\ SameRow(rows[k], rows'[k]) /\ rows[k].sync_pending = rows'[k].sync_pending
  /\ deployments[k] = deployments'[k]

LEMMA InHandStill ==
  ASSUME NEW j, NEW k, InHand(j, k), Stays(k)
  PROVE  InHand(j, k)'
<1>1. /\ rows[k].time = rows'[k].time /\ rows[k].enabled = rows'[k].enabled
      /\ rows[k].parameters = rows'[k].parameters
      /\ rows[k].sync_pending = rows'[k].sync_pending
      /\ deployments[k] = deployments'[k]
  BY DEF Stays, SameRow, SameSchedule
<1>2. EffectiveParameters(k, rows[k]) = EffectiveParameters(k, rows'[k])
  BY <1>1 DEF EffectiveParameters
<1>3. InSync(k) => InSync(k)' BY <1>1, <1>2 DEF InSync
<1> QED BY <1>1, <1>2, <1>3 DEF InHand, SameRow, SameSchedule

LEMMA KnowsStill ==
  ASSUME NEW j, Knows(j), \A k \in j.clean \intersect ({j.key} \union j.left) : Stays(k)
  PROVE  Knows(j)'
<1>1. \A k \in j.clean \intersect j.left : Ahead(j, k)'
  BY DEF Knows, Ahead, Stays, SameRow, SameSchedule
<1>2. j.key \in j.clean => InHand(j, j.key)' BY InHandStill DEF Knows
<1> QED BY <1>1, <1>2 DEF Knows

LEMMA ToldStill ==
  ASSUME NEW k, Told(k), Stays(k)
  PROVE  Told(k)'
<1>1. /\ rows[k].time = rows'[k].time /\ rows[k].enabled = rows'[k].enabled
      /\ rows[k].parameters = rows'[k].parameters
      /\ rows[k].sync_pending = rows'[k].sync_pending
      /\ deployments[k] = deployments'[k]
  BY DEF Stays, SameRow, SameSchedule
<1> QED BY <1>1 DEF Told, InSync, EffectiveParameters

LEMMA RowMoves ==
  ASSUME rows \in [Keys -> Row], NEW k \in Keys, NEW row \in Row,
         rows' = [rows EXCEPT ![k] = row]
  PROVE  /\ rows' \in [Keys -> Row] /\ rows'[k] = row
         /\ \A m \in Keys \ {k} : rows'[m] = rows[m]
OBVIOUS

LEMMA RowGiven ==
  ASSUME NEW old \in Row, NEW parameters \in Parameters \union {Nothing}, NEW row,
         row = [old EXCEPT !.parameters = parameters, !.sync_pending = TRUE]
  PROVE  row \in Row /\ row.sync_pending /\ SameSchedule(old, row)
BY DEF Row, SameSchedule

LEMMA RowTimed ==
  ASSUME rows \in [Keys -> Row], NEW k \in Keys, NEW t \in Times, NEW e \in BOOLEAN,
         rows' = [rows EXCEPT ![k].time = t, ![k].enabled = e, ![k].sync_pending = TRUE]
  PROVE  /\ rows' \in [Keys -> Row]
         /\ rows'[k].time = t /\ rows'[k].enabled = e /\ rows'[k].sync_pending
         /\ \A m \in Keys \ {k} : rows'[m] = rows[m]
         /\ \A m \in Keys : rows'[m].deployment_id = rows[m].deployment_id
<1> PICK row : row = [rows[k] EXCEPT !.time = t, !.enabled = e, !.sync_pending = TRUE] OBVIOUS
<1>1. row \in Row BY DEF Row
<1>2. /\ row.time = t /\ row.enabled = e /\ row.sync_pending
      /\ row.deployment_id = rows[k].deployment_id
  BY DEF Row
<1>3. rows' = [rows EXCEPT ![k] = row] OBVIOUS
<1>4. /\ rows' \in [Keys -> Row] /\ rows'[k] = row /\ \A m \in Keys \ {k} : rows'[m] = rows[m]
  BY <1>1, <1>3, RowMoves
<1> QED BY <1>2, <1>4

LEMMA RowWanted ==
  ASSUME rows \in [Keys -> Row], NEW k \in Keys, NEW w, w.time \in Times, w.enabled \in BOOLEAN,
         rows' = [rows EXCEPT ![k].time = w.time, ![k].enabled = w.enabled,
                              ![k].sync_pending = TRUE]
  PROVE  /\ rows' \in [Keys -> Row] /\ rows'[k].sync_pending
         /\ SameSchedule(rows'[k], w) /\ \A m \in Keys \ {k} : rows'[m] = rows[m]
<1> PICK row : row = [rows[k] EXCEPT !.time = w.time, !.enabled = w.enabled, !.sync_pending = TRUE]
  OBVIOUS
<1>1. row \in Row BY DEF Row
<1>2. row.time = w.time /\ row.enabled = w.enabled /\ row.sync_pending BY DEF Row
<1>3. rows' = [rows EXCEPT ![k] = row] OBVIOUS
<1>4. rows' \in [Keys -> Row] /\ rows'[k] = row /\ \A m \in Keys \ {k} : rows'[m] = rows[m]
  BY <1>1, <1>3, RowMoves
<1> QED BY <1>2, <1>4 DEF SameSchedule

\* A migration marks the row, and whoever is about to write it knows nothing of it any more.
LEMMA MigrateKeeps ==
  ASSUME SchedulesInv, NEW k \in Keys, NEW t \in Times, NEW e \in BOOLEAN, Migrate(k, t, e)
  PROVE  SchedulesInv'
<1>1. /\ rows' = [rows EXCEPT ![k].time = t, ![k].enabled = e, ![k].sync_pending = TRUE]
      /\ jobs' = jobs + 1
      /\ raced' = IF \E a \in Actors : k \in Touches(a) THEN raced \union {k} ELSE raced
      /\ job' = [b \in Actors |->
                   IF job[b] = Idle THEN Idle ELSE [job[b] EXCEPT !.clean = @ \ {k}]]
      /\ deployments' = deployments /\ started' = started /\ mirror' = mirror
      /\ mishaps' = mishaps
  BY DEF Migrate
<1>2. TypeOK BY DEF SchedulesInv
<1>3. rows' \in [Keys -> Row] /\ rows'[k].sync_pending
  <2>1. rows \in [Keys -> Row] BY <1>2 DEF TypeOK
  <2> QED BY <1>1, <2>1, RowTimed
<1>4. \A m \in Keys \ {k} : Stays(m)
  BY <1>1, <1>2 DEF TypeOK, Stays, SameRow, SameSchedule
<1>5. \A b \in Actors : job[b] = Idle => job'[b] = Idle BY <1>1
<1>6. ASSUME NEW b \in Actors, job[b] # Idle
      PROVE  /\ job'[b] \in Job /\ job'[b] # Idle /\ job'[b].clean = job[b].clean \ {k}
             /\ job'[b].kind = job[b].kind /\ job'[b].at = job[b].at /\ job'[b].key = job[b].key
             /\ job'[b].left = job[b].left /\ job'[b].seen = job[b].seen
             /\ job'[b].update = job[b].update /\ job'[b].parameters = job[b].parameters
  <2>1. job[b] \in Job BY <1>2, <1>6, JobHas
  <2>2. job'[b] = [job[b] EXCEPT !.clean = @ \ {k}] BY <1>1, <1>6
  <2> QED BY <2>1, <2>2, IdleIsNoJob DEF Job
<1>7. TypeOK'
  <2>1. job' \in [Actors -> Job \union {Idle}] BY <1>1, <1>5, <1>6
  <2>2. jobs' \in Nat /\ raced' \subseteq Keys BY <1>1, <1>2 DEF TypeOK
  <2> QED BY <1>1, <1>2, <1>3, <2>1, <2>2 DEF TypeOK
<1>8. \A b \in Actors : /\ Touches(b)' = Touches(b) /\ \A m : Edits(b, m)' <=> Edits(b, m)
                        /\ CleanKeys(b)' = CleanKeys(b) \ {k}
  BY <1>5, <1>6 DEF Touches, Edits, CleanKeys
<1>9. Alone' BY <1>8 DEF SchedulesInv, Alone
<1>10. RacesKnown'
  <2> SUFFICES ASSUME NEW b \in Actors, NEW m \in Keys, Edits(b, m)'
               PROVE  m \in raced' \/ m \in CleanKeys(b)'
    BY DEF RacesKnown
  <2>1. Edits(b, m) /\ m \in Touches(b) BY <1>8 DEF Edits
  <2>2. m \in raced \/ m \in CleanKeys(b) BY <2>1 DEF SchedulesInv, RacesKnown
  <2> QED BY <1>1, <1>8, <2>1, <2>2
<1>11. ASSUME NEW b \in Actors, job'[b] # Idle PROVE Ordered(job[b])' /\ Knows(job[b])'
  <2>1. job[b] # Idle BY <1>5, <1>11
  <2> PICK j : j = job[b] OBVIOUS
  <2> PICK y : y = job'[b] OBVIOUS
  <2>2. Ordered(j) /\ Knows(j) BY <2>1 DEF SchedulesInv
  <2>3. /\ y.clean = j.clean \ {k} /\ y.kind = j.kind /\ y.at = j.at /\ y.key = j.key
        /\ y.left = j.left /\ y.seen = j.seen /\ y.update = j.update
        /\ y.parameters = j.parameters
    BY <1>6, <2>1
  <2>4. Ordered(y) BY <2>2, <2>3 DEF Ordered
  <2>5. Knows(y) BY <2>2, <2>3 DEF Knows, Ahead, InHand, Wanted
  <2>6. y.clean \subseteq Keys \ {k} BY <1>2, <2>1, <2>3, JobHas
  <2>7. Knows(y)' BY <1>4, <2>5, <2>6, KnowsStill
  <2> QED
    BY <2>4, <2>7 DEF Ordered, Knows, Ahead, InHand, Wanted, InSync
<1>12. ASSUME NEW m \in Keys \ raced' PROVE Told(m)'
  <2>1. CASE m = k BY <1>3, <2>1 DEF Told
  <2>2. CASE m # k
    <3>1. Told(m) BY <1>1 DEF SchedulesInv
    <3> QED BY <1>4, <2>2, <3>1, ToldStill
  <2> QED BY <2>1, <2>2
<1> QED BY <1>7, <1>9, <1>10, <1>11, <1>12 DEF SchedulesInv

\* A step of a job at one of its keys: what must hold of the job and its key
\* afterwards is enough, for nobody else knows anything of a key it edits.
LEMMA TurnKeeps ==
  ASSUME SchedulesInv, NEW a \in Actors, job[a] # Idle, NEW key \in Keys, key = job[a].key,
         NEW y, job' = [job EXCEPT ![a] = y],
         \/ y = Idle
         \/ /\ y \in Job /\ Ordered(y) /\ Knows(y)'
            /\ y.kind = job[a].kind /\ y.clean = job[a].clean
            /\ {y.key} \union y.left \subseteq {key} \union job[a].left,
         rows' \in [Keys -> Row], deployments' \in [Keys -> Deployment],
         started' \in [Keys -> Nat], mirror' \in [Keys -> Nat], jobs' \in Nat, mishaps' \in Nat,
         \A k \in Keys : k # key \/ job[a].kind = "run" => Stays(k),
         raced' \in {raced, SettledRaces(a)},
         key \notin raced' => Told(key)'
  PROVE  SchedulesInv'
<1>1. TypeOK BY DEF SchedulesInv
<1>3. TypeOK'
  <2>1. raced' \subseteq Keys BY <1>1 DEF TypeOK, SettledRaces
  <2>2. job' \in [Actors -> Job \union {Idle}] BY <1>1 DEF TypeOK
  <2> QED BY <2>1, <2>2 DEF TypeOK
<1>4. job'[a] = y /\ \A b \in Actors \ {a} : job'[b] = job[b] BY <1>1 DEF TypeOK
<1>5. \A b \in Actors : /\ \A k : Edits(b, k)' => Edits(b, k)
                        /\ CleanKeys(b)' \subseteq CleanKeys(b)
                        /\ \A k : Edits(b, k)' /\ k \in CleanKeys(b) => k \in CleanKeys(b)'
  <2>1. \A b \in Actors \ {a} : /\ \A k : Edits(b, k)' <=> Edits(b, k)
                                /\ CleanKeys(b)' = CleanKeys(b)
    BY <1>4 DEF Edits, Touches, CleanKeys
  <2>2. /\ \A k : Edits(a, k)' => Edits(a, k)
        /\ CleanKeys(a)' \subseteq CleanKeys(a)
        /\ \A k : Edits(a, k)' /\ k \in CleanKeys(a) => k \in CleanKeys(a)'
    BY <1>4 DEF Edits, Touches, CleanKeys
  <2> QED BY <2>1, <2>2
<1>6. Alone' BY <1>5 DEF SchedulesInv, Alone
<1>7. job[a].kind = "run" \/ Edits(a, key) BY DEF Edits, Touches
<1>8. RacesKnown'
  <2> SUFFICES ASSUME NEW b \in Actors, NEW k \in Keys, Edits(b, k)', k \notin CleanKeys(b)'
               PROVE  k \in raced'
    BY DEF RacesKnown
  <2>1. Edits(b, k) /\ k \notin CleanKeys(b) BY <1>5
  <2>2. k \in raced BY <2>1 DEF SchedulesInv, RacesKnown
  <2>3. k \notin CleanKeys(a) BY <2>1 DEF SchedulesInv, Alone
  <2>4. k \notin job[a].clean BY <2>3 DEF CleanKeys
  <2> QED BY <2>2, <2>4 DEF SettledRaces
<1>9. ASSUME NEW b \in Actors, job'[b] # Idle PROVE Ordered(job[b])' /\ Knows(job[b])'
  <2>1. CASE b = a
    BY <1>4, <1>9, <2>1 DEF Ordered, Knows, Ahead, InHand, Wanted, InSync
  <2>2. CASE b # a
    <3> PICK j : j = job[b] OBVIOUS
    <3>1. j = job'[b] BY <1>4, <2>2
    <3>2. j # Idle /\ Ordered(j) /\ Knows(j) BY <1>9, <3>1 DEF SchedulesInv
    <3>3. ASSUME NEW k \in j.clean \intersect ({j.key} \union j.left) PROVE Stays(k)
      <4>1. k \in Keys BY <1>1, <3>2, JobHas
      <4>2. k \in CleanKeys(b) BY <3>2 DEF CleanKeys
      <4>3. ~Edits(a, k) BY <2>2, <4>2 DEF SchedulesInv, Alone
      <4> QED BY <1>7, <4>1, <4>3
    <3>4. Knows(j)' BY <3>2, <3>3, KnowsStill
    <3> QED BY <3>1, <3>2, <3>4 DEF Ordered, Knows, Ahead, InHand, Wanted, InSync
  <2> QED BY <2>1, <2>2
<1>10. ASSUME NEW k \in Keys \ raced' PROVE Told(k)'
  <2>1. CASE k = key BY <1>10, <2>1
  <2>2. CASE k # key
    <3>1. k \notin raced BY <2>2 DEF SettledRaces
    <3> QED BY <2>2, <3>1, ToldStill DEF SchedulesInv
  <2> QED BY <2>1, <2>2
<1> QED BY <1>3, <1>6, <1>8, <1>9, <1>10 DEF SchedulesInv

-----------------------------------------------------------------------------
(* Schedules: the steps of a job.                                          *)

LEMMA StageHas ==
  ASSUME SchedulesInv, NEW a \in Actors, NEW at, At(a, at)
  PROVE  /\ TypeOK /\ job[a] # Idle /\ job[a].at = at /\ Ordered(job[a]) /\ Knows(job[a])
         /\ at \in {"parameters", "save"} => job[a].kind = "patch"
         /\ at \in {"read", "push", "clear"} => job[a].kind \in {"patch", "resync"}
         /\ at = "find" => job[a].kind \in {"patch", "resync", "run"}
         /\ at \in {"apply", "mark", "unmark"} => job[a].kind = "deploy"
         /\ at \in {"create", "mirror"} => job[a].kind = "run"
<1>1. job[a] # Idle /\ job[a].at = at BY DEF At
<1>2. TypeOK /\ Ordered(job[a]) /\ Knows(job[a]) BY <1>1 DEF SchedulesInv
<1>3. job[a].kind \in {"patch", "resync", "deploy", "run"} BY <1>1, <1>2, JobHas
<1>4. at \in Stages[job[a].kind] BY <1>1, <1>2 DEF Ordered
<1> QED BY <1>1, <1>2, <1>3, <1>4 DEF Stages

\* A key that is not raced is known to the job that is at it.
LEMMA OwnKey ==
  ASSUME SchedulesInv, NEW a \in Actors, job[a] # Idle, job[a].kind # "run",
         job[a].key \notin raced
  PROVE  job[a].key \in job[a].clean
<1>1. job[a].key \in Keys BY JobHas DEF SchedulesInv
<1>2. Edits(a, job[a].key) BY DEF Edits, Touches
<1> QED BY <1>1, <1>2 DEF SchedulesInv, RacesKnown, CleanKeys

LEMMA StageMoves ==
  ASSUME TypeOK, NEW a \in Actors, job[a] # Idle, Ordered(job[a]),
         NEW at \in Stages[job[a].kind] \ {"parameters"}, GoTo(a, at),
         NEW y, y = [job[a] EXCEPT !.at = at]
  PROVE  /\ job' = [job EXCEPT ![a] = y] /\ y \in Job /\ Ordered(y)
         /\ y.at = at /\ y.kind = job[a].kind /\ y.key = job[a].key /\ y.left = job[a].left
         /\ y.seen = job[a].seen /\ y.update = job[a].update
         /\ y.parameters = job[a].parameters /\ y.clean = job[a].clean
<1>1. job[a] \in Job /\ job[a].kind \in {"patch", "resync", "deploy", "run"} BY JobHas
<1>2. at \in {"save", "find", "read", "push", "clear", "apply", "mark", "unmark", "create", "mirror"}
  BY <1>1 DEF Stages
<1>3. y \in Job BY <1>1, <1>2 DEF Job
<1>4. /\ y.at = at /\ y.kind = job[a].kind /\ y.key = job[a].key /\ y.left = job[a].left
      /\ y.seen = job[a].seen /\ y.update = job[a].update
      /\ y.parameters = job[a].parameters /\ y.clean = job[a].clean
  BY <1>1 DEF Job
<1>5. Ordered(y) BY <1>4 DEF Ordered
<1>6. job' = [job EXCEPT ![a] = y] BY DEF GoTo
<1> QED BY <1>3, <1>4, <1>5, <1>6

\* The next row, as the job has read it, or the end of the job.
LEMMA AdvanceGives ==
  ASSUME SchedulesInv, NEW a \in Actors, job[a] # Idle, Advance(a),
         \A k \in Keys \ {job[a].key} : Stays(k)
  PROVE  \E y : /\ job' = [job EXCEPT ![a] = y]
                /\ \/ y = Idle
                   \/ /\ y \in Job /\ Ordered(y) /\ Knows(y)'
                      /\ y.kind = job[a].kind /\ y.clean = job[a].clean
                      /\ {y.key} \union y.left \subseteq {job[a].key} \union job[a].left
<1> PICK j : j = job[a] OBVIOUS
<1>1. j \in Job /\ j.left \in SUBSET Keys BY JobHas DEF SchedulesInv
<1>2. Ordered(j) /\ Knows(j) BY DEF SchedulesInv
<1>3. CASE j.left = {}
  <2>1. job' = [job EXCEPT ![a] = Idle] BY <1>3 DEF Advance
  <2> QED BY <2>1
<1>4. CASE j.left # {}
  <2>1. j.kind \in {"resync", "deploy"} BY <1>1, <1>2, <1>4 DEF Ordered, Job
  <2> PICK first : first = IF j.kind = "deploy" THEN "apply" ELSE "find" OBVIOUS
  <2>2. PICK k \in j.left :
          job' = [job EXCEPT ![a].key = k, ![a].left = @ \ {k}, ![a].at = first]
    BY <1>4 DEF Advance
  <2> PICK y : y = [j EXCEPT !.key = k, !.left = @ \ {k}, !.at = first] OBVIOUS
  <2>3. k \in Keys /\ k # j.key BY <1>1, <1>2 DEF Ordered
  <2>4. y \in Job BY <1>1, <2>3 DEF Job
  <2>5. /\ y.key = k /\ y.left = j.left \ {k} /\ y.at = first /\ y.kind = j.kind
        /\ y.seen = j.seen /\ y.update = j.update /\ y.clean = j.clean
    BY <1>1 DEF Job
  <2>6. job' = [job EXCEPT ![a] = y] BY <2>2
  <2>7. Ordered(y) BY <1>2, <2>1, <2>5 DEF Ordered, Stages
  <2>8. Knows(y)
    <3>1. \A m \in y.clean \intersect y.left : Ahead(y, m)
      BY <1>2, <2>5 DEF Knows, Ahead
    <3>2. ASSUME k \in y.clean PROVE InHand(y, k)
      <4>1. Ahead(j, k) BY <1>2, <2>5, <3>2 DEF Knows
      <4>2. CASE j.kind = "resync"
        <5>1. y.update = NoUpdate BY <1>2, <2>5, <4>2 DEF Ordered
        <5>2. Wanted(y) = [time |-> rows[k].time, enabled |-> rows[k].enabled]
          BY <2>5, <4>1, <5>1, NothingNamed DEF Wanted, Ahead, SameRow, SameSchedule
        <5> QED BY <2>5, <4>1, <4>2, <5>2 DEF InHand, Ahead, SameSchedule
      <4>3. CASE j.kind = "deploy" BY <2>5, <4>1, <4>3 DEF InHand, Ahead, SameRow, SameSchedule
      <4> QED BY <2>1, <4>2, <4>3
    <3> QED BY <2>5, <3>1, <3>2 DEF Knows
  <2>9. \A m \in {y.key} \union y.left : Stays(m) BY <1>1, <1>2, <2>3, <2>5 DEF Ordered
  <2>10. Knows(y)' BY <2>8, <2>9, KnowsStill
  <2>11. {y.key} \union y.left \subseteq {j.key} \union j.left BY <2>5
  <2> QED BY <2>4, <2>5, <2>6, <2>7, <2>10, <2>11
<1> QED BY <1>3, <1>4

LEMMA WantedIs ==
  ASSUME TypeOK, NEW j \in Job
  PROVE  Wanted(j).time \in Times /\ Wanted(j).enabled \in BOOLEAN
<1>1. j.seen[j.key] \in Row /\ j.update \in ScheduleUpdate BY DEF Job
<1>2. j.seen[j.key].time \in Times /\ j.seen[j.key].enabled \in BOOLEAN BY <1>1 DEF Row
<1>3. j.update.time \in Times \union {Keep} /\ j.update.enabled \in BOOLEAN \union {Keep}
  BY <1>1 DEF ScheduleUpdate
<1>4. (IF j.update.time = Keep THEN j.seen[j.key].time ELSE j.update.time) \in Times
  BY <1>2, <1>3
<1>5. (IF j.update.enabled = Keep THEN j.seen[j.key].enabled ELSE j.update.enabled) \in BOOLEAN
  BY <1>2, <1>3, Zenon
<1> QED BY <1>4, <1>5 DEF Wanted

LEMMA EffectiveIs ==
  ASSUME TypeOK, NEW k \in Keys, NEW row \in Row
  PROVE  EffectiveParameters(k, row) \in Parameters \union {Nothing}
BY CatalogueIsDefault DEF EffectiveParameters, Row

LEMMA WriteParametersKeeps ==
  ASSUME SchedulesInv, NEW a \in Actors, WriteParameters(a)
  PROVE  SchedulesInv'
<1> PICK j : j = job[a] OBVIOUS
<1> PICK key : key = j.key OBVIOUS
<1> PICK y : y = [j EXCEPT !.at = "save"] OBVIOUS
<1>1. /\ At(a, "parameters") /\ GoTo(a, "save")
      /\ rows' = [rows EXCEPT ![key].parameters = j.update.parameters,
                              ![key].sync_pending = TRUE]
      /\ UNCHANGED <<deployments, started, mirror, jobs, mishaps, raced>>
  BY DEF WriteParameters
<1>2. /\ TypeOK /\ j # Idle /\ j.at = "parameters" /\ Ordered(j) /\ Knows(j) /\ j.kind = "patch"
  BY <1>1, StageHas
<1>3. j \in Job /\ key \in Keys /\ j.update \in ScheduleUpdate BY <1>2, JobHas
<1>4. /\ job' = [job EXCEPT ![a] = y] /\ y \in Job /\ Ordered(y) /\ y.at = "save"
      /\ y.kind = j.kind /\ y.key = key /\ y.left = j.left /\ y.seen = j.seen
      /\ y.update = j.update /\ y.clean = j.clean
  BY <1>1, <1>2, StageMoves DEF Stages
<1>5. j.update.parameters \in Parameters \union {Nothing} BY <1>2, <1>3 DEF Ordered, ScheduleUpdate
<1>6. /\ rows' \in [Keys -> Row] /\ rows'[key].sync_pending
      /\ SameSchedule(rows[key], rows'[key]) /\ \A k \in Keys \ {key} : rows'[k] = rows[k]
  <2> PICK row : row = [rows[key] EXCEPT !.parameters = j.update.parameters,
                                         !.sync_pending = TRUE]
    OBVIOUS
  <2>1. rows \in [Keys -> Row] BY <1>2 DEF TypeOK
  <2>2. row \in Row /\ row.sync_pending /\ SameSchedule(rows[key], row)
    BY <1>3, <1>5, <2>1, RowGiven
  <2>3. rows' = [rows EXCEPT ![key] = row] BY <1>1, <1>3, <2>1
  <2> QED BY <1>3, <2>1, <2>2, <2>3, RowMoves
<1>7. \A k \in Keys \ {key} : Stays(k) BY <1>1, <1>6 DEF Stays, SameRow, SameSchedule
<1>8. Knows(y)'
  <2>1. y.left = {} BY <1>2, <1>4 DEF Ordered
  <2>2. key \in y.clean => InHand(y, key)'
    BY <1>2, <1>4, <1>6 DEF Knows, InHand, SameSchedule
  <2> QED BY <1>4, <2>1, <2>2 DEF Knows
<1>9. Told(key)' BY <1>6 DEF Told
<1>10. /\ deployments' \in [Keys -> Deployment] /\ started' \in [Keys -> Nat]
       /\ mirror' \in [Keys -> Nat] /\ jobs' \in Nat /\ mishaps' \in Nat /\ raced' = raced
  BY <1>1, <1>2 DEF TypeOK
<1>11. /\ job[a] # Idle /\ y.kind = job[a].kind /\ y.clean = job[a].clean
       /\ {y.key} \union y.left \subseteq {key} \union job[a].left
       /\ \A k \in Keys : k # key \/ job[a].kind = "run" => Stays(k)
  BY <1>2, <1>4, <1>7
<1>12. /\ y \in Job /\ Ordered(y) /\ Knows(y)' /\ rows' \in [Keys -> Row]
       /\ job' = [job EXCEPT ![a] = y] /\ raced' \in {raced, SettledRaces(a)}
  BY <1>4, <1>6, <1>8, <1>10
<1> QED BY <1>3, <1>9, <1>10, <1>11, <1>12, TurnKeeps

LEMMA SetScheduleKeeps ==
  ASSUME SchedulesInv, NEW a \in Actors, SetSchedule(a)
  PROVE  SchedulesInv'
<1> PICK j : j = job[a] OBVIOUS
<1> PICK key : key = j.key OBVIOUS
<1> PICK y : y = [j EXCEPT !.at = "find"] OBVIOUS
<1>1. /\ At(a, "save") /\ GoTo(a, "find")
      /\ rows' = [rows EXCEPT ![key].time = Wanted(j).time, ![key].enabled = Wanted(j).enabled,
                              ![key].sync_pending = TRUE]
      /\ UNCHANGED <<deployments, started, mirror, jobs, mishaps, raced>>
  BY DEF SetSchedule
<1>2. /\ TypeOK /\ j # Idle /\ j.at = "save" /\ Ordered(j) /\ Knows(j) /\ j.kind = "patch"
  BY <1>1, StageHas
<1>3. j \in Job /\ key \in Keys BY <1>2, JobHas
<1>4. /\ job' = [job EXCEPT ![a] = y] /\ y \in Job /\ Ordered(y) /\ y.at = "find"
      /\ y.kind = j.kind /\ y.key = key /\ y.left = j.left /\ y.seen = j.seen
      /\ y.update = j.update /\ y.clean = j.clean
  BY <1>1, <1>2, StageMoves DEF Stages
<1> PICK w : w = Wanted(j) OBVIOUS
<1>5. w.time \in Times /\ w.enabled \in BOOLEAN BY <1>2, <1>3, WantedIs
<1>6. /\ rows' \in [Keys -> Row] /\ rows'[key].sync_pending
      /\ SameSchedule(rows'[key], w) /\ \A k \in Keys \ {key} : rows'[k] = rows[k]
  <2>1. rows \in [Keys -> Row] BY <1>2 DEF TypeOK
  <2>2. rows' = [rows EXCEPT ![key].time = w.time, ![key].enabled = w.enabled,
                             ![key].sync_pending = TRUE]
    BY <1>1
  <2> QED BY <1>3, <1>5, <2>1, <2>2, RowWanted
<1>7. \A k \in Keys \ {key} : Stays(k) BY <1>1, <1>6 DEF Stays, SameRow, SameSchedule
<1>8. Knows(y)'
  <2>1. y.left = {} BY <1>2, <1>4 DEF Ordered
  <2>2. Wanted(y) = w BY <1>4 DEF Wanted
  <2>3. InHand(y, key)' BY <1>2, <1>4, <1>6, <2>2 DEF InHand, SameSchedule
  <2> QED BY <1>4, <2>1, <2>3 DEF Knows
<1>9. Told(key)' BY <1>6 DEF Told
<1>10. /\ deployments' \in [Keys -> Deployment] /\ started' \in [Keys -> Nat]
       /\ mirror' \in [Keys -> Nat] /\ jobs' \in Nat /\ mishaps' \in Nat /\ raced' = raced
  BY <1>1, <1>2 DEF TypeOK
<1>11. /\ job[a] # Idle /\ y.kind = job[a].kind /\ y.clean = job[a].clean
       /\ {y.key} \union y.left \subseteq {key} \union job[a].left
       /\ \A k \in Keys : k # key \/ job[a].kind = "run" => Stays(k)
  BY <1>2, <1>4, <1>7
<1>12. /\ y \in Job /\ Ordered(y) /\ Knows(y)' /\ rows' \in [Keys -> Row]
       /\ job' = [job EXCEPT ![a] = y] /\ raced' \in {raced, SettledRaces(a)}
  BY <1>4, <1>6, <1>8, <1>10
<1> QED BY <1>3, <1>9, <1>10, <1>11, <1>12, TurnKeeps

\* A step that changes no schedule, mark or deployment.
LEMMA QuietTurn ==
  ASSUME SchedulesInv, NEW a \in Actors, job[a] # Idle,
         NEW y, job' = [job EXCEPT ![a] = y],
         \/ y = Idle
         \/ /\ y \in Job /\ Ordered(y) /\ Knows(y)'
            /\ y.kind = job[a].kind /\ y.clean = job[a].clean
            /\ {y.key} \union y.left \subseteq {job[a].key} \union job[a].left,
         rows' \in [Keys -> Row], \A k \in Keys : Stays(k),
         deployments' = deployments, raced' = raced, jobs' = jobs,
         started' \in [Keys -> Nat], mirror' \in [Keys -> Nat], mishaps' \in Nat
  PROVE  SchedulesInv'
<1> PICK key : key = job[a].key OBVIOUS
<1>1. TypeOK BY DEF SchedulesInv
<1>2. key \in Keys BY <1>1, JobHas
<1>3. key \notin raced' => Told(key)' BY <1>2, ToldStill DEF SchedulesInv
<1>4. deployments' \in [Keys -> Deployment] /\ jobs' \in Nat BY <1>1 DEF TypeOK
<1> QED BY <1>2, <1>3, <1>4, TurnKeeps

LEMMA AllStay ==
  ASSUME rows' = rows, deployments' = deployments
  PROVE  \A k \in Keys : Stays(k)
BY DEF Stays, SameRow, SameSchedule

LEMMA FindDeploymentKeeps ==
  ASSUME SchedulesInv, NEW a \in Actors, FindDeployment(a)
  PROVE  SchedulesInv'
<1> PICK j : j = job[a] OBVIOUS
<1> PICK key : key = j.key OBVIOUS
<1> PICK at : at = IF j.kind = "run" THEN "create" ELSE "read" OBVIOUS
<1> PICK y : y = [j EXCEPT !.at = at] OBVIOUS
<1>1. /\ At(a, "find") /\ GoTo(a, at)
      /\ rows' = [rows EXCEPT ![key].deployment_id = TRUE]
      /\ UNCHANGED <<deployments, started, mirror, jobs, mishaps, raced>>
  BY DEF FindDeployment
<1>2. /\ TypeOK /\ j # Idle /\ j.at = "find" /\ Ordered(j) /\ Knows(j)
      /\ j.kind \in {"patch", "resync", "run"}
  BY <1>1, StageHas
<1>3. j \in Job /\ key \in Keys BY <1>2, JobHas
<1>4. /\ job' = [job EXCEPT ![a] = y] /\ y \in Job /\ Ordered(y) /\ y.at = at
      /\ y.kind = j.kind /\ y.key = key /\ y.left = j.left /\ y.seen = j.seen
      /\ y.update = j.update /\ y.clean = j.clean
  BY <1>1, <1>2, StageMoves DEF Stages
<1>5. rows' \in [Keys -> Row]
  <2> PICK row : row = [rows[key] EXCEPT !.deployment_id = TRUE] OBVIOUS
  <2>1. rows \in [Keys -> Row] BY <1>2 DEF TypeOK
  <2>2. row \in Row BY <1>3, <2>1 DEF Row
  <2>3. rows' = [rows EXCEPT ![key] = row] BY <1>1, <1>3, <2>1
  <2> QED BY <1>3, <2>1, <2>2, <2>3, RowMoves
<1>6. \A k \in Keys : Stays(k)
  BY <1>1, <1>2, <1>3 DEF TypeOK, Stays, SameRow, SameSchedule
<1>7. Knows(y)'
  <2>1. CASE j.kind = "run"
    BY <1>2, <1>4, <2>1 DEF Ordered, Knows
  <2>2. CASE j.kind # "run"
    <3>1. Knows(y)
      BY <1>2, <1>4, <2>2 DEF Knows, Ahead, InHand, Wanted
    <3>2. {y.key} \union y.left \subseteq Keys BY <1>2, <1>3, <1>4, JobHas
    <3> QED BY <1>6, <3>1, <3>2, KnowsStill
  <2> QED BY <2>1, <2>2
<1>8. started' \in [Keys -> Nat] /\ mirror' \in [Keys -> Nat] /\ mishaps' \in Nat
  BY <1>1, <1>2 DEF TypeOK
<1> QED BY <1>1, <1>2, <1>4, <1>5, <1>6, <1>7, <1>8, QuietTurn

\* A step after which the job is over or at its next key, having changed nothing.
LEMMA GivenUpKeeps ==
  ASSUME SchedulesInv, NEW a \in Actors, job[a] # Idle,
         Advance(a) \/ job' = [job EXCEPT ![a] = Idle],
         rows' = rows, deployments' = deployments, raced' = raced, jobs' = jobs,
         started' \in [Keys -> Nat], mirror' \in [Keys -> Nat], mishaps' \in Nat
  PROVE  SchedulesInv'
<1>1. \A k \in Keys : Stays(k) BY AllStay
<1>2. rows' \in [Keys -> Row] BY DEF SchedulesInv, TypeOK
<1>3. CASE Advance(a)
  <2>1. PICK y : /\ job' = [job EXCEPT ![a] = y]
                 /\ \/ y = Idle
                    \/ /\ y \in Job /\ Ordered(y) /\ Knows(y)'
                       /\ y.kind = job[a].kind /\ y.clean = job[a].clean
                       /\ {y.key} \union y.left \subseteq {job[a].key} \union job[a].left
    BY <1>1, <1>3, AdvanceGives
  <2> QED BY <1>1, <1>2, <2>1, QuietTurn
<1>4. CASE job' = [job EXCEPT ![a] = Idle]
  <2> PICK y : y = Idle OBVIOUS
  <2> QED BY <1>1, <1>2, <1>4, QuietTurn
<1> QED BY <1>3, <1>4

LEMMA NotRegisteredKeeps ==
  ASSUME SchedulesInv, NEW a \in Actors, NotRegistered(a)
  PROVE  SchedulesInv'
<1>1. /\ At(a, "find") /\ Advance(a)
      /\ UNCHANGED <<rows, deployments, started, mirror, jobs, mishaps, raced>>
  BY DEF NotRegistered, GiveUp
<1>2. TypeOK /\ job[a] # Idle BY <1>1, StageHas
<1>3. started' \in [Keys -> Nat] /\ mirror' \in [Keys -> Nat] /\ mishaps' \in Nat
  BY <1>1, <1>2 DEF TypeOK
<1> QED BY <1>1, <1>2, <1>3, GivenUpKeeps

LEMMA CutOffKeeps ==
  ASSUME SchedulesInv, NEW a \in Actors, CutOff(a)
  PROVE  SchedulesInv'
<1>1. /\ job[a] # Idle /\ job' = [job EXCEPT ![a] = Idle] /\ mishaps' = mishaps + 1
      /\ UNCHANGED <<rows, deployments, started, mirror, jobs, raced>>
  BY DEF CutOff
<1>2. started' \in [Keys -> Nat] /\ mirror' \in [Keys -> Nat] /\ mishaps' \in Nat
  BY <1>1 DEF SchedulesInv, TypeOK
<1> QED BY <1>1, <1>2, GivenUpKeeps

LEMMA ReadParametersKeeps ==
  ASSUME SchedulesInv, NEW a \in Actors, ReadParameters(a)
  PROVE  SchedulesInv'
<1> PICK j : j = job[a] OBVIOUS
<1> PICK key : key = j.key OBVIOUS
<1> PICK p : p = EffectiveParameters(key, rows[key]) OBVIOUS
<1> PICK y : y = [j EXCEPT !.at = "push", !.parameters = p] OBVIOUS
<1>1. /\ At(a, "read") /\ job' = [job EXCEPT ![a].at = "push", ![a].parameters = p]
      /\ UNCHANGED <<rows, deployments, started, mirror, jobs, mishaps, raced>>
  BY DEF ReadParameters
<1>2. /\ TypeOK /\ j # Idle /\ j.at = "read" /\ Ordered(j) /\ Knows(j)
      /\ j.kind \in {"patch", "resync"}
  BY <1>1, StageHas
<1>3. j \in Job /\ key \in Keys BY <1>2, JobHas
<1>4. p \in Parameters \union {Nothing} BY <1>2, <1>3, EffectiveIs DEF TypeOK
<1>5. /\ y \in Job /\ y.at = "push" /\ y.parameters = p
      /\ y.kind = j.kind /\ y.key = key /\ y.left = j.left /\ y.seen = j.seen
      /\ y.update = j.update /\ y.clean = j.clean
  BY <1>3, <1>4 DEF Job
<1>6. job' = [job EXCEPT ![a] = y] BY <1>1
<1>7. Ordered(y) BY <1>2, <1>5 DEF Ordered, Stages
<1>8. Knows(y) BY <1>2, <1>5 DEF Knows, Ahead, InHand, Wanted
<1>9. \A k \in Keys : Stays(k) BY <1>1, AllStay
<1>10. y.left \subseteq Keys /\ y.key \in Keys BY <1>2, <1>3, <1>5, JobHas
<1>11. Knows(y)' BY <1>8, <1>9, <1>10, KnowsStill
<1>12. /\ rows' \in [Keys -> Row] /\ started' \in [Keys -> Nat] /\ mirror' \in [Keys -> Nat]
       /\ mishaps' \in Nat
  BY <1>1, <1>2 DEF TypeOK
<1>13. deployments' = deployments /\ raced' = raced /\ jobs' = jobs BY <1>1
<1>14. {y.key} \union y.left \subseteq {job[a].key} \union job[a].left BY <1>5
<1> QED BY <1>2, <1>5, <1>6, <1>7, <1>9, <1>11, <1>12, <1>13, <1>14, QuietTurn

LEMMA CreateFlowRunKeeps ==
  ASSUME SchedulesInv, NEW a \in Actors, CreateFlowRun(a)
  PROVE  SchedulesInv'
<1> PICK j : j = job[a] OBVIOUS
<1> PICK y : y = [j EXCEPT !.at = "mirror"] OBVIOUS
<1>1. /\ At(a, "create") /\ started' = [started EXCEPT ![j.key] = @ + 1]
      /\ \/ GoTo(a, "mirror") /\ mishaps' = mishaps
         \/ mishaps' = mishaps + 1 /\ job' = [job EXCEPT ![a] = Idle]
      /\ UNCHANGED <<rows, deployments, mirror, jobs, raced>>
  BY DEF CreateFlowRun
<1>2. TypeOK /\ j # Idle /\ Ordered(j) /\ j.kind = "run" BY <1>1, StageHas
<1>3. /\ rows' \in [Keys -> Row] /\ started' \in [Keys -> Nat] /\ mirror' \in [Keys -> Nat]
      /\ mishaps' \in Nat
  BY <1>1, <1>2, JobHas DEF TypeOK
<1>4. CASE GoTo(a, "mirror")
  <2>1. /\ job' = [job EXCEPT ![a] = y] /\ y \in Job /\ Ordered(y) /\ y.kind = j.kind
        /\ y.key = j.key /\ y.left = j.left /\ y.clean = j.clean
    BY <1>2, <1>4, StageMoves DEF Stages
  <2>2. Knows(y)' BY <1>2, <2>1 DEF Ordered, Knows
  <2>3. \A k \in Keys : Stays(k) BY <1>1, AllStay
  <2> QED BY <1>1, <1>2, <1>3, <2>1, <2>2, <2>3, QuietTurn
<1>5. CASE job' = [job EXCEPT ![a] = Idle] BY <1>1, <1>2, <1>3, <1>5, GivenUpKeeps
<1> QED BY <1>1, <1>4, <1>5

LEMMA MirrorRunKeeps ==
  ASSUME SchedulesInv, NEW a \in Actors, MirrorRun(a)
  PROVE  SchedulesInv'
<1>1. /\ At(a, "mirror") /\ mirror' = [mirror EXCEPT ![job[a].key] = @ + 1]
      /\ job' = [job EXCEPT ![a] = Idle]
      /\ UNCHANGED <<rows, deployments, started, jobs, mishaps, raced>>
  BY DEF MirrorRun
<1>2. TypeOK /\ job[a] # Idle BY <1>1, StageHas
<1>3. started' \in [Keys -> Nat] /\ mirror' \in [Keys -> Nat] /\ mishaps' \in Nat
  BY <1>1, <1>2, JobHas DEF TypeOK
<1> QED BY <1>1, <1>2, <1>3, GivenUpKeeps

\* What a push leaves in Prefect is what the row says, if the job knows the row.
LEMMA PatchedIs ==
  ASSUME SchedulesInv, NEW a \in Actors, At(a, "push"), deployments' = Patched(a), rows' = rows
  PROVE  /\ deployments' \in [Keys -> Deployment]
         /\ \A k \in Keys \ {job[a].key} : Stays(k)
         /\ \A k \in Keys : k = job[a].key /\ k \in job[a].clean => InSync(k)'
<1> PICK j : j = job[a] OBVIOUS
<1> PICK key : key = j.key OBVIOUS
<1> PICK w : w = Wanted(j) OBVIOUS
<1>1. TypeOK /\ j # Idle /\ j.at = "push" /\ Knows(j) BY StageHas
<1>2. j \in Job /\ key \in Keys /\ j.parameters \in Parameters \union {Nothing}
  BY <1>1, JobHas
<1>3. w.time \in Times /\ w.enabled \in BOOLEAN BY <1>1, <1>2, WantedIs
<1>4. Fires(w.time, w.enabled) \in Times \union {Off} BY <1>3 DEF Fires
<1>5. deployments' =
        [deployments EXCEPT
           ![key].schedule = Fires(w.time, w.enabled),
           ![key].parameters = IF j.parameters = Nothing THEN @ ELSE j.parameters]
  BY DEF Patched
<1> PICK f : f = Fires(w.time, w.enabled) OBVIOUS
<1>6. /\ deployments' \in [Keys -> Deployment]
      /\ \A k \in Keys \ {key} : deployments'[k] = deployments[k]
      /\ deployments'[key].schedule = f
      /\ j.parameters \in {Nothing, deployments'[key].parameters}
  BY <1>1, <1>2, <1>4, <1>5 DEF TypeOK, Deployment
<1>7. \A k \in Keys \ {key} : Stays(k) BY <1>6 DEF Stays, SameRow, SameSchedule
<1>8. ASSUME key \in j.clean PROVE InSync(key)'
  <2>1. SameSchedule(rows[key], w) /\ j.parameters = EffectiveParameters(key, rows[key])
    BY <1>1, <1>8 DEF Knows, InHand
  <2>2. Fires(rows[key].time, rows[key].enabled) = f BY <2>1 DEF SameSchedule, Fires
  <2> QED BY <1>6, <2>1, <2>2 DEF InSync
<1> QED BY <1>6, <1>7, <1>8

LEMMA PushScheduleKeeps ==
  ASSUME SchedulesInv, NEW a \in Actors, PushSchedule(a)
  PROVE  SchedulesInv'
<1> PICK j : j = job[a] OBVIOUS
<1> PICK key : key = j.key OBVIOUS
<1> PICK y : y = [j EXCEPT !.at = "clear"] OBVIOUS
<1>1. /\ At(a, "push") /\ GoTo(a, "clear") /\ deployments' = Patched(a)
      /\ UNCHANGED <<rows, started, mirror, jobs, mishaps, raced>>
  BY DEF PushSchedule
<1>2. /\ TypeOK /\ j # Idle /\ j.at = "push" /\ Ordered(j) /\ Knows(j)
      /\ j.kind \in {"patch", "resync"}
  BY <1>1, StageHas
<1>3. j \in Job /\ key \in Keys /\ j.left \in SUBSET Keys BY <1>2, JobHas
<1>4. /\ job' = [job EXCEPT ![a] = y] /\ y \in Job /\ Ordered(y) /\ y.at = "clear"
      /\ y.kind = j.kind /\ y.key = key /\ y.left = j.left /\ y.seen = j.seen
      /\ y.update = j.update /\ y.clean = j.clean
  BY <1>1, <1>2, StageMoves DEF Stages
<1>5. /\ deployments' \in [Keys -> Deployment] /\ \A k \in Keys \ {key} : Stays(k)
      /\ key \in j.clean => InSync(key)'
  BY <1>1, <1>3, PatchedIs
<1>6. Knows(y)'
  <2>1. key \notin j.left BY <1>2 DEF Ordered
  <2>2. \A k \in y.clean \intersect y.left : Ahead(y, k)'
    BY <1>2, <1>3, <1>4, <1>5, <2>1 DEF Knows, Ahead, Stays, SameRow, SameSchedule
  <2>3. key \in y.clean => InHand(y, key)'
    <3>1. Wanted(y) = Wanted(j) BY <1>4 DEF Wanted
    <3>2. rows' = rows BY <1>1
    <3> QED BY <1>2, <1>4, <1>5, <3>1, <3>2 DEF Knows, InHand, SameSchedule
  <2> QED BY <1>4, <2>2, <2>3 DEF Knows
<1>7. key \notin raced' => Told(key)'
  <2> SUFFICES ASSUME key \notin raced PROVE Told(key)' BY <1>1
  <2>1. key \in j.clean BY <1>2, OwnKey
  <2> QED BY <1>5, <2>1 DEF Told
<1>8. /\ rows' \in [Keys -> Row] /\ started' \in [Keys -> Nat] /\ mirror' \in [Keys -> Nat]
      /\ jobs' \in Nat /\ mishaps' \in Nat /\ raced' = raced
  BY <1>1, <1>2 DEF TypeOK
<1> QED BY <1>2, <1>3, <1>4, <1>5, <1>6, <1>7, <1>8, TurnKeeps

\* The mark stands while Prefect does not answer, whether the change was made or not.
LEMMA PrefectUnavailableKeeps ==
  ASSUME SchedulesInv, NEW a \in Actors, PrefectUnavailable(a)
  PROVE  SchedulesInv'
<1> PICK key : key = job[a].key OBVIOUS
<1>1. /\ \/ At(a, "find")
         \/ At(a, "push")
      /\ \/ deployments' = deployments
         \/ At(a, "push") /\ deployments' = Patched(a)
      /\ Advance(a) /\ mishaps' = mishaps + 1 /\ rows' = rows /\ started' = started
      /\ mirror' = mirror /\ jobs' = jobs /\ raced' = raced
  BY DEF PrefectUnavailable, GiveUp
<1>2. TypeOK /\ job[a] # Idle BY <1>1, StageHas
<1>3. key \in Keys BY <1>2, JobHas
<1>4. /\ started' \in [Keys -> Nat] /\ mirror' \in [Keys -> Nat] /\ mishaps' \in Nat
      /\ jobs' \in Nat /\ raced' = raced /\ rows' \in [Keys -> Row]
  BY <1>1, <1>2 DEF TypeOK
<1>5. CASE deployments' = deployments BY <1>1, <1>2, <1>4, <1>5, GivenUpKeeps
<1>6. CASE At(a, "push") /\ deployments' = Patched(a)
  <2>1. /\ deployments' \in [Keys -> Deployment] /\ \A k \in Keys \ {key} : Stays(k)
        /\ key \in job[a].clean => InSync(key)'
    BY <1>1, <1>3, <1>6, PatchedIs
  <2>2. PICK y : /\ job' = [job EXCEPT ![a] = y]
                 /\ \/ y = Idle
                    \/ /\ y \in Job /\ Ordered(y) /\ Knows(y)'
                       /\ y.kind = job[a].kind /\ y.clean = job[a].clean
                       /\ {y.key} \union y.left \subseteq {key} \union job[a].left
    BY <1>1, <1>2, <2>1, AdvanceGives
  <2>3. job[a].kind # "run" BY <1>6, StageHas
  <2>4. key \notin raced' => Told(key)'
    <3> SUFFICES ASSUME key \notin raced PROVE Told(key)' BY <1>4
    <3>1. key \in job[a].clean BY <1>2, <2>3, OwnKey
    <3> QED BY <2>1, <3>1 DEF Told
  <2> QED BY <1>2, <1>3, <1>4, <2>1, <2>2, <2>3, <2>4, TurnKeeps
<1> QED BY <1>1, <1>5, <1>6

LEMMA ClearPendingKeeps ==
  ASSUME SchedulesInv, NEW a \in Actors, ClearPending(a)
  PROVE  SchedulesInv'
<1> PICK key : key = job[a].key OBVIOUS
<1>1. /\ At(a, "clear") /\ Advance(a) /\ raced' = SettledRaces(a)
      /\ rows' = [rows EXCEPT ![key].sync_pending = FALSE]
      /\ UNCHANGED <<deployments, started, mirror, jobs, mishaps>>
  BY DEF ClearPending
<1>2. /\ TypeOK /\ job[a] # Idle /\ job[a].at = "clear" /\ Knows(job[a])
      /\ job[a].kind # "run"
  BY <1>1, StageHas
<1>3. key \in Keys BY <1>2, JobHas
<1>4. /\ rows' \in [Keys -> Row] /\ \A k \in Keys \ {key} : rows'[k] = rows[k]
      /\ SameRow(rows[key], rows'[key])
  <2> PICK row : row = [rows[key] EXCEPT !.sync_pending = FALSE] OBVIOUS
  <2>1. rows \in [Keys -> Row] BY <1>2 DEF TypeOK
  <2>2. row \in Row /\ SameRow(rows[key], row) BY <1>3, <2>1 DEF Row, SameRow, SameSchedule
  <2>3. rows' = [rows EXCEPT ![key] = row] BY <1>1, <1>3, <2>1
  <2> QED BY <1>3, <2>1, <2>2, <2>3, RowMoves
<1>5. \A k \in Keys \ {key} : Stays(k) BY <1>1, <1>4 DEF Stays, SameRow, SameSchedule
<1>6. PICK y : /\ job' = [job EXCEPT ![a] = y]
               /\ \/ y = Idle
                  \/ /\ y \in Job /\ Ordered(y) /\ Knows(y)'
                     /\ y.kind = job[a].kind /\ y.clean = job[a].clean
                     /\ {y.key} \union y.left \subseteq {key} \union job[a].left
  BY <1>1, <1>2, <1>5, AdvanceGives
<1>7. key \notin raced' => Told(key)'
  <2> SUFFICES ASSUME key \notin raced' PROVE InSync(key)' BY DEF Told
  <2>1. key \in job[a].clean BY <1>1, <1>2, OwnKey DEF SettledRaces
  <2>2. InSync(key) BY <1>2, <2>1 DEF Knows, InHand
  <2>3. deployments' = deployments BY <1>1
  <2> QED BY <1>4, <2>2, <2>3 DEF InSync, SameRow, SameSchedule, EffectiveParameters
<1>8. /\ deployments' \in [Keys -> Deployment] /\ started' \in [Keys -> Nat]
      /\ mirror' \in [Keys -> Nat] /\ jobs' \in Nat /\ mishaps' \in Nat
  BY <1>1, <1>2 DEF TypeOK
<1>9. /\ raced' \in {raced, SettledRaces(a)} /\ rows' \in [Keys -> Row]
      /\ \A k \in Keys : k # key \/ job[a].kind = "run" => Stays(k)
  BY <1>1, <1>2, <1>4, <1>5
<1> QED BY <1>2, <1>3, <1>6, <1>7, <1>8, <1>9, TurnKeeps

\* What a starting worker registers is what it has read; a failed attempt may have
\* been carried out or not.
LEMMA ApplyDeploymentKeeps ==
  ASSUME SchedulesInv, NEW a \in Actors, ApplyDeployment(a)
  PROVE  SchedulesInv'
<1> PICK j : j = job[a] OBVIOUS
<1> PICK key : key = j.key OBVIOUS
<1> PICK row : row = j.seen[key] OBVIOUS
<1> PICK d : d = [registered |-> TRUE, schedule |-> Fires(row.time, row.enabled),
                  parameters |-> EffectiveParameters(key, row)]
  OBVIOUS
<1> PICK at : at = IF GoTo(a, "mark") THEN "mark" ELSE "unmark" OBVIOUS
<1> PICK y : y = [j EXCEPT !.at = at] OBVIOUS
<1>1. /\ At(a, "apply")
      /\ \/ GoTo(a, "mark") /\ deployments' = [deployments EXCEPT ![key] = d]
                            /\ mishaps' = mishaps
         \/ /\ GoTo(a, "unmark") /\ mishaps' = mishaps + 1
            /\ deployments' = deployments \/ deployments' = [deployments EXCEPT ![key] = d]
      /\ UNCHANGED <<rows, started, mirror, jobs, raced>>
  BY DEF ApplyDeployment
<1>2. /\ TypeOK /\ j # Idle /\ Ordered(j) /\ Knows(j) /\ j.kind = "deploy"
  BY <1>1, StageHas
<1>3. j \in Job /\ key \in Keys /\ row \in Row /\ j.left \in SUBSET Keys
  BY <1>2, JobHas DEF Job
<1>4. GoTo(a, at) /\ at \in {"mark", "unmark"} BY <1>1
<1>5. /\ job' = [job EXCEPT ![a] = y] /\ y \in Job /\ Ordered(y) /\ y.at = at
      /\ y.kind = j.kind /\ y.key = key /\ y.left = j.left /\ y.seen = j.seen
      /\ y.update = j.update /\ y.clean = j.clean
  BY <1>2, <1>4, StageMoves DEF Stages
<1>6. d \in Deployment
  <2>1. Fires(row.time, row.enabled) \in Times \union {Off} BY <1>3 DEF Fires, Row
  <2>2. EffectiveParameters(key, row) \in Parameters \union {Nothing}
    BY <1>2, <1>3, EffectiveIs
  <2> QED BY <2>1, <2>2 DEF Deployment
<1>7. /\ deployments' \in [Keys -> Deployment]
      /\ \A k \in Keys \ {key} : deployments'[k] = deployments[k]
      /\ \/ deployments'[key] = d
         \/ deployments'[key] = deployments[key] /\ at = "unmark"
  <2>1. CASE deployments' = [deployments EXCEPT ![key] = d]
    BY <1>2, <1>3, <1>6, <2>1 DEF TypeOK
  <2>2. CASE deployments' = deployments /\ GoTo(a, "unmark")
    <3>1. y.at = "unmark"
      <4>1. job'[a].at = "unmark" BY <1>2, <1>3, <2>2 DEF TypeOK, GoTo, Job
      <4>2. job'[a] = y BY <1>2, <1>5 DEF TypeOK
      <4> QED BY <4>1, <4>2
    <3> QED BY <1>2, <1>5, <2>2, <3>1 DEF TypeOK
  <2> QED BY <1>1, <2>1, <2>2
<1>8. rows' = rows BY <1>1
<1>9. \A k \in Keys \ {key} : Stays(k) BY <1>7, <1>8 DEF Stays, SameRow, SameSchedule
<1>10. ASSUME key \in j.clean, deployments'[key] = d PROVE InSync(key)'
  <2>1. SameRow(rows[key], row) BY <1>2, <1>10 DEF Knows, InHand
  <2>2. /\ rows[key].time = row.time /\ rows[key].enabled = row.enabled
        /\ rows[key].parameters = row.parameters
    BY <2>1 DEF SameRow, SameSchedule
  <2>3. /\ d.schedule = Fires(rows[key].time, rows[key].enabled)
        /\ d.parameters = EffectiveParameters(key, rows[key])
    BY <2>2 DEF EffectiveParameters, Fires
  <2> QED BY <1>8, <1>10, <2>3 DEF InSync
<1>11. Knows(y)'
  <2>1. \A k \in y.clean \intersect y.left : Ahead(y, k)'
    BY <1>2, <1>5, <1>8 DEF Knows, Ahead
  <2>2. key \in y.clean => InHand(y, key)'
    BY <1>2, <1>4, <1>5, <1>7, <1>8, <1>10 DEF Knows, InHand
  <2> QED BY <1>5, <2>1, <2>2 DEF Knows
<1>12. key \notin raced' => Told(key)'
  <2> SUFFICES ASSUME key \notin raced PROVE Told(key)' BY <1>1
  <2>1. key \in j.clean BY <1>2, OwnKey
  <2>2. Told(key) BY <1>3 DEF SchedulesInv
  <2> QED BY <1>7, <1>8, <1>10, <2>1, <2>2 DEF Told, InSync
<1>13. /\ rows' \in [Keys -> Row] /\ started' \in [Keys -> Nat] /\ mirror' \in [Keys -> Nat]
       /\ jobs' \in Nat /\ mishaps' \in Nat /\ raced' = raced
  BY <1>1, <1>2 DEF TypeOK
<1> QED BY <1>2, <1>3, <1>5, <1>7, <1>9, <1>11, <1>12, <1>13, TurnKeeps

LEMMA MarkSyncedKeeps ==
  ASSUME SchedulesInv, NEW a \in Actors, MarkSynced(a)
  PROVE  SchedulesInv'
<1> PICK j : j = job[a] OBVIOUS
<1> PICK key : key = j.key OBVIOUS
<1>1. /\ \/ /\ At(a, "mark") /\ raced' = SettledRaces(a)
            /\ rows' = [rows EXCEPT ![key].sync_pending = FALSE, ![key].deployment_id = TRUE]
         \/ /\ At(a, "unmark") /\ raced' = raced
            /\ rows' = [rows EXCEPT ![key].sync_pending = TRUE,
                                    ![key].deployment_id = j.seen[key].deployment_id]
      /\ Advance(a)
      /\ UNCHANGED <<deployments, started, mirror, jobs, mishaps>>
  BY DEF MarkSynced
<1>2. /\ TypeOK /\ j # Idle /\ Knows(j) /\ j.kind = "deploy" BY <1>1, StageHas
<1>3. j \in Job /\ key \in Keys BY <1>2, JobHas
<1>4. j.seen[key].deployment_id \in BOOLEAN BY <1>3 DEF Job, Row
<1>5. /\ rows' \in [Keys -> Row] /\ \A k \in Keys \ {key} : rows'[k] = rows[k]
      /\ SameRow(rows[key], rows'[key])
      /\ \/ At(a, "mark") /\ raced' = SettledRaces(a)
         \/ rows'[key].sync_pending /\ raced' = raced
  <2> PICK b \in BOOLEAN : b = j.seen[key].deployment_id BY <1>4
  <2>1. CASE /\ At(a, "mark") /\ raced' = SettledRaces(a)
             /\ rows' = [rows EXCEPT ![key].sync_pending = FALSE, ![key].deployment_id = TRUE]
    <3> PICK r : r = [rows[key] EXCEPT !.sync_pending = FALSE, !.deployment_id = TRUE] OBVIOUS
    <3>1. rows \in [Keys -> Row] /\ rows[key] \in Row BY <1>2, <1>3 DEF TypeOK
    <3>2. r \in Row /\ SameRow(rows[key], r) /\ r.sync_pending = FALSE
      BY <3>1 DEF Row, SameRow, SameSchedule
    <3>3. rows' = [rows EXCEPT ![key] = r] BY <2>1
    <3>4. /\ rows' \in [Keys -> Row] /\ \A k \in Keys \ {key} : rows'[k] = rows[k]
          /\ rows'[key] = r
      BY <1>3, <3>1, <3>2, <3>3
    <3> QED BY <2>1, <3>2, <3>4
  <2>2. CASE /\ raced' = raced
             /\ rows' = [rows EXCEPT ![key].sync_pending = TRUE, ![key].deployment_id = b]
    <3> PICK r : r = [rows[key] EXCEPT !.sync_pending = TRUE, !.deployment_id = b] OBVIOUS
    <3>1. rows \in [Keys -> Row] /\ rows[key] \in Row BY <1>2, <1>3 DEF TypeOK
    <3>2. r \in Row /\ SameRow(rows[key], r) /\ r.sync_pending = TRUE
      BY <3>1 DEF Row, SameRow, SameSchedule
    <3>3. rows' = [rows EXCEPT ![key] = r] BY <2>2
    <3>4. /\ rows' \in [Keys -> Row] /\ \A k \in Keys \ {key} : rows'[k] = rows[k]
          /\ rows'[key] = r
      BY <1>3, <3>1, <3>2, <3>3
    <3> QED BY <2>2, <3>2, <3>4
  <2> QED BY <1>1, <2>1, <2>2
<1>6. \A k \in Keys \ {key} : Stays(k) BY <1>1, <1>5 DEF Stays, SameRow, SameSchedule
<1>7. PICK y : /\ job' = [job EXCEPT ![a] = y]
               /\ \/ y = Idle
                  \/ /\ y \in Job /\ Ordered(y) /\ Knows(y)'
                     /\ y.kind = j.kind /\ y.clean = j.clean
                     /\ {y.key} \union y.left \subseteq {key} \union j.left
  BY <1>1, <1>2, <1>6, AdvanceGives
<1>8. key \notin raced' => Told(key)'
  <2>1. CASE rows'[key].sync_pending BY <2>1 DEF Told
  <2>2. CASE At(a, "mark") /\ raced' = SettledRaces(a)
    <3> SUFFICES ASSUME key \notin raced' PROVE InSync(key)' BY DEF Told
    <3>1. key \in j.clean BY <1>2, <2>2, OwnKey DEF SettledRaces
    <3>2. j.at = "mark" BY <2>2 DEF At
    <3>3. InSync(key) BY <1>2, <3>1, <3>2 DEF Knows, InHand
    <3>4. deployments' = deployments BY <1>1
    <3> QED BY <1>5, <3>3, <3>4 DEF InSync, SameRow, SameSchedule, EffectiveParameters
  <2> QED BY <1>5, <2>1, <2>2
<1>9. /\ deployments' \in [Keys -> Deployment] /\ started' \in [Keys -> Nat]
      /\ mirror' \in [Keys -> Nat] /\ jobs' \in Nat /\ mishaps' \in Nat
      /\ raced' \in {raced, SettledRaces(a)}
  BY <1>1, <1>2 DEF TypeOK
<1> QED BY <1>2, <1>3, <1>5, <1>6, <1>7, <1>8, <1>9, TurnKeeps

-----------------------------------------------------------------------------
(* Schedules: the invariant holds.                                         *)

LEMMA UpdatesAre == \A u \in Updates : u \in ScheduleUpdate BY UpdatesAreUpdates

LEMMA SchedulesStepKeeps == SchedulesInv /\ [Next]_vars => SchedulesInv'
<1> SUFFICES ASSUME SchedulesInv, [Next]_vars PROVE SchedulesInv' OBVIOUS
<1>1. ASSUME NEW a \in Actors, NEW k \in Keys, NEW u \in Updates, PatchSchedule(a, k, u)
      PROVE  SchedulesInv'
  BY <1>1, UpdatesAre, PatchBegins
<1>2. ASSUME NEW a \in Actors, NEW k \in Keys, Toggle(a, k) PROVE SchedulesInv'
  BY <1>2, ToggleBegins
<1>3. ASSUME NEW a \in Actors, NEW k \in Keys, RunNow(a, k) PROVE SchedulesInv'
  BY <1>3, RunBegins
<1>4. ASSUME NEW a \in Actors, ResyncPending(a) PROVE SchedulesInv' BY <1>4, ResyncBegins
<1>5. ASSUME NEW a \in Actors, DeployAll(a) PROVE SchedulesInv' BY <1>5, DeployBegins
<1>6. ASSUME NEW a \in Actors, Step(a) PROVE SchedulesInv'
  <2>1. CASE WriteParameters(a) BY <2>1, WriteParametersKeeps
  <2>2. CASE SetSchedule(a) BY <2>2, SetScheduleKeeps
  <2>3. CASE FindDeployment(a) BY <2>3, FindDeploymentKeeps
  <2>4. CASE NotRegistered(a) BY <2>4, NotRegisteredKeeps
  <2>5. CASE ReadParameters(a) BY <2>5, ReadParametersKeeps
  <2>6. CASE PushSchedule(a) BY <2>6, PushScheduleKeeps
  <2>7. CASE PrefectUnavailable(a) BY <2>7, PrefectUnavailableKeeps
  <2>8. CASE ClearPending(a) BY <2>8, ClearPendingKeeps
  <2>9. CASE ApplyDeployment(a) BY <2>9, ApplyDeploymentKeeps
  <2>10. CASE MarkSynced(a) BY <2>10, MarkSyncedKeeps
  <2>11. CASE CreateFlowRun(a) BY <2>11, CreateFlowRunKeeps
  <2>12. CASE MirrorRun(a) BY <2>12, MirrorRunKeeps
  <2> QED
    BY <1>6, <2>1, <2>2, <2>3, <2>4, <2>5, <2>6, <2>7, <2>8, <2>9, <2>10, <2>11, <2>12 DEF Step
<1>7. ASSUME NEW a \in Actors, CutOff(a) PROVE SchedulesInv' BY <1>7, CutOffKeeps
<1>8. ASSUME NEW k \in Keys, NEW t \in Times, NEW e \in BOOLEAN, Migrate(k, t, e)
      PROVE  SchedulesInv'
  BY <1>8, MigrateKeeps
<1>9. CASE UNCHANGED vars
  BY <1>9 DEF vars, SchedulesInv, TypeOK, Ordered, Knows, Ahead, InHand, Wanted, InSync, Alone,
              RacesKnown, Edits, CleanKeys, Touches, Told
<1> QED BY <1>1, <1>2, <1>3, <1>4, <1>5, <1>6, <1>7, <1>8, <1>9 DEF Next

LEMMA SchedulesBegin == Init => SchedulesInv
<1> SUFFICES ASSUME Init PROVE SchedulesInv OBVIOUS
<1>1. PICK enabled \in [Keys -> BOOLEAN] :
        rows = [k \in Keys |->
                  [time |-> Crons[k], enabled |-> enabled[k], parameters |-> Catalogue[k],
                   sync_pending |-> FALSE, deployment_id |-> FALSE]]
  BY DEF Init
<1>2. /\ deployments = [k \in Keys |->
                          [registered |-> FALSE, schedule |-> Off, parameters |-> Nothing]]
      /\ job = [a \in Actors |-> Idle] /\ raced = {}
  BY DEF Init
<1>3. rows \in [Keys -> Row] BY <1>1, CatalogueIsDefault DEF Row
<1>4. deployments \in [Keys -> Deployment] BY <1>2 DEF Deployment
<1>5. TypeOK BY <1>2, <1>3, <1>4 DEF Init, TypeOK
<1>6. \A a \in Actors : job[a] = Idle BY <1>2
<1>7. \A k \in Keys : Told(k) BY <1>2 DEF Told
<1> QED
  BY <1>5, <1>6, <1>7 DEF SchedulesInv, Alone, RacesKnown, Edits, CleanKeys

LEMMA SchedulesInvariance == Spec => []SchedulesInv
<1>1. Init => SchedulesInv BY SchedulesBegin
<1>2. SchedulesInv /\ [Next]_vars => SchedulesInv' BY SchedulesStepKeeps
<1> QED BY <1>1, <1>2, PTL DEF Spec

\* Every variable of the schedules keeps its type: no row is ever written that the
\* table could not hold, whatever an update leaves out (services/prefect_admin.py).
THEOREM SchedulesTypeCorrect == Spec => []TypeOK
<1>1. SchedulesInv => TypeOK BY DEF SchedulesInv
<1> QED BY <1>1, SchedulesInvariance, PTL

\* At every moment a row without the mark tells what Prefect runs, whichever of the
\* requests failed or was cut off, unless jobs have overlapped on it (set_schedule,
\* push, resync_pending and mark_synced of services/prefect_admin.py, deploy_all of
\* workflows/deployments.py).
THEOREM UnmarkedRowsAreTrue == Spec => []UnmarkedIsInPrefect
<1>1. SchedulesInv => UnmarkedIsInPrefect
  BY DEF SchedulesInv, UnmarkedIsInPrefect, Told, InSync
<1> QED BY <1>1, SchedulesInvariance, PTL

\* The body of OnlyNamedFieldsChange.
NamedOnly ==
  \A k \in Keys :
    /\ rows'[k].time # rows[k].time =>
         \/ \E a \in Actors : /\ Saves(a, k, "save")
                              /\ rows'[k].time \in
                                   Leaves(k, job[a].update.time, job[a].seen[k].time)
         \/ \E t \in Times, e \in BOOLEAN : Migrate(k, t, e)
    /\ rows'[k].enabled # rows[k].enabled =>
         \/ \E a \in Actors : /\ Saves(a, k, "save")
                              /\ rows'[k].enabled \in
                                   Leaves(k, job[a].update.enabled, job[a].seen[k].enabled)
         \/ \E t \in Times, e \in BOOLEAN : Migrate(k, t, e)
    /\ rows'[k].parameters # rows[k].parameters =>
         \E a \in Actors : /\ Saves(a, k, "parameters")
                           /\ rows'[k].parameters = job[a].update.parameters

\* What set_schedule writes to a field nobody else is at is what the edit names, or
\* what has been there all along.
LEMMA SaveIsNamed ==
  ASSUME SchedulesInv, NEW a \in Actors, SetSchedule(a), NEW k \in Keys, k = job[a].key
  PROVE  /\ Saves(a, k, "save") /\ rows'[k].parameters = rows[k].parameters
         /\ rows'[k].time # rows[k].time =>
              rows'[k].time \in Leaves(k, job[a].update.time, job[a].seen[k].time)
         /\ rows'[k].enabled # rows[k].enabled =>
              rows'[k].enabled \in Leaves(k, job[a].update.enabled, job[a].seen[k].enabled)
<1> PICK j : j = job[a] OBVIOUS
<1>1. rows \in [Keys -> Row] BY DEF SchedulesInv, TypeOK
<1>2. /\ At(a, "save")
      /\ rows' = [rows EXCEPT ![k].time = Wanted(j).time, ![k].enabled = Wanted(j).enabled,
                              ![k].sync_pending = TRUE]
  BY DEF SetSchedule
<1>3. /\ rows'[k].time = Wanted(j).time /\ rows'[k].enabled = Wanted(j).enabled
      /\ rows'[k].parameters = rows[k].parameters
  BY <1>1, <1>2 DEF Row
<1>4. j # Idle /\ j.at = "save" /\ Knows(j) /\ j.kind # "run" BY <1>2, StageHas
<1>5. ASSUME k \notin raced PROVE SameSchedule(rows[k], j.seen[k])
  <2>1. k \in j.clean BY <1>4, <1>5, OwnKey
  <2> QED BY <1>4, <2>1 DEF Knows, InHand
<1>6. rows'[k].time # rows[k].time => rows'[k].time \in Leaves(k, j.update.time, j.seen[k].time)
  <2>1. CASE j.update.time = Keep BY <1>3, <1>5, <2>1 DEF Wanted, Leaves, SameSchedule
  <2>2. CASE j.update.time # Keep BY <1>3, <2>2 DEF Wanted, Leaves
  <2> QED BY <2>1, <2>2
<1>7. rows'[k].enabled # rows[k].enabled =>
        rows'[k].enabled \in Leaves(k, j.update.enabled, j.seen[k].enabled)
  <2>1. CASE j.update.enabled = Keep BY <1>3, <1>5, <2>1 DEF Wanted, Leaves, SameSchedule
  <2>2. CASE j.update.enabled # Keep BY <1>3, <2>2 DEF Wanted, Leaves
  <2> QED BY <2>1, <2>2
<1> QED BY <1>2, <1>3, <1>6, <1>7 DEF Saves

\* Every field of a row changes only by an edit that names it or by a migration; an
\* edit of a row nobody else is at writes back what it has read of the time or the
\* switch it does not name, and that has not changed since (api/admin/routers/schedules.py
\* patch_schedule, services/prefect_admin.py set_schedule).
THEOREM EditsAreTrue == Spec => OnlyNamedFieldsChange
<1>1. SchedulesInv /\ [Next]_vars => [NamedOnly]_vars
  <2> SUFFICES ASSUME SchedulesInv, Next PROVE NamedOnly
    BY DEF NamedOnly
  <2>1. TypeOK /\ rows \in [Keys -> Row] BY DEF SchedulesInv, TypeOK
  <2>2. ASSUME NEW a \in Actors, SetSchedule(a) PROVE NamedOnly
    <3> SUFFICES ASSUME NEW k \in Keys, rows'[k] # rows[k]
                 PROVE  /\ Saves(a, k, "save") /\ rows'[k].parameters = rows[k].parameters
                        /\ rows'[k].time # rows[k].time =>
                             rows'[k].time \in Leaves(k, job[a].update.time, job[a].seen[k].time)
                        /\ rows'[k].enabled # rows[k].enabled =>
                             rows'[k].enabled \in
                               Leaves(k, job[a].update.enabled, job[a].seen[k].enabled)
      BY DEF NamedOnly
    <3>1. k = job[a].key BY <2>1, <2>2 DEF SetSchedule
    <3> QED BY <2>2, <3>1, SaveIsNamed
  <2>3. ASSUME NEW a \in Actors, WriteParameters(a) PROVE NamedOnly
    <3> SUFFICES ASSUME NEW k \in Keys
                 PROVE  /\ rows'[k].time = rows[k].time /\ rows'[k].enabled = rows[k].enabled
                        /\ rows'[k].parameters # rows[k].parameters =>
                             /\ Saves(a, k, "parameters")
                             /\ rows'[k].parameters = job[a].update.parameters
      BY DEF NamedOnly
    <3> QED BY <2>1, <2>3 DEF WriteParameters, Saves, Row
  <2>4. ASSUME NEW a \in Actors, Step(a), ~SetSchedule(a), ~WriteParameters(a) PROVE NamedOnly
    <3> SUFFICES \A k \in Keys : SameRow(rows'[k], rows[k])
      BY DEF NamedOnly, SameRow, SameSchedule
    <3>1. CASE rows' = rows BY <3>1 DEF SameRow, SameSchedule
    <3>2. CASE FindDeployment(a) BY <2>1, <3>2 DEF FindDeployment, Row, SameRow, SameSchedule
    <3>3. CASE ClearPending(a) BY <2>1, <3>3 DEF ClearPending, Row, SameRow, SameSchedule
    <3>4. CASE MarkSynced(a) BY <2>1, <3>4 DEF MarkSynced, Row, SameRow, SameSchedule
    <3> QED
      BY <2>4, <3>1, <3>2, <3>3, <3>4
         DEF Step, NotRegistered, ReadParameters, PushSchedule, PrefectUnavailable,
             ApplyDeployment, CreateFlowRun, MirrorRun
  <2>5. ASSUME NEW m \in Keys, NEW t \in Times, NEW e \in BOOLEAN, Migrate(m, t, e)
        PROVE  NamedOnly
    <3> SUFFICES ASSUME NEW k \in Keys, rows'[k] # rows[k]
                 PROVE  rows'[k].parameters = rows[k].parameters /\ Migrate(k, t, e)
      BY DEF NamedOnly
    <3>1. rows' = [rows EXCEPT ![m].time = t, ![m].enabled = e, ![m].sync_pending = TRUE]
      BY <2>5 DEF Migrate
    <3>2. k = m BY <2>1, <3>1
    <3> QED BY <2>1, <2>5, <3>1, <3>2 DEF Row
  <2>6. CASE rows' = rows BY <2>6 DEF NamedOnly
  <2>7. \A a \in Actors : CutOff(a) \/ DeployAll(a) \/ ResyncPending(a) => rows' = rows
    BY DEF CutOff, DeployAll, ResyncPending
  <2>8. \A a \in Actors, m \in Keys : RunNow(a, m) \/ Toggle(a, m) => rows' = rows
    BY DEF RunNow, Toggle, PatchSchedule
  <2>9. \A a \in Actors, m \in Keys, u \in Updates : PatchSchedule(a, m, u) => rows' = rows
    BY DEF PatchSchedule
  <2> QED BY <2>2, <2>3, <2>4, <2>5, <2>6, <2>7, <2>8, <2>9 DEF Next
<1> QED BY <1>1, SchedulesInvariance, PTL DEF Spec, OnlyNamedFieldsChange, NamedOnly

-----------------------------------------------------------------------------
(* Schedules: the stored ids.                                              *)

\* An id is stored of a registered deployment only.
IdsAreReal == \A k \in Keys : rows[k].deployment_id => deployments[k].registered

\* So is what a job has read, and what it is about to mark as synced.
JobsKnowIds ==
  \A a \in Actors : job[a] # Idle =>
    /\ \A k \in Keys : job[a].seen[k].deployment_id => deployments[k].registered
    /\ job[a].at = "mark" => deployments[job[a].key].registered

\* What a step may do to a job, as far as ids are concerned.
ReadOnce(b) ==
  \/ job'[b] = Idle
  \/ /\ job[b] # Idle /\ job'[b].seen = job[b].seen
     /\ job'[b].at = "mark" => /\ job'[b].key = job[b].key
                               /\ job[b].at = "mark" \/ deployments'[job[b].key].registered
  \/ job'[b].seen = rows /\ job'[b].at # "mark"

LEMMA StartReads ==
  ASSUME SchedulesInv, NEW a \in Actors, NEW K, NEW x, Starts(a, x, K),
         x \in Job, x.seen = rows, x.at # "mark"
  PROVE  \A b \in Actors : ReadOnce(b)
<1> SUFFICES ASSUME NEW b \in Actors, job'[b] # Idle PROVE ReadOnce(b) BY DEF ReadOnce
<1>1. CASE b = a
  <2>1. job'[a] = [x EXCEPT !.clean = K \ UNION {Touches(c) : c \in Actors \ {a}}]
    BY DEF Starts
  <2>2. job'[a].seen = rows /\ job'[a].at # "mark" BY <2>1 DEF Job
  <2> QED BY <1>1, <2>2 DEF ReadOnce
<1>2. CASE b # a
  <2>1. job[b] # Idle /\ job'[b] = [job[b] EXCEPT !.clean = @ \ K] BY <1>2 DEF Starts
  <2>2. job[b] \in Job BY <2>1, JobHas DEF SchedulesInv
  <2>3. job'[b].seen = job[b].seen /\ job'[b].at = job[b].at /\ job'[b].key = job[b].key
    BY <2>1, <2>2 DEF Job
  <2> QED BY <2>1, <2>3 DEF ReadOnce
<1> QED BY <1>1, <1>2

LEMMA TurnReads ==
  ASSUME SchedulesInv, NEW a \in Actors, job[a] # Idle,
         \/ Advance(a)
         \/ job' = [job EXCEPT ![a] = Idle]
         \/ \E at : GoTo(a, at) /\ (at = "mark" => deployments'[job[a].key].registered)
         \/ \E p : job' = [job EXCEPT ![a].at = "push", ![a].parameters = p]
  PROVE  \A b \in Actors : ReadOnce(b)
<1>1. job \in [Actors -> Job \union {Idle}] /\ job[a] \in Job
  BY JobHas DEF SchedulesInv, TypeOK
<1>2. ASSUME NEW b \in Actors \ {a} PROVE ReadOnce(b)
  <2>1. job'[b] = job[b] BY <1>1 DEF Advance, GoTo
  <2> QED BY <2>1 DEF ReadOnce
<1>3. CASE job' = [job EXCEPT ![a] = Idle] BY <1>1, <1>2, <1>3 DEF ReadOnce
<1>4. CASE Advance(a)
  <2>1. CASE job' = [job EXCEPT ![a] = Idle] BY <1>3, <2>1
  <2>2. CASE job' # [job EXCEPT ![a] = Idle]
    <3>1. PICK k, first : /\ first \in {"apply", "find"}
                          /\ job' = [job EXCEPT ![a].key = k, ![a].left = @ \ {k}, ![a].at = first]
      <4>1. CASE job[a].kind = "deploy" BY <1>4, <2>2, <4>1, Zenon DEF Advance
      <4>2. CASE job[a].kind # "deploy" BY <1>4, <2>2, <4>2, Zenon DEF Advance
      <4> QED BY <4>1, <4>2, Zenon
    <3>2. job'[a].seen = job[a].seen /\ job'[a].at = first BY <1>1, <3>1, Zenon DEF Job
    <3>3. job'[a].at # "mark" BY <3>1, <3>2
    <3>4. ReadOnce(a) BY <3>2, <3>3 DEF ReadOnce
    <3> QED BY <1>2, <3>4, Zenon
  <2> QED BY <2>1, <2>2
<1>5. ASSUME NEW at, GoTo(a, at), at = "mark" => deployments'[job[a].key].registered
      PROVE  ReadOnce(a)
  <2>1. job'[a].seen = job[a].seen /\ job'[a].at = at /\ job'[a].key = job[a].key
    BY <1>1, <1>5 DEF GoTo, Job
  <2> QED BY <1>5, <2>1 DEF ReadOnce
<1>6. ASSUME NEW p, job' = [job EXCEPT ![a].at = "push", ![a].parameters = p]
      PROVE  ReadOnce(a)
  <2>1. job'[a].seen = job[a].seen /\ job'[a].at = "push" BY <1>1, <1>6 DEF Job
  <2> QED BY <2>1 DEF ReadOnce
<1> QED BY <1>2, <1>3, <1>4, <1>5, <1>6

\* Nothing is forgotten, and every id is of what was registered before or is now.
LEMMA IdsMove ==
  ASSUME SchedulesInv, IdsAreReal, JobsKnowIds,
         rows' \in [Keys -> Row], \A b \in Actors : ReadOnce(b),
         \A k \in Keys : deployments[k].registered => deployments'[k].registered,
         \A k \in Keys : rows'[k].deployment_id =>
                            rows[k].deployment_id \/ deployments[k].registered
  PROVE  IdsAreReal' /\ JobsKnowIds'
<1>1. IdsAreReal' BY DEF IdsAreReal
<1>2. ASSUME NEW b \in Actors, job'[b] # Idle
      PROVE  /\ \A k \in Keys : job'[b].seen[k].deployment_id => deployments'[k].registered
             /\ job'[b].at = "mark" => deployments'[job'[b].key].registered
  <2>1. CASE job'[b].seen = rows /\ job'[b].at # "mark" BY <2>1 DEF IdsAreReal
  <2>2. CASE /\ job[b] # Idle /\ job'[b].seen = job[b].seen
             /\ job'[b].at = "mark" => /\ job'[b].key = job[b].key
                                       /\ \/ job[b].at = "mark"
                                          \/ deployments'[job[b].key].registered
    <3>1. job[b].key \in Keys BY <2>2, JobHas DEF SchedulesInv
    <3> QED BY <2>2, <3>1 DEF JobsKnowIds
  <2> QED BY <1>2, <2>1, <2>2 DEF ReadOnce
<1> QED BY <1>1, <1>2 DEF JobsKnowIds

\* The registration of a flow outlives every step.
LEMMA StaysRegistered ==
  ASSUME SchedulesInv, NEW a \in Actors, NEW k \in Keys, deployments[k].registered,
         \/ deployments' = deployments
         \/ deployments' = Patched(a)
         \/ ApplyDeployment(a)
  PROVE  deployments'[k].registered
<1>1. deployments \in [Keys -> Deployment] BY DEF SchedulesInv, TypeOK
<1>2. CASE deployments' = deployments BY <1>2
<1>3. CASE deployments' = Patched(a) BY <1>1, <1>3 DEF Patched, Deployment
<1>4. CASE ApplyDeployment(a) BY <1>1, <1>4 DEF ApplyDeployment
<1> QED BY <1>2, <1>3, <1>4

LEMMA StepKeepsIds ==
  ASSUME SchedulesInv, IdsAreReal, JobsKnowIds, NEW a \in Actors, Step(a)
  PROVE  IdsAreReal' /\ JobsKnowIds'
<1>1. TypeOK /\ rows \in [Keys -> Row] BY DEF SchedulesInv, TypeOK
<1>2. rows' \in [Keys -> Row]
  <2>1. SchedulesInv'
    <3>1. Next BY DEF Next
    <3> QED BY <3>1, SchedulesStepKeeps
  <2> QED BY <2>1 DEF SchedulesInv, TypeOK
<1>3. job[a] # Idle /\ job[a].key \in Keys
  <2>1. job[a] # Idle
    BY DEF Step, At, WriteParameters, SetSchedule, FindDeployment, NotRegistered, ReadParameters,
           PushSchedule, PrefectUnavailable, ClearPending, ApplyDeployment, MarkSynced,
           CreateFlowRun, MirrorRun
  <2> QED BY <1>1, <2>1, JobHas
<1>4. \A b \in Actors : ReadOnce(b)
  <2>1. CASE \/ WriteParameters(a) \/ SetSchedule(a) \/ FindDeployment(a) \/ PushSchedule(a)
    <3>1. PICK at : GoTo(a, at) /\ at # "mark"
      BY <2>1 DEF WriteParameters, SetSchedule, FindDeployment, PushSchedule
    <3> QED BY <1>3, <3>1, TurnReads
  <2>2. CASE \/ NotRegistered(a) \/ PrefectUnavailable(a) \/ ClearPending(a) \/ MarkSynced(a)
    <3>1. Advance(a)
      BY <2>2 DEF NotRegistered, PrefectUnavailable, ClearPending, MarkSynced, GiveUp
    <3> QED BY <1>3, <3>1, TurnReads
  <2>3. CASE ReadParameters(a)
    <3>1. \E p : job' = [job EXCEPT ![a].at = "push", ![a].parameters = p]
      BY <2>3 DEF ReadParameters
    <3> QED BY <1>3, <3>1, TurnReads
  <2>4. CASE ApplyDeployment(a)
    <3>1. PICK at : GoTo(a, at) /\ (at = "mark" => deployments'[job[a].key].registered)
      BY <1>1, <1>3, <2>4 DEF ApplyDeployment, TypeOK
    <3> QED BY <1>3, <3>1, TurnReads
  <2>5. CASE CreateFlowRun(a)
    <3>1. CASE GoTo(a, "mirror")
      <4>1. PICK at : GoTo(a, at) /\ at # "mark" BY <3>1
      <4> QED BY <1>3, <4>1, TurnReads
    <3>2. CASE job' = [job EXCEPT ![a] = Idle] BY <1>3, <3>2, TurnReads
    <3> QED BY <2>5, <3>1, <3>2 DEF CreateFlowRun
  <2>6. CASE MirrorRun(a)
    <3>1. job' = [job EXCEPT ![a] = Idle] BY <2>6 DEF MirrorRun
    <3> QED BY <1>3, <3>1, TurnReads
  <2> QED BY <2>1, <2>2, <2>3, <2>4, <2>5, <2>6 DEF Step
<1>5. \A k \in Keys : deployments[k].registered => deployments'[k].registered
  <2>1. \/ deployments' = deployments
        \/ deployments' = Patched(a)
        \/ ApplyDeployment(a)
    BY DEF Step, WriteParameters, SetSchedule, FindDeployment, NotRegistered, ReadParameters,
           PushSchedule, PrefectUnavailable, ClearPending, MarkSynced, CreateFlowRun, MirrorRun
  <2> QED BY <2>1, StaysRegistered
<1>6. ASSUME NEW k \in Keys, rows'[k].deployment_id
      PROVE  rows[k].deployment_id \/ deployments[k].registered
  <2>1. CASE rows' = rows BY <1>6, <2>1
  <2>2. CASE WriteParameters(a) BY <1>1, <1>6, <2>2 DEF WriteParameters, Row
  <2>3. CASE SetSchedule(a) BY <1>1, <1>6, <2>3 DEF SetSchedule, Row
  <2>4. CASE FindDeployment(a) BY <1>1, <1>6, <2>4 DEF FindDeployment, Row
  <2>5. CASE ClearPending(a) BY <1>1, <1>6, <2>5 DEF ClearPending, Row
  <2>6. CASE MarkSynced(a)
    <3>1. CASE k # job[a].key BY <1>1, <1>6, <2>6, <3>1 DEF MarkSynced, Row
    <3>2. CASE k = job[a].key /\ At(a, "mark")
      BY <1>3, <3>2 DEF JobsKnowIds, At
    <3>3. CASE k = job[a].key /\ ~At(a, "mark")
      <4>1. rows' = [rows EXCEPT ![k].sync_pending = TRUE,
                                 ![k].deployment_id = job[a].seen[k].deployment_id]
        BY <2>6, <3>3 DEF MarkSynced
      <4>2. job[a].seen[k].deployment_id BY <1>1, <1>6, <4>1 DEF Row
      <4> QED BY <1>3, <4>2 DEF JobsKnowIds
    <3> QED BY <3>1, <3>2, <3>3
  <2> QED
    BY <2>1, <2>2, <2>3, <2>4, <2>5, <2>6
       DEF Step, NotRegistered, ReadParameters, PushSchedule, PrefectUnavailable,
           ApplyDeployment, CreateFlowRun, MirrorRun
<1> QED BY <1>2, <1>4, <1>5, <1>6, IdsMove

LEMMA BeginKeepsIds ==
  ASSUME SchedulesInv, IdsAreReal, JobsKnowIds, NEW a \in Actors,
         NEW kind \in {"patch", "resync", "deploy", "run"},
         NEW at \in {"parameters", "save", "find", "apply"}, NEW k \in Keys,
         NEW left \in SUBSET Keys, NEW update \in ScheduleUpdate, NEW K,
         Starts(a, NewJob(kind, at, k, left, update), K),
         rows' = rows, deployments' = deployments
  PROVE  IdsAreReal' /\ JobsKnowIds'
<1> PICK x : x = NewJob(kind, at, k, left, update) OBVIOUS
<1>1. TypeOK /\ rows' \in [Keys -> Row] BY DEF SchedulesInv, TypeOK
<1>2. x \in Job /\ x.at = at BY <1>1 DEF NewJob, Job, TypeOK
<1>3. x.seen = rows BY DEF NewJob
<1>4. Starts(a, x, K) OBVIOUS
<1>5. \A b \in Actors : ReadOnce(b) BY <1>2, <1>3, <1>4, StartReads
<1> QED BY <1>1, <1>5, IdsMove

LEMMA IdsStepKeep ==
  ASSUME SchedulesInv, IdsAreReal, JobsKnowIds, [Next]_vars
  PROVE  IdsAreReal' /\ JobsKnowIds'
<1>1. TypeOK /\ NoUpdate \in ScheduleUpdate BY NothingNamed DEF SchedulesInv
<1>2. CASE UNCHANGED vars BY <1>2 DEF vars, IdsAreReal, JobsKnowIds
<1>3. ASSUME NEW a \in Actors, NEW k \in Keys, NEW u \in ScheduleUpdate, PatchSchedule(a, k, u)
      PROVE  IdsAreReal' /\ JobsKnowIds'
  <2> PICK at : at = IF u.parameters = Keep THEN "save" ELSE "parameters" OBVIOUS
  <2>1. at \in {"parameters", "save", "find", "apply"} OBVIOUS
  <2>2. /\ Starts(a, NewJob("patch", at, k, {}, u), {k})
        /\ rows' = rows /\ deployments' = deployments
    BY <1>3 DEF PatchSchedule
  <2>3. "patch" \in {"patch", "resync", "deploy", "run"} /\ {} \in SUBSET Keys OBVIOUS
  <2> QED BY <2>1, <2>2, <2>3, BeginKeepsIds
<1>4. ASSUME NEW a \in Actors, NEW k \in Keys, Toggle(a, k) PROVE IdsAreReal' /\ JobsKnowIds'
  <2>1. [NoUpdate EXCEPT !.enabled = ~rows[k].enabled] \in ScheduleUpdate
    <3>1. (~rows[k].enabled) \in BOOLEAN OBVIOUS
    <3> QED BY <3>1 DEF NoUpdate, ScheduleUpdate
  <2> QED BY <1>3, <1>4, <2>1 DEF Toggle
<1>5. ASSUME NEW a \in Actors, NEW k \in Keys, RunNow(a, k) PROVE IdsAreReal' /\ JobsKnowIds'
  <2>1. /\ Starts(a, NewJob("run", "find", k, {}, NoUpdate), {})
        /\ rows' = rows /\ deployments' = deployments
    BY <1>5 DEF RunNow
  <2>2. /\ "run" \in {"patch", "resync", "deploy", "run"} /\ {} \in SUBSET Keys
        /\ "find" \in {"parameters", "save", "find", "apply"}
    OBVIOUS
  <2> QED BY <1>1, <2>1, <2>2, BeginKeepsIds
<1>6. ASSUME NEW a \in Actors, ResyncPending(a) PROVE IdsAreReal' /\ JobsKnowIds'
  <2> PICK marked : marked = {k \in Keys : rows[k].sync_pending} OBVIOUS
  <2>1. PICK k \in marked : Starts(a, NewJob("resync", "find", k, marked \ {k}, NoUpdate), marked)
    BY <1>6 DEF ResyncPending
  <2>2. /\ "resync" \in {"patch", "resync", "deploy", "run"} /\ k \in Keys
        /\ "find" \in {"parameters", "save", "find", "apply"} /\ marked \ {k} \in SUBSET Keys
    OBVIOUS
  <2>3. rows' = rows /\ deployments' = deployments BY <1>6 DEF ResyncPending
  <2> QED BY <1>1, <2>1, <2>2, <2>3, BeginKeepsIds
<1>7. ASSUME NEW a \in Actors, DeployAll(a) PROVE IdsAreReal' /\ JobsKnowIds'
  <2>1. PICK k \in Keys : Starts(a, NewJob("deploy", "apply", k, Keys \ {k}, NoUpdate), Keys)
    BY <1>7 DEF DeployAll
  <2>2. /\ "deploy" \in {"patch", "resync", "deploy", "run"}
        /\ "apply" \in {"parameters", "save", "find", "apply"} /\ Keys \ {k} \in SUBSET Keys
    OBVIOUS
  <2>3. rows' = rows /\ deployments' = deployments BY <1>7 DEF DeployAll
  <2> QED BY <1>1, <2>1, <2>2, <2>3, BeginKeepsIds
<1>8. ASSUME NEW a \in Actors, CutOff(a) PROVE IdsAreReal' /\ JobsKnowIds'
  <2>1. /\ job[a] # Idle /\ job' = [job EXCEPT ![a] = Idle]
        /\ rows' = rows /\ deployments' = deployments
    BY <1>8 DEF CutOff
  <2>2. \A b \in Actors : ReadOnce(b) BY <2>1, TurnReads
  <2>3. rows' \in [Keys -> Row] BY <1>1, <2>1 DEF TypeOK
  <2> QED BY <2>1, <2>2, <2>3, IdsMove
<1>9. ASSUME NEW k \in Keys, NEW t \in Times, NEW e \in BOOLEAN, Migrate(k, t, e)
      PROVE  IdsAreReal' /\ JobsKnowIds'
  <2>1. /\ rows' = [rows EXCEPT ![k].time = t, ![k].enabled = e, ![k].sync_pending = TRUE]
        /\ job' = [b \in Actors |->
                     IF job[b] = Idle THEN Idle ELSE [job[b] EXCEPT !.clean = @ \ {k}]]
        /\ deployments' = deployments
    BY <1>9 DEF Migrate
  <2>2. ASSUME NEW b \in Actors PROVE ReadOnce(b)
    <3>1. CASE job[b] = Idle BY <2>1, <3>1 DEF ReadOnce
    <3>2. CASE job[b] # Idle
      <4>1. job[b] \in Job BY <1>1, <3>2, JobHas
      <4>2. job'[b] = [job[b] EXCEPT !.clean = @ \ {k}] BY <2>1, <3>2
      <4>3. /\ job'[b].seen = job[b].seen /\ job'[b].at = job[b].at
            /\ job'[b].key = job[b].key
        BY <4>1, <4>2 DEF Job
      <4> QED BY <3>2, <4>3 DEF ReadOnce
    <3> QED BY <3>1, <3>2
  <2>3. rows' \in [Keys -> Row] /\ \A m \in Keys : rows'[m].deployment_id = rows[m].deployment_id
    <3>1. rows \in [Keys -> Row] BY <1>1 DEF TypeOK
    <3> QED BY <2>1, <3>1, RowTimed
  <2> QED BY <2>1, <2>2, <2>3, IdsMove
<1>10. \A u \in Updates : u \in ScheduleUpdate BY UpdatesAre
<1> QED BY <1>2, <1>3, <1>4, <1>5, <1>6, <1>7, <1>8, <1>9, <1>10, StepKeepsIds DEF Next

\* Whoever pushes a schedule or starts a flow by the stored id meets a deployment
\* Prefect has: an id is stored after it was found or registered, and a worker that
\* could not register a flow writes back no more than the id it had read
\* (services/prefect_admin.py deployment_id, mark_synced; workflows/deployments.py).
THEOREM StoredIdsAreReal == Spec => []IdsAreReal
<1>1. Init => IdsAreReal /\ JobsKnowIds BY DEF Init, IdsAreReal, JobsKnowIds
<1>2. SchedulesInv /\ (IdsAreReal /\ JobsKnowIds) /\ [Next]_vars => (IdsAreReal /\ JobsKnowIds)'
  BY IdsStepKeep
<1> QED BY <1>1, <1>2, SchedulesInvariance, PTL DEF Spec

-----------------------------------------------------------------------------
(* The rows every start puts in (Registry): what a start, a resync, a      *)
(* revision and a change of the administrator leave of each other.         *)

Seeds == INSTANCE Registry

\* Any set of texts will do that has the words of the model.
CONSTANT Texts

Words == {"file", "same", "none", "mine", "new", "old", "16", "pro"}

\* What .env, config/harvest.yaml and the image may give: none of it is the
\* administrator's.
Environments ==
  [plan : Texts, profile : Texts, file : BOOLEAN, fileKey : Texts, model : Texts,
   terms : SUBSET [text : Texts, match : Texts], value : Texts \ {"mine"},
   cron : Texts, hour : Texts, vectors : Texts]

TermRow == [text : Texts, match : Texts, weight : Texts]
PlanRow == [key : Texts, isDefault : BOOLEAN]
ProfileRow == [key : Texts, isActive : {TRUE}]
CronRow == [key : {Seeds!Chats, Seeds!Personal}, cron : Texts, enabled : BOOLEAN, hour : Texts,
            byHand : BOOLEAN]
SettingRow == [value : Texts, default : Texts \ {"mine"}, by : {Seeds!None, "seed", "admin"}]

RegistryRow ==
  [plans : SUBSET PlanRow, profiles : SUBSET ProfileRow, terms : SUBSET TermRow,
   models : SUBSET Texts, role : Texts, schedules : SUBSET CronRow,
   setting : SettingRow, refused : BOOLEAN]

\* The terms belong to the groups of a profile, and a value set by hand says so.
Registries ==
  {reg \in RegistryRow : /\ reg.profiles = {} => reg.terms = {}
                         /\ reg.setting.by # "admin" => reg.setting.value # "mine"}

\* What is the administrator's in one registry is so in another, but for the switches
\* of some schedules.
KeepsBut(reg, new, overruled) ==
  /\ reg.role = "mine" => new.role = "mine"
  /\ reg.setting.value = "mine" => new.setting.value = "mine"
  /\ \A t \in reg.terms : t.weight = "mine" =>
       \E u \in new.terms : u.weight = "mine" /\ u.text = t.text /\ u.match = t.match
  /\ \A s \in reg.schedules : s.cron = "mine" =>
       \E u \in new.schedules : u.cron = "mine" /\ u.key = s.key
  /\ \A s \in reg.schedules : s.hour = "mine" =>
       \E u \in new.schedules : u.hour = "mine" /\ u.key = s.key
  /\ \A s \in reg.schedules \ overruled : s.byHand =>
       \E u \in new.schedules : u.byHand /\ u.key = s.key /\ u.enabled = s.enabled
  /\ \A p \in reg.plans : ~p.isDefault => \E u \in new.plans : ~u.isDefault /\ u.key = p.key

Keeps(reg, new) == KeepsBut(reg, new, {})

LEMMA KeepsMineBut ==
  ASSUME NEW reg, NEW new, NEW overruled, KeepsBut(reg, new, overruled)
  PROVE  Seeds!Mine(reg) \ Seeds!Switches(overruled) \subseteq Seeds!Mine(new)
<1> SUFFICES ASSUME NEW x \in Seeds!Mine(reg), x \notin Seeds!Switches(overruled)
             PROVE  x \in Seeds!Mine(new)
  OBVIOUS
<1>1. CASE \E r \in {reg.role} \intersect {"mine"} : x = <<"role", "mine">>
  BY <1>1 DEF Seeds!Mine, KeepsBut
<1>2. CASE \E v \in {reg.setting.value} \intersect {"mine"} : x = <<"setting", "mine">>
  BY <1>2 DEF Seeds!Mine, KeepsBut
<1>3. CASE \E t \in reg.terms : t.weight = "mine" /\ x = <<"term", t.text, t.match>>
  <2>1. PICK t \in reg.terms : t.weight = "mine" /\ x = <<"term", t.text, t.match>> BY <1>3
  <2>2. PICK u \in new.terms : u.weight = "mine" /\ u.text = t.text /\ u.match = t.match
    BY <2>1 DEF KeepsBut
  <2>3. x = <<"term", u.text, u.match>> BY <2>1, <2>2
  <2> QED BY <2>2, <2>3 DEF Seeds!Mine
<1>4. CASE \E s \in reg.schedules : s.cron = "mine" /\ x = <<"cron", s.key>>
  <2>1. PICK s \in reg.schedules : s.cron = "mine" /\ x = <<"cron", s.key>> BY <1>4
  <2>2. PICK u \in new.schedules : u.cron = "mine" /\ u.key = s.key BY <2>1 DEF KeepsBut
  <2>3. x = <<"cron", u.key>> BY <2>1, <2>2
  <2> QED BY <2>2, <2>3 DEF Seeds!Mine
<1>5. CASE \E s \in reg.schedules : s.hour = "mine" /\ x = <<"hour", s.key>>
  <2>1. PICK s \in reg.schedules : s.hour = "mine" /\ x = <<"hour", s.key>> BY <1>5
  <2>2. PICK u \in new.schedules : u.hour = "mine" /\ u.key = s.key BY <2>1 DEF KeepsBut
  <2>3. x = <<"hour", u.key>> BY <2>1, <2>2
  <2> QED BY <2>2, <2>3 DEF Seeds!Mine
<1>6. CASE \E p \in reg.plans : ~p.isDefault /\ x = <<"plan", p.key>>
  <2>1. PICK p \in reg.plans : ~p.isDefault /\ x = <<"plan", p.key>> BY <1>6
  <2>2. PICK u \in new.plans : ~u.isDefault /\ u.key = p.key BY <2>1 DEF KeepsBut
  <2>3. x = <<"plan", u.key>> BY <2>1, <2>2
  <2> QED BY <2>2, <2>3 DEF Seeds!Mine
<1>7. CASE x \in Seeds!Switches(reg.schedules)
  <2>1. PICK s \in reg.schedules : s.byHand /\ x = <<"enabled", s.key, s.enabled>>
    BY <1>7 DEF Seeds!Switches
  <2>2. s \notin overruled BY <2>1 DEF Seeds!Switches
  <2>3. PICK u \in new.schedules : u.byHand /\ u.key = s.key /\ u.enabled = s.enabled
    BY <2>1, <2>2 DEF KeepsBut
  <2>4. x = <<"enabled", u.key, u.enabled>> BY <2>1, <2>3
  <2>5. x \in Seeds!Switches(new.schedules) BY <2>3, <2>4 DEF Seeds!Switches
  <2> QED BY <2>5 DEF Seeds!Mine
<1> QED BY <1>1, <1>2, <1>3, <1>4, <1>5, <1>6, <1>7 DEF Seeds!Mine

LEMMA KeepsMine ==
  ASSUME NEW reg, NEW new, Keeps(reg, new)
  PROVE  Seeds!Mine(reg) \subseteq Seeds!Mine(new)
<1>1. Seeds!Switches({}) = {} BY DEF Seeds!Switches
<1>2. Seeds!Mine(reg) \ Seeds!Switches({}) \subseteq Seeds!Mine(new) BY KeepsMineBut DEF Keeps
<1> QED BY <1>1, <1>2

LEMMA RegistryHas ==
  ASSUME Words \subseteq Texts, NEW reg \in Registries
  PROVE  /\ reg \in RegistryRow
         /\ reg.plans \in SUBSET PlanRow /\ reg.profiles \in SUBSET ProfileRow
         /\ reg.terms \in SUBSET TermRow /\ reg.models \in SUBSET Texts /\ reg.role \in Texts
         /\ reg.schedules \in SUBSET CronRow /\ reg.setting \in SettingRow
         /\ reg.refused \in BOOLEAN
         /\ reg.profiles = {} => reg.terms = {}
         /\ (reg.setting.by # "admin" => reg.setting.value # "mine")
         /\ Keeps(reg, reg)
BY DEF Registries, RegistryRow, Keeps, KeepsBut

\* A refusal is the old rows with the flag set.
LEMMA RefuseStays ==
  ASSUME Words \subseteq Texts, NEW reg \in Registries
  PROVE  /\ Seeds!Refuse(reg) \in Registries /\ Seeds!Refuse(reg).refused
         /\ Keeps(reg, Seeds!Refuse(reg))
<1> PICK y : y = Seeds!Refuse(reg) OBVIOUS
<1>1. y = [reg EXCEPT !.refused = TRUE] BY DEF Seeds!Refuse
<1>2. /\ y \in RegistryRow /\ y.refused /\ y.plans = reg.plans /\ y.profiles = reg.profiles
      /\ y.terms = reg.terms /\ y.role = reg.role /\ y.schedules = reg.schedules
      /\ y.setting = reg.setting
  BY <1>1, RegistryHas DEF RegistryRow
<1> QED BY <1>2, RegistryHas DEF Registries, Keeps, KeepsBut

LEMMA PlansStay ==
  ASSUME Words \subseteq Texts, NEW reg \in Registries, NEW env \in Environments
  PROVE  /\ Seeds!_seed_plans(reg, env) \in Registries
         /\ Keeps(reg, Seeds!_seed_plans(reg, env))
<1> PICK y : y = Seeds!_seed_plans(reg, env) OBVIOUS
<1> PICK p : p = [key |-> env.plan, isDefault |-> TRUE] OBVIOUS
<1>1. p \in PlanRow BY DEF PlanRow, Environments
<1>2. CASE y = reg BY <1>2, RegistryHas
<1>3. CASE y = Seeds!Refuse(reg) BY <1>3, RefuseStays
<1>4. CASE y = [reg EXCEPT !.plans = @ \union {p}]
  <2> PICK plans : plans = reg.plans \union {p} OBVIOUS
  <2>1. plans \in SUBSET PlanRow BY <1>1, RegistryHas
  <2>2. y = [reg EXCEPT !.plans = plans] BY <1>4
  <2>3. /\ y \in RegistryRow /\ y.plans = plans /\ y.profiles = reg.profiles
        /\ y.terms = reg.terms /\ y.role = reg.role /\ y.schedules = reg.schedules
        /\ y.setting = reg.setting
    BY <2>1, <2>2, RegistryHas DEF RegistryRow
  <2> QED BY <2>3, RegistryHas DEF Registries, Keeps, KeepsBut
<1> QED BY <1>2, <1>3, <1>4 DEF Seeds!_seed_plans

LEMMA HarvestProfileStays ==
  ASSUME Words \subseteq Texts, NEW reg \in Registries, NEW env \in Environments
  PROVE  /\ Seeds!_seed_harvest_profile(reg, env) \in Registries
         /\ Keeps(reg, Seeds!_seed_harvest_profile(reg, env))
<1> PICK y : y = Seeds!_seed_harvest_profile(reg, env) OBVIOUS
<1> PICK p : p = [key |-> env.fileKey, isActive |-> TRUE] OBVIOUS
<1> PICK terms : terms = {[text |-> t.text, match |-> t.match, weight |-> "file"] :
                             t \in env.terms}
  OBVIOUS
<1>1. p \in ProfileRow /\ terms \in SUBSET TermRow
  <2>1. env.fileKey \in Texts /\ "file" \in Texts BY DEF Environments, Words
  <2>2. \A t \in env.terms : t.text \in Texts /\ t.match \in Texts BY DEF Environments
  <2>3. \A t \in env.terms :
          [text |-> t.text, match |-> t.match, weight |-> "file"] \in TermRow
    BY <2>1, <2>2 DEF TermRow
  <2> QED BY <2>1, <2>3 DEF ProfileRow
<1>2. CASE y = reg BY <1>2, RegistryHas
<1>3. CASE y = Seeds!Refuse(reg) BY <1>3, RefuseStays
<1>4. CASE /\ ~\E q \in reg.profiles : q.isActive \/ q.key = env.fileKey
           /\ y = [reg EXCEPT !.profiles = @ \union {p}, !.terms = terms]
  <2>1. reg.terms = {}
    <3>1. reg.profiles = {} BY <1>4, RegistryHas DEF ProfileRow
    <3> QED BY <3>1, RegistryHas
  <2> PICK profiles : profiles = reg.profiles \union {p} OBVIOUS
  <2>2. profiles \in SUBSET ProfileRow BY <1>1, RegistryHas
  <2>3. y = [reg EXCEPT !.profiles = profiles, !.terms = terms] BY <1>4
  <2>4. /\ y \in RegistryRow /\ y.plans = reg.plans /\ y.profiles = profiles
        /\ y.terms = terms /\ y.role = reg.role /\ y.schedules = reg.schedules
        /\ y.setting = reg.setting
    BY <1>1, <2>2, <2>3, RegistryHas DEF RegistryRow
  <2> QED BY <2>1, <2>4, RegistryHas DEF Registries, Keeps, KeepsBut
<1> QED BY <1>2, <1>3, <1>4 DEF Seeds!_seed_harvest_profile

LEMMA ModelsStay ==
  ASSUME Words \subseteq Texts, NEW reg \in Registries, NEW env \in Environments
  PROVE  /\ Seeds!_seed_llm_registry(reg, env) \in Registries
         /\ Keeps(reg, Seeds!_seed_llm_registry(reg, env))
<1> PICK y : y = Seeds!_seed_llm_registry(reg, env) OBVIOUS
<1> PICK bound : bound = IF reg.role = Seeds!None THEN env.model ELSE reg.role OBVIOUS
<1>1. bound \in Texts /\ env.model \in Texts BY RegistryHas DEF Environments
<1>2. reg.role = "mine" => bound = "mine" BY DEF Seeds!None
<1> PICK models : models = reg.models \union {env.model} OBVIOUS
<1>3. models \in SUBSET Texts /\ y = [reg EXCEPT !.models = models, !.role = bound]
  BY <1>1, RegistryHas DEF Seeds!_seed_llm_registry, RegistryRow
<1>4. /\ y \in RegistryRow /\ y.plans = reg.plans /\ y.profiles = reg.profiles
      /\ y.terms = reg.terms /\ y.role = bound /\ y.schedules = reg.schedules
      /\ y.setting = reg.setting
  BY <1>1, <1>3, RegistryHas DEF RegistryRow
<1> QED BY <1>2, <1>4, RegistryHas DEF Registries, Keeps, KeepsBut

LEMMA CronsStay ==
  ASSUME Words \subseteq Texts, NEW reg \in Registries, NEW env \in Environments
  PROVE  /\ Seeds!_seed_schedules(reg, env) \in Registries
         /\ Keeps(reg, Seeds!_seed_schedules(reg, env))
<1> PICK y : y = Seeds!_seed_schedules(reg, env) OBVIOUS
<1> PICK missing : missing = {Seeds!Chats, Seeds!Personal} \ {s.key : s \in reg.schedules} OBVIOUS
<1> PICK added :
      added = {[key     |-> k,
                cron    |-> IF k = Seeds!Personal THEN "same" ELSE env.cron,
                enabled |-> k # Seeds!Personal,
                hour    |-> IF k = Seeds!Personal THEN Seeds!None ELSE env.hour,
                byHand  |-> FALSE] : k \in missing}
  OBVIOUS
<1>1. ASSUME NEW k \in missing
      PROVE  [key     |-> k,
              cron    |-> IF k = Seeds!Personal THEN "same" ELSE env.cron,
              enabled |-> k # Seeds!Personal,
              hour    |-> IF k = Seeds!Personal THEN Seeds!None ELSE env.hour,
              byHand  |-> FALSE] \in CronRow
  <2>1. (k # Seeds!Personal) \in BOOLEAN OBVIOUS
  <2>2. env.cron \in Texts /\ env.hour \in Texts BY DEF Environments
  <2>3. (IF k = Seeds!Personal THEN Seeds!None ELSE env.hour) \in Texts
    BY <2>2 DEF Seeds!None, Words
  <2>4. (IF k = Seeds!Personal THEN "same" ELSE env.cron) \in Texts BY <2>2 DEF Words
  <2> QED BY <2>1, <2>3, <2>4 DEF CronRow
<1>2. added \in SUBSET CronRow BY <1>1
<1>3. y = [reg EXCEPT !.schedules = @ \union added] BY DEF Seeds!_seed_schedules
<1>4. /\ y \in RegistryRow /\ y.plans = reg.plans /\ y.profiles = reg.profiles
      /\ y.terms = reg.terms /\ y.role = reg.role /\ y.schedules = reg.schedules \union added
      /\ y.setting = reg.setting
  BY <1>2, <1>3, RegistryHas DEF RegistryRow
<1> QED BY <1>4, RegistryHas DEF Registries, Keeps, KeepsBut

LEMMA SettingsStay ==
  ASSUME Words \subseteq Texts, NEW reg \in Registries, NEW env \in Environments
  PROVE  /\ Seeds!_seed_settings(reg, env) \in Registries
         /\ Keeps(reg, Seeds!_seed_settings(reg, env))
<1> PICK y : y = Seeds!_seed_settings(reg, env) OBVIOUS
<1>1. env.value \in Texts /\ env.value # "mine" BY DEF Environments
<1>2. reg.setting \in SettingRow /\ (reg.setting.by # "admin" => reg.setting.value # "mine")
  BY RegistryHas
<1>3. \E v \in SettingRow : /\ y = [reg EXCEPT !.setting = v]
                            /\ (v.by # "admin" => v.value # "mine")
                            /\ reg.setting.value = "mine" => v.value = "mine"
  <2>1. CASE reg.setting.by = Seeds!None
    <3> PICK v : v = [value |-> env.value, default |-> env.value, by |-> "seed"] OBVIOUS
    <3>1. v \in SettingRow /\ v.value # "mine" BY <1>1 DEF SettingRow
    <3>2. reg.setting.value # "mine" BY <1>2, <2>1 DEF Seeds!None
    <3>3. y = [reg EXCEPT !.setting = v] BY <2>1 DEF Seeds!_seed_settings
    <3> QED BY <3>1, <3>2, <3>3
  <2>2. CASE reg.setting.by = "seed"
    <3> PICK v : v = [reg.setting EXCEPT !.default = env.value] OBVIOUS
    <3>1. v \in SettingRow /\ v.value = reg.setting.value /\ v.by = "seed"
      BY <1>1, <1>2, <2>2 DEF SettingRow
    <3>2. y = [reg EXCEPT !.setting = v]
      BY <2>2, RegistryHas DEF Seeds!_seed_settings, Seeds!None, RegistryRow
    <3> QED BY <1>2, <2>2, <3>1, <3>2
  <2>3. CASE reg.setting.by \notin {Seeds!None, "seed"}
    <3>1. y = reg BY <2>3 DEF Seeds!_seed_settings
    <3>2. reg = [reg EXCEPT !.setting = reg.setting] BY RegistryHas DEF RegistryRow
    <3> QED BY <1>2, <3>1, <3>2
  <2> QED BY <2>1, <2>2, <2>3
<1>4. PICK v \in SettingRow : /\ y = [reg EXCEPT !.setting = v]
                              /\ v.by # "admin" => v.value # "mine"
                              /\ reg.setting.value = "mine" => v.value = "mine"
  BY <1>3
<1>5. /\ y \in RegistryRow /\ y.plans = reg.plans /\ y.profiles = reg.profiles
      /\ y.terms = reg.terms /\ y.role = reg.role /\ y.schedules = reg.schedules
      /\ y.setting = v
  BY <1>4, RegistryHas DEF RegistryRow
<1>6. y \in Registries BY <1>4, <1>5, RegistryHas DEF Registries
<1>7. Keeps(reg, reg) BY RegistryHas
<1>8. Keeps(reg, y) BY <1>4, <1>5, <1>7 DEF Keeps, KeepsBut
<1> QED BY <1>6, <1>8

\* A start takes nothing from the administrator: whatever .env, the file and the image
\* say by then, the roles, the setting, the weights of terms, the schedules and the plans
\* made by hand are what they were (bootstrap/seed.py seed_all).
THEOREM SeedingKeepsAdminsWork ==
  ASSUME Words \subseteq Texts, NEW reg \in Registries, NEW env \in Environments
  PROVE  /\ Seeds!seed_all(reg, env) \in Registries
         /\ Seeds!Mine(reg) \subseteq Seeds!Mine(Seeds!seed_all(reg, env))
<1> PICK r1 : r1 = Seeds!_seed_plans(reg, env) OBVIOUS
<1> PICK r2 : r2 = Seeds!_seed_harvest_profile(r1, env) OBVIOUS
<1> PICK r3 : r3 = Seeds!_seed_llm_registry(r2, env) OBVIOUS
<1> PICK r4 : r4 = Seeds!_seed_schedules(r3, env) OBVIOUS
<1> PICK r5 : r5 = Seeds!_seed_settings(r4, env) OBVIOUS
<1>1. r1 \in Registries /\ Seeds!Mine(reg) \subseteq Seeds!Mine(r1) BY PlansStay, KeepsMine
<1>2. r2 \in Registries /\ Seeds!Mine(r1) \subseteq Seeds!Mine(r2)
  BY <1>1, HarvestProfileStays, KeepsMine
<1>3. r3 \in Registries /\ Seeds!Mine(r2) \subseteq Seeds!Mine(r3)
  BY <1>2, ModelsStay, KeepsMine
<1>4. r4 \in Registries /\ Seeds!Mine(r3) \subseteq Seeds!Mine(r4)
  BY <1>3, CronsStay, KeepsMine
<1>5. r5 \in Registries /\ Seeds!Mine(r4) \subseteq Seeds!Mine(r5)
  BY <1>4, SettingsStay, KeepsMine
<1>6. r5 = Seeds!seed_all(reg, env) BY DEF Seeds!seed_all
<1> QED BY <1>1, <1>2, <1>3, <1>4, <1>5, <1>6

\* A change of the schedules alone, row by row.
LEMMA SchedulesChange ==
  ASSUME Words \subseteq Texts, NEW reg \in Registries, NEW rewritten \in SUBSET CronRow,
         NEW y, y = [reg EXCEPT !.schedules = rewritten]
  PROVE  /\ y \in Registries
         /\ y.plans = reg.plans /\ y.terms = reg.terms /\ y.role = reg.role
         /\ y.schedules = rewritten /\ y.setting = reg.setting
<1>1. /\ y \in RegistryRow /\ y.plans = reg.plans /\ y.profiles = reg.profiles
      /\ y.terms = reg.terms /\ y.role = reg.role /\ y.schedules = rewritten
      /\ y.setting = reg.setting
  BY RegistryHas DEF RegistryRow
<1> QED BY <1>1, RegistryHas DEF Registries

\* What a revision makes of a row with another switch.
LEMMA SwitchedAre ==
  ASSUME NEW s \in CronRow, NEW on \in BOOLEAN
  PROVE  /\ Seeds!Switched(s, on) \in CronRow /\ Seeds!Switched(s, on).key = s.key
         /\ Seeds!Switched(s, on).cron = s.cron /\ Seeds!Switched(s, on).hour = s.hour
<1> PICK byHand : byHand = (s.byHand /\ s.enabled = on) OBVIOUS
<1>1. byHand \in BOOLEAN
  <2>1. CASE s.byHand /\ s.enabled = on BY <2>1
  <2>2. CASE ~(s.byHand /\ s.enabled = on) BY <2>2
  <2> QED BY <2>1, <2>2
<1>2. Seeds!Switched(s, on) = [s EXCEPT !.enabled = on, !.byHand = byHand]
  BY DEF Seeds!Switched, CronRow
<1> QED BY <1>1, <1>2 DEF CronRow

LEMMA WithHourAre ==
  ASSUME Words \subseteq Texts, NEW s \in CronRow
  PROVE  /\ Seeds!WithHour(s) \in CronRow /\ Seeds!WithHour(s).key = s.key
         /\ Seeds!WithHour(s).cron = s.cron /\ Seeds!WithHour(s).enabled = s.enabled
         /\ Seeds!WithHour(s).byHand = s.byHand
         /\ s.hour = "mine" => Seeds!WithHour(s).hour = "mine"
<1> PICK hour : hour = IF s.key = Seeds!Chats /\ s.hour = Seeds!None THEN "16" ELSE s.hour
  OBVIOUS
<1>1. hour \in Texts /\ (s.hour = "mine" => hour = "mine") BY DEF CronRow, Words, Seeds!None
<1>2. Seeds!WithHour(s) = [s EXCEPT !.hour = hour] BY DEF Seeds!WithHour, CronRow
<1> QED BY <1>1, <1>2 DEF CronRow

\* Where a revision finds a time of the administrator it leaves it, for every row, and
\* the switch with it.
LEMMA NewTimesAre ==
  ASSUME Words \subseteq Texts, NEW s \in CronRow
  PROVE  /\ Seeds!NewTime(s) \in CronRow /\ Seeds!NewTime(s).key = s.key
         /\ s.cron = "mine" => Seeds!NewTime(s).cron = "mine"
         /\ s.hour = "mine" => Seeds!NewTime(s).hour = "mine"
         /\ ~Seeds!AtOldTime(s) => /\ Seeds!NewTime(s).byHand = s.byHand
                                   /\ Seeds!NewTime(s).enabled = s.enabled
<1> PICK u : u = Seeds!NewTime(s) OBVIOUS
<1>1. CASE ~Seeds!AtOldTime(s)
  <2>1. u = Seeds!WithHour(s) BY <1>1 DEF Seeds!NewTime
  <2> QED BY <1>1, <2>1, WithHourAre
<1>2. CASE Seeds!AtOldTime(s) /\ s.key = Seeds!Chats
  <2> PICK moved : moved = [s EXCEPT !.cron = "new"] OBVIOUS
  <2>1. moved \in CronRow /\ moved.key = s.key /\ moved.hour = s.hour
    BY DEF CronRow, Words
  <2>2. s.cron # "mine" BY <1>2 DEF Seeds!AtOldTime
  <2> PICK hourly : hourly = Seeds!WithHour(moved) OBVIOUS
  <2>3. /\ hourly \in CronRow /\ hourly.key = s.key
        /\ s.hour = "mine" => hourly.hour = "mine"
    BY <2>1, WithHourAre
  <2>4. u = Seeds!Switched(hourly, TRUE) BY <1>2 DEF Seeds!NewTime
  <2>5. u \in CronRow /\ u.key = hourly.key /\ u.hour = hourly.hour BY <2>3, <2>4, SwitchedAre
  <2> QED BY <1>2, <2>2, <2>3, <2>5
<1>3. CASE Seeds!AtOldTime(s) /\ s.key # Seeds!Chats
  <2>1. u = Seeds!Switched(s, FALSE) BY <1>3 DEF Seeds!NewTime
  <2>2. /\ u \in CronRow /\ u.key = s.key /\ u.cron = s.cron /\ u.hour = s.hour
    BY <2>1, SwitchedAre
  <2> QED BY <1>3, <2>2
<1> QED BY <1>1, <1>2, <1>3

\* The revision that gives the chats new times overrules an administrator in one thing:
\* the switch of a schedule whose time he has left at the old default.  His times and
\* hours, the other switches and all that is not a schedule are there after it
\* (alembic revision 0008 upgrade).
THEOREM RescheduleKeepsAdminsWork ==
  ASSUME Words \subseteq Texts, NEW reg \in Registries
  PROVE  /\ Seeds!Reschedule(reg) \in Registries
         /\ Seeds!Mine(reg) \ Seeds!Overruled(reg) \subseteq Seeds!Mine(Seeds!Reschedule(reg))
<1> PICK y : y = Seeds!Reschedule(reg) OBVIOUS
<1> PICK rewritten : rewritten = {Seeds!NewTime(s) : s \in reg.schedules} OBVIOUS
<1> PICK overruled : overruled = {s \in reg.schedules : Seeds!AtOldTime(s)} OBVIOUS
<1>1. rewritten \in SUBSET CronRow BY NewTimesAre, RegistryHas
<1>2. y = [reg EXCEPT !.schedules = rewritten]
  BY RegistryHas DEF Seeds!Reschedule, RegistryRow
<1>3. /\ y \in Registries
      /\ y.plans = reg.plans /\ y.terms = reg.terms /\ y.role = reg.role
      /\ y.schedules = rewritten /\ y.setting = reg.setting
  BY <1>1, <1>2, SchedulesChange
<1>4. ASSUME NEW s \in reg.schedules
      PROVE  \E u \in y.schedules :
               /\ u.key = s.key
               /\ s.cron = "mine" => u.cron = "mine"
               /\ s.hour = "mine" => u.hour = "mine"
               /\ s \notin overruled => u.byHand = s.byHand /\ u.enabled = s.enabled
  <2>1. s \in CronRow /\ Seeds!NewTime(s) \in y.schedules BY <1>3, RegistryHas
  <2> QED BY <2>1, NewTimesAre
<1>5. KeepsBut(reg, y, overruled) BY <1>3, <1>4 DEF KeepsBut
<1> QED BY <1>3, <1>5, KeepsMineBut DEF Seeds!Overruled

LEMMA NoRowsAre == ASSUME Words \subseteq Texts PROVE Seeds!NoRows \in Registries
<1> PICK v : v = [value |-> Seeds!None, default |-> Seeds!None, by |-> Seeds!None] OBVIOUS
<1>1. Seeds!None \in Texts /\ Seeds!None # "mine" BY DEF Seeds!None, Words
<1>2. v \in SettingRow /\ v.value # "mine" BY <1>1 DEF SettingRow
<1> PICK y : y = Seeds!NoRows OBVIOUS
<1>3. y = [plans |-> {}, profiles |-> {}, terms |-> {}, models |-> {}, role |-> Seeds!None,
           schedules |-> {}, setting |-> v, refused |-> FALSE]
  BY DEF Seeds!NoRows
<1>4. y \in RegistryRow BY <1>1, <1>2, <1>3 DEF RegistryRow
<1>5. y.terms = {} /\ y.setting = v BY <1>3
<1> QED BY <1>2, <1>4, <1>5 DEF Registries

\* The same rows with one schedule in place of another.
LEMMA EditScheduleStays ==
  ASSUME Words \subseteq Texts, NEW reg \in Registries, NEW s \in reg.schedules,
         NEW y \in Seeds!EditSchedule(reg, s)
  PROVE  y \in Registries
<1> DEFINE Changes == {[s EXCEPT !.cron = "mine"], [s EXCEPT !.hour = "mine"]}
                        \union {[s EXCEPT !.enabled = on, !.byHand = TRUE] : on \in BOOLEAN}
<1>1. PICK u \in Changes : y = [reg EXCEPT !.schedules = (@ \ {s}) \union {u}]
  BY DEF Seeds!EditSchedule
<1>2. s \in CronRow /\ "mine" \in Texts BY RegistryHas DEF Words
<1>3. ASSUME NEW on \in BOOLEAN PROVE [s EXCEPT !.enabled = on, !.byHand = TRUE] \in CronRow
  BY <1>2 DEF CronRow
<1>4. u \in CronRow
  <2>1. [s EXCEPT !.cron = "mine"] \in CronRow BY <1>2 DEF CronRow
  <2>2. [s EXCEPT !.hour = "mine"] \in CronRow BY <1>2 DEF CronRow
  <2> QED BY <1>3, <2>1, <2>2
<1> PICK edited : edited = (reg.schedules \ {s}) \union {u} OBVIOUS
<1>5. edited \in SUBSET CronRow BY <1>4, RegistryHas
<1>6. y = [reg EXCEPT !.schedules = edited] BY <1>1, RegistryHas DEF RegistryRow
<1> QED BY <1>5, <1>6, SchedulesChange

\* A change of the terms of a registry that has its profile.
LEMMA TermsChange ==
  ASSUME Words \subseteq Texts, NEW reg \in Registries, reg.profiles # {},
         NEW terms \in SUBSET TermRow, NEW y, y = [reg EXCEPT !.terms = terms]
  PROVE  y \in Registries
<1>1. /\ y \in RegistryRow /\ y.profiles = reg.profiles /\ y.setting = reg.setting
  BY RegistryHas DEF RegistryRow
<1> QED BY <1>1, RegistryHas DEF Registries

LEMMA SettingChange ==
  ASSUME Words \subseteq Texts, NEW reg \in Registries, NEW v \in SettingRow,
         v.by # "admin" => v.value # "mine", NEW y, y = [reg EXCEPT !.setting = v]
  PROVE  y \in Registries
<1>1. /\ y \in RegistryRow /\ y.profiles = reg.profiles /\ y.terms = reg.terms
      /\ y.setting = v
  BY RegistryHas DEF RegistryRow
<1> QED BY <1>1, RegistryHas DEF Registries

LEMMA UnscheduleStays ==
  ASSUME Words \subseteq Texts, NEW reg \in Registries
  PROVE  Seeds!Unschedule(reg) \in Registries
<1>1. ASSUME NEW s \in CronRow PROVE Seeds!OldTime(s) \in CronRow
  <2> PICK moved : moved = [s EXCEPT !.hour = Seeds!None, !.cron = "old"] OBVIOUS
  <2>1. moved \in CronRow /\ [s EXCEPT !.hour = Seeds!None] \in CronRow
    BY DEF CronRow, Words, Seeds!None
  <2>2. Seeds!Switched(moved, TRUE) \in CronRow BY <2>1, SwitchedAre
  <2> QED BY <2>1, <2>2 DEF Seeds!OldTime
<1> PICK old : old = {Seeds!OldTime(s) : s \in reg.schedules} OBVIOUS
<1>2. old \in SUBSET CronRow BY <1>1, RegistryHas
<1>3. Seeds!Unschedule(reg) = [reg EXCEPT !.schedules = old]
  BY RegistryHas DEF Seeds!Unschedule, RegistryRow
<1> QED BY <1>2, <1>3, SchedulesChange

LEMMA EditsStay ==
  ASSUME Words \subseteq Texts, NEW reg \in Registries, NEW y \in Seeds!Edited(reg)
  PROVE  y \in Registries
<1>1. CASE y = Seeds!create_plan(reg, "pro")
  <2> PICK plans : plans = reg.plans \union {[key |-> "pro", isDefault |-> FALSE]} OBVIOUS
  <2>1. [key |-> "pro", isDefault |-> FALSE] \in PlanRow BY DEF PlanRow, Words
  <2>2. plans \in SUBSET PlanRow BY <2>1, RegistryHas
  <2>3. CASE y = [reg EXCEPT !.plans = plans]
    <3>1. /\ y \in RegistryRow /\ y.profiles = reg.profiles /\ y.terms = reg.terms
          /\ y.setting = reg.setting
      BY <2>2, <2>3, RegistryHas DEF RegistryRow
    <3> QED BY <3>1, RegistryHas DEF Registries
  <2>4. y = reg \/ y = [reg EXCEPT !.plans = plans]
    BY <1>1, RegistryHas DEF Seeds!create_plan, RegistryRow
  <2> QED BY <2>3, <2>4
<1>2. CASE y = Seeds!create_model(reg)
  <2> PICK models : models = reg.models \union {"mine"} OBVIOUS
  <2>1. models \in SUBSET Texts BY RegistryHas DEF Words
  <2>2. y = [reg EXCEPT !.models = models] BY <1>2, RegistryHas DEF Seeds!create_model, RegistryRow
  <2>3. /\ y \in RegistryRow /\ y.profiles = reg.profiles /\ y.terms = reg.terms
        /\ y.setting = reg.setting
    BY <2>1, <2>2, RegistryHas DEF RegistryRow
  <2> QED BY <2>3, RegistryHas DEF Registries
<1>3. CASE y = Seeds!set_setting(reg)
  <2> PICK v : v = [reg.setting EXCEPT !.value = "mine", !.by = "admin"] OBVIOUS
  <2>1. v \in SettingRow /\ v.by = "admin" BY RegistryHas DEF SettingRow, Words
  <2>2. y = reg \/ y = [reg EXCEPT !.setting = v]
    BY <1>3, RegistryHas DEF Seeds!set_setting, RegistryRow
  <2> QED BY <2>1, <2>2, SettingChange
<1>4. CASE y = Seeds!reset_setting(reg)
  <2> PICK v : v = [reg.setting EXCEPT !.value = reg.setting.default, !.by = "seed"] OBVIOUS
  <2>1. v \in SettingRow /\ v.value # "mine" BY RegistryHas DEF SettingRow
  <2>2. y = reg \/ y = [reg EXCEPT !.setting = v]
    BY <1>4, RegistryHas DEF Seeds!reset_setting, RegistryRow
  <2> QED BY <2>1, <2>2, SettingChange
<1>5. ASSUME NEW m \in reg.models, y = Seeds!bind_role(reg, m)
      PROVE  y \in Registries
  <2>1. y = [reg EXCEPT !.role = m] /\ m \in Texts BY <1>5, RegistryHas DEF Seeds!bind_role
  <2>2. /\ y \in RegistryRow /\ y.profiles = reg.profiles /\ y.terms = reg.terms
        /\ y.setting = reg.setting
    BY <2>1, RegistryHas DEF RegistryRow
  <2> QED BY <2>2, RegistryHas DEF Registries
<1>6. ASSUME NEW t \in reg.terms,
             y = Seeds!patch_term(reg, t) \/ y = Seeds!delete_term(reg, t)
      PROVE  y \in Registries
  <2> PICK patched : patched = (reg.terms \ {t}) \union {[t EXCEPT !.weight = "mine"]} OBVIOUS
  <2> PICK fewer : fewer = reg.terms \ {t} OBVIOUS
  <2>1. [t EXCEPT !.weight = "mine"] \in TermRow BY RegistryHas DEF TermRow, Words
  <2>2. patched \in SUBSET TermRow /\ fewer \in SUBSET TermRow BY <2>1, RegistryHas
  <2>3. y = [reg EXCEPT !.terms = patched] \/ y = [reg EXCEPT !.terms = fewer]
    BY <1>6, RegistryHas DEF Seeds!patch_term, Seeds!delete_term, RegistryRow
  <2>4. reg.profiles # {} BY RegistryHas
  <2> QED BY <2>2, <2>3, <2>4, TermsChange
<1> QED BY <1>1, <1>2, <1>3, <1>4, <1>5, <1>6, EditScheduleStays DEF Seeds!Edited

LEMMA SyncStays ==
  ASSUME Words \subseteq Texts, NEW reg \in Registries, NEW env \in Environments
  PROVE  Seeds!sync_harvest_profile(reg, env) \in Registries
<1> PICK p : p = [key |-> env.fileKey, isActive |-> TRUE] OBVIOUS
<1> PICK profiles : profiles = IF \E q \in reg.profiles : q.key = env.fileKey THEN reg.profiles
                               ELSE reg.profiles \union {p}
  OBVIOUS
<1> PICK upserted : upserted = {[text |-> t.text, match |-> t.match, weight |-> "file"] :
                                  t \in env.terms}
  OBVIOUS
<1> PICK kept : kept = {t \in reg.terms :
                          /\ \E u \in env.terms : u.text = t.text
                          /\ ~\E u \in env.terms : u.text = t.text /\ u.match = t.match}
  OBVIOUS
<1>1. ASSUME NEW t \in env.terms
      PROVE  [text |-> t.text, match |-> t.match, weight |-> "file"] \in TermRow
  BY DEF Environments, TermRow, Words
<1> PICK terms : terms = upserted \union kept OBVIOUS
<1>2. terms \in SUBSET TermRow BY <1>1, RegistryHas
<1>3. p \in ProfileRow BY DEF ProfileRow, Environments
<1>4. profiles \in SUBSET ProfileRow /\ profiles # {} BY <1>3, RegistryHas
<1> PICK y : y = Seeds!sync_harvest_profile(reg, env) OBVIOUS
<1>5. CASE y = Seeds!Refuse(reg) BY <1>5, RefuseStays
<1>6. CASE y = [reg EXCEPT !.terms = terms, !.profiles = profiles]
  <2>1. y.profiles = profiles /\ y.terms = terms /\ y.setting = reg.setting
    BY <1>6, RegistryHas DEF RegistryRow
  <2>2. y \in RegistryRow
    <3>1. reg \in RegistryRow BY RegistryHas
    <3> QED BY <1>2, <1>4, <1>6, <3>1 DEF RegistryRow
  <2> QED BY <1>4, <2>1, <2>2, RegistryHas DEF Registries
<1>7. y = Seeds!Refuse(reg) \/ y = [reg EXCEPT !.terms = terms, !.profiles = profiles]
  BY RegistryHas DEF Seeds!sync_harvest_profile, RegistryRow
<1> QED BY <1>5, <1>6, <1>7

\* The registries the two theorems speak of are all there are: none is left by a start, by
\* a resync of the file, by a request of an administrator or by a revision up or down
\* (bootstrap/seed.py, the admin routers, alembic revisions 0003 and 0008).
THEOREM RegistriesAreClosed ==
  ASSUME Words \subseteq Texts
  PROVE  /\ Seeds!NoRows \in Registries
         /\ \A reg \in Registries :
              /\ Seeds!Reschedule(reg) \in Registries
              /\ Seeds!Unschedule(reg) \in Registries
              /\ Seeds!Edited(reg) \subseteq Registries
              /\ \A env \in Environments :
                   /\ Seeds!seed_all(reg, env) \in Registries
                   /\ Seeds!sync_harvest_profile(reg, env) \in Registries
<1>1. ASSUME NEW reg \in Registries
      PROVE  /\ Seeds!Reschedule(reg) \in Registries
             /\ Seeds!Unschedule(reg) \in Registries
             /\ Seeds!Edited(reg) \subseteq Registries
  BY RescheduleKeepsAdminsWork, UnscheduleStays, EditsStay
<1>2. ASSUME NEW reg \in Registries, NEW env \in Environments
      PROVE  /\ Seeds!seed_all(reg, env) \in Registries
             /\ Seeds!sync_harvest_profile(reg, env) \in Registries
  BY SeedingKeepsAdminsWork, SyncStays
<1> QED BY <1>1, <1>2, NoRowsAre

\* What each part of a start finds done already.
Seeded(reg, env) ==
  /\ \E p \in reg.plans : p.key = env.plan
  /\ \E p \in reg.profiles : p.key = env.profile
  /\ env.model \in reg.models
  /\ reg.role = Seeds!None => env.model = Seeds!None
  /\ \A k \in {Seeds!Chats, Seeds!Personal} : \E s \in reg.schedules : s.key = k
  /\ reg.setting.by # Seeds!None
  /\ reg.setting.by = "seed" => reg.setting.default = env.value

\* A start over rows that are all there leaves them alone.
LEMMA SeededStays ==
  ASSUME Words \subseteq Texts, NEW reg \in Registries, NEW env \in Environments,
         Seeded(reg, env)
  PROVE  Seeds!seed_all(reg, env) = reg
<1>1. Seeds!_seed_plans(reg, env) = reg BY DEF Seeds!_seed_plans, Seeded
<1>2. Seeds!_seed_harvest_profile(reg, env) = reg BY DEF Seeds!_seed_harvest_profile, Seeded
<1>3. Seeds!_seed_llm_registry(reg, env) = reg
  <2>1. reg.models \union {env.model} = reg.models BY DEF Seeded
  <2>2. (IF reg.role = Seeds!None THEN env.model ELSE reg.role) = reg.role BY DEF Seeded
  <2>3. Seeds!_seed_llm_registry(reg, env) = [reg EXCEPT !.models = reg.models, !.role = reg.role]
    BY <2>1, <2>2, RegistryHas DEF Seeds!_seed_llm_registry, RegistryRow
  <2> QED BY <2>3, RegistryHas DEF RegistryRow
<1>4. Seeds!_seed_schedules(reg, env) = reg
  <2>1. {Seeds!Chats, Seeds!Personal} \ {s.key : s \in reg.schedules} = {} BY DEF Seeded
  <2>2. Seeds!_seed_schedules(reg, env) = [reg EXCEPT !.schedules = reg.schedules]
    BY <2>1, RegistryHas DEF Seeds!_seed_schedules, RegistryRow
  <2> QED BY <2>2, RegistryHas DEF RegistryRow
<1>5. Seeds!_seed_settings(reg, env) = reg
  <2>1. reg.setting \in SettingRow BY RegistryHas
  <2>2. CASE reg.setting.by = "seed"
    <3> PICK v : v = [reg.setting EXCEPT !.default = env.value] OBVIOUS
    <3>1. v = reg.setting BY <2>1, <2>2 DEF Seeded, SettingRow
    <3>2. Seeds!_seed_settings(reg, env) = [reg EXCEPT !.setting = v]
      BY <2>2, RegistryHas DEF Seeds!_seed_settings, Seeded, RegistryRow
    <3> QED BY <3>1, <3>2, RegistryHas DEF RegistryRow
  <2>3. CASE reg.setting.by # "seed" BY <2>3 DEF Seeds!_seed_settings, Seeded
  <2> QED BY <2>2, <2>3
<1> QED BY <1>1, <1>2, <1>3, <1>4, <1>5 DEF Seeds!seed_all

\* What a registry that was not refused has after each part of a start, and what the
\* part does not touch.
LEMMA PlansSeeded ==
  ASSUME Words \subseteq Texts, NEW reg \in Registries, NEW env \in Environments,
         NEW y, y = Seeds!_seed_plans(reg, env), ~y.refused
  PROVE  \E p \in y.plans : p.key = env.plan
<1> PICK q : q = [key |-> env.plan, isDefault |-> TRUE] OBVIOUS
<1> PICK plans : plans = reg.plans \union {q} OBVIOUS
<1>1. q \in plans /\ q.key = env.plan OBVIOUS
<1>2. CASE y = reg /\ \E p \in reg.plans : p.key = env.plan BY <1>2
<1>3. CASE y = Seeds!Refuse(reg) BY <1>3, RefuseStays
<1>4. CASE y = [reg EXCEPT !.plans = plans]
  <2>1. y.plans = plans BY <1>4, RegistryHas DEF RegistryRow
  <2> QED BY <1>1, <2>1
<1> QED BY <1>2, <1>3, <1>4, RegistryHas DEF Seeds!_seed_plans, RegistryRow

LEMMA ProfileSeeded ==
  ASSUME Words \subseteq Texts, NEW reg \in Registries, NEW env \in Environments,
         env.fileKey = env.profile,
         NEW y, y = Seeds!_seed_harvest_profile(reg, env), ~y.refused
  PROVE  /\ \E p \in y.profiles : p.key = env.profile
         /\ y.plans = reg.plans /\ ~reg.refused
<1> PICK q : q = [key |-> env.fileKey, isActive |-> TRUE] OBVIOUS
<1> PICK profiles : profiles = reg.profiles \union {q} OBVIOUS
<1> PICK terms : terms = {[text |-> t.text, match |-> t.match, weight |-> "file"] :
                             t \in env.terms}
  OBVIOUS
<1>1. q \in profiles /\ q.key = env.profile OBVIOUS
<1>2. CASE y = reg /\ \E p \in reg.profiles : p.key = env.profile BY <1>2
<1>3. CASE y = Seeds!Refuse(reg) BY <1>3, RefuseStays
<1>4. CASE y = [reg EXCEPT !.profiles = profiles, !.terms = terms]
  <2>1. y.profiles = profiles /\ y.plans = reg.plans /\ y.refused = reg.refused
    BY <1>4, RegistryHas DEF RegistryRow
  <2> QED BY <1>1, <2>1
<1> QED BY <1>2, <1>3, <1>4, RegistryHas DEF Seeds!_seed_harvest_profile, RegistryRow

LEMMA ModelsSeeded ==
  ASSUME Words \subseteq Texts, NEW reg \in Registries, NEW env \in Environments,
         NEW y, y = Seeds!_seed_llm_registry(reg, env)
  PROVE  /\ env.model \in y.models
         /\ y.role = Seeds!None => env.model = Seeds!None
         /\ y.plans = reg.plans /\ y.profiles = reg.profiles /\ y.refused = reg.refused
<1> PICK models : models = reg.models \union {env.model} OBVIOUS
<1> PICK bound : bound = IF reg.role = Seeds!None THEN env.model ELSE reg.role OBVIOUS
<1>1. y = [reg EXCEPT !.models = models, !.role = bound]
  BY RegistryHas DEF Seeds!_seed_llm_registry, RegistryRow
<1>2. /\ y.models = models /\ y.role = bound /\ y.plans = reg.plans
      /\ y.profiles = reg.profiles /\ y.refused = reg.refused
  BY <1>1, RegistryHas DEF RegistryRow
<1> QED BY <1>2

LEMMA SchedulesSeeded ==
  ASSUME Words \subseteq Texts, NEW reg \in Registries, NEW env \in Environments,
         NEW y, y = Seeds!_seed_schedules(reg, env)
  PROVE  /\ \A k \in {Seeds!Chats, Seeds!Personal} : \E s \in y.schedules : s.key = k
         /\ y.plans = reg.plans /\ y.profiles = reg.profiles /\ y.models = reg.models
         /\ y.role = reg.role /\ y.refused = reg.refused
<1> DEFINE New(k) == [key     |-> k,
                      cron    |-> IF k = Seeds!Personal THEN "same" ELSE env.cron,
                      enabled |-> k # Seeds!Personal,
                      hour    |-> IF k = Seeds!Personal THEN Seeds!None ELSE env.hour,
                      byHand  |-> FALSE]
<1> DEFINE Missing == {Seeds!Chats, Seeds!Personal} \ {s.key : s \in reg.schedules}
<1> PICK schedules : schedules = reg.schedules \union {New(k) : k \in Missing} OBVIOUS
<1>1. y = [reg EXCEPT !.schedules = schedules]
  BY RegistryHas DEF Seeds!_seed_schedules, RegistryRow
<1>2. /\ y.schedules = schedules /\ y.plans = reg.plans /\ y.profiles = reg.profiles
      /\ y.models = reg.models /\ y.role = reg.role /\ y.refused = reg.refused
  BY <1>1, RegistryHas DEF RegistryRow
<1>3. ASSUME NEW k \in {Seeds!Chats, Seeds!Personal} PROVE \E s \in schedules : s.key = k
  <2>1. CASE k \in Missing
    <3>1. New(k) \in schedules BY <2>1
    <3>2. New(k).key = k OBVIOUS
    <3> QED BY <3>1, <3>2
  <2>2. CASE k \notin Missing BY <2>2
  <2> QED BY <2>1, <2>2
<1> HIDE DEF New, Missing
<1> QED BY <1>2, <1>3

LEMMA SettingsSeeded ==
  ASSUME Words \subseteq Texts, NEW reg \in Registries, NEW env \in Environments,
         NEW y, y = Seeds!_seed_settings(reg, env)
  PROVE  /\ y.setting.by # Seeds!None
         /\ y.setting.by = "seed" => y.setting.default = env.value
         /\ y.plans = reg.plans /\ y.profiles = reg.profiles /\ y.models = reg.models
         /\ y.role = reg.role /\ y.schedules = reg.schedules /\ y.refused = reg.refused
<1>1. reg.setting \in SettingRow BY RegistryHas
<1> PICK v : v = IF reg.setting.by = Seeds!None
                 THEN [value |-> env.value, default |-> env.value, by |-> "seed"]
                 ELSE IF reg.setting.by = "seed" THEN [reg.setting EXCEPT !.default = env.value]
                 ELSE reg.setting
  OBVIOUS
<1>2. v.by # Seeds!None /\ (v.by = "seed" => v.default = env.value)
  BY <1>1 DEF SettingRow, Seeds!None
<1>3. y = [reg EXCEPT !.setting = v]
  BY RegistryHas DEF Seeds!_seed_settings, RegistryRow
<1>4. /\ y.setting = v /\ y.plans = reg.plans /\ y.profiles = reg.profiles
      /\ y.models = reg.models /\ y.role = reg.role /\ y.schedules = reg.schedules
      /\ y.refused = reg.refused
  BY <1>3, RegistryHas DEF RegistryRow
<1> QED BY <1>2, <1>4

\* A restart is not an update: what the same image, .env and file put in a second time is
\* nothing, as long as the file has the key it is looked up by.  With another key the
\* second start finds no profile of the name and an active one it did not expect
\* (bootstrap/seed.py seed_all, _seed_harvest_profile).
THEOREM RestartSeedsNothing ==
  ASSUME Words \subseteq Texts, NEW reg \in Registries, NEW env \in Environments,
         env.fileKey = env.profile, ~Seeds!seed_all(reg, env).refused
  PROVE  Seeds!seed_all(Seeds!seed_all(reg, env), env) = Seeds!seed_all(reg, env)
<1> PICK r1 : r1 = Seeds!_seed_plans(reg, env) OBVIOUS
<1> PICK r2 : r2 = Seeds!_seed_harvest_profile(r1, env) OBVIOUS
<1> PICK r3 : r3 = Seeds!_seed_llm_registry(r2, env) OBVIOUS
<1> PICK r4 : r4 = Seeds!_seed_schedules(r3, env) OBVIOUS
<1> PICK r5 : r5 = Seeds!_seed_settings(r4, env) OBVIOUS
<1>1. r5 = Seeds!seed_all(reg, env) BY DEF Seeds!seed_all
<1>2. r1 \in Registries BY PlansStay
<1>3. r2 \in Registries BY <1>2, HarvestProfileStays
<1>4. r3 \in Registries BY <1>3, ModelsStay
<1>5. r4 \in Registries BY <1>4, CronsStay
<1>6. r5 \in Registries BY <1>5, SettingsStay
<1>7. /\ r5.setting.by # Seeds!None
      /\ r5.setting.by = "seed" => r5.setting.default = env.value
      /\ r5.plans = r4.plans /\ r5.profiles = r4.profiles /\ r5.models = r4.models
      /\ r5.role = r4.role /\ r5.schedules = r4.schedules /\ r5.refused = r4.refused
  BY <1>5, SettingsSeeded
<1>8. /\ \A k \in {Seeds!Chats, Seeds!Personal} : \E s \in r4.schedules : s.key = k
      /\ r4.plans = r3.plans /\ r4.profiles = r3.profiles /\ r4.models = r3.models
      /\ r4.role = r3.role /\ r4.refused = r3.refused
  BY <1>4, SchedulesSeeded
<1>9. /\ env.model \in r3.models
      /\ r3.role = Seeds!None => env.model = Seeds!None
      /\ r3.plans = r2.plans /\ r3.profiles = r2.profiles /\ r3.refused = r2.refused
  BY <1>3, ModelsSeeded
<1>10. ~r2.refused BY <1>1, <1>7, <1>8, <1>9
<1>11. /\ \E p \in r2.profiles : p.key = env.profile
       /\ r2.plans = r1.plans /\ ~r1.refused
  BY <1>2, <1>10, ProfileSeeded
<1>12. \E p \in r1.plans : p.key = env.plan BY <1>11, PlansSeeded
<1>13. Seeded(r5, env) BY <1>7, <1>8, <1>9, <1>11, <1>12 DEF Seeded
<1> QED BY <1>1, <1>6, <1>13, SeededStays

=============================================================================
