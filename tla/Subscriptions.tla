--------------------------- MODULE Subscriptions ----------------------------
(***************************************************************************)
(* Subscriptions: the paid and the trial periods of one subscriber         *)
(* (db/subscriber_repository.py, api/admin/routers/subscriptions.py).  A   *)
(* grant locks the subscriber, the other operations one row each, so the   *)
(* rows of different subscribers never meet.  A digest goes out only while *)
(* some row is current (services/dispatch_queries.py).                     *)
(*                                                                         *)
(* Time is counted in days.  Never (-1) is an absent time: no end, or no   *)
(* grace.                                                                  *)
(***************************************************************************)
EXTENDS Integers, FiniteSets

CONSTANTS
  Admins,     \* requests that may approve the subscriber at the same time
  MaxRows,    \* bound on rows
  TrialDays,  \* DEFAULT_TRIAL_DAYS; 0: there are no trials
  GraceDays,  \* SUBSCRIPTION_GRACE_DAYS
  Lengths,    \* days an administrator may grant or add
  MaxTime,    \* bound on the clock
  MaxChanges  \* bound on extensions and cancellations

Never == -1

ASSUME SubscriptionsAssumption ==
  /\ TrialDays \in Nat /\ GraceDays \in Nat /\ MaxTime \in Nat
  /\ MaxRows \in Nat /\ MaxChanges \in Nat
  /\ Lengths \subseteq Nat \ {0}

VARIABLES
  now,    \* the clock
  period, \* subscriptions: id -> row
  trial,  \* start_trial in each request: how far it has looked
  changes, \* what is left of the bound
  \* history
  raced   \* two requests have looked for a trial at the same time

periodVars == <<now, period, trial, changes, raced>>

Ids == 1..MaxRows

Active == {"active", "trial"}
PeriodStatuses == Active \cup {"pending", "expired", "cancelled"}

NoPeriod == [status |-> "none", starts |-> 0, ends |-> Never, grace |-> Never, source |-> "admin"]
Rows == {i \in Ids : period[i].status # "none"}

\* The first moment after the period, and the last moment of the service.
Finite(t) == t # Never
Deadline(r) == IF Finite(r.grace) THEN r.grace ELSE r.ends
InPeriod(r, t) == r.starts <= t /\ (Finite(r.ends) => t < r.ends)

-----------------------------------------------------------------------------
(* Slips: plausible mistakes, to see that the properties notice.           *)

SlipRemind(r) == r.status \in Active /\ Finite(r.ends) /\ r.ends <= now + 1
SlipGraceOnly(r) == r.status \in Active /\ Finite(r.grace) /\ r.grace < now
SlipOnTrial == \E i \in Ids : period[i].status = "trial"

-----------------------------------------------------------------------------
(* What the queries say.                                                   *)

\* current_subscription, is_running and the dispatcher agree.
Current(r) ==
  /\ r.status \in Active /\ r.starts <= now
  /\ Finite(r.ends) => Deadline(r) >= now

\* _had_trial: by the source of the row, whatever has become of it.
HadTrial == \E i \in Rows : period[i].source = "trial"

\* expire_due: over, and over its grace.
Due(r) == r.status \in Active /\ Finite(r.ends) /\ Deadline(r) < now

\* The exclusion constraint: active periods of a subscriber do not overlap.
Overlap(r, q) ==
  /\ Finite(q.ends) => r.starts < q.ends
  /\ Finite(r.ends) => q.starts < r.ends

Fits(i, r) ==
  r.status \in Active =>
    \A j \in Rows \ {i} : period[j].status \in Active => ~Overlap(r, period[j])

\* The check constraint on a row.
Sound(r) == Finite(r.ends) => r.ends > r.starts

-----------------------------------------------------------------------------
PeriodsInit ==
  /\ now = 0 /\ raced = FALSE /\ changes = MaxChanges
  /\ period = [i \in Ids |-> NoPeriod]
  /\ trial = [a \in Admins |-> "idle"]

Tick == now < MaxTime /\ now' = now + 1 /\ UNCHANGED <<period, trial, changes, raced>>

\* The rows a new period would run into.
Overlapping(begin) ==
  {i \in Rows : period[i].status \in Active /\ (Finite(period[i].ends) => period[i].ends > begin)}

\* A row replaced is cancelled at once, and ends where the new one begins.
Replaced(r, begin) ==
  [r EXCEPT !.status = "cancelled",
            !.ends = IF Finite(@) /\ @ <= begin THEN @ ELSE begin]

\* grant_subscription, one transaction: what it runs into is replaced, or the
\* call fails; a constraint undoes it all.
GrantSubscription(new, replace) ==
  \E i \in Ids \ Rows :
    LET hit == Overlapping(new.starts) IN
    /\ \A j \in Ids \ Rows : i <= j
    /\ Sound(new) /\ (hit # {} => replace)
    /\ \A j \in hit : Sound(Replaced(period[j], new.starts))
    /\ period' = [j \in Ids |-> IF j = i THEN new
                             ELSE IF j \in hit THEN Replaced(period[j], new.starts) ELSE period[j]]

\* The administrator grants a period, from now or from another day, for so many
\* days or for ever, with or without a grace.
Grant ==
  /\ \E begin \in {now, now + 1}, days \in Lengths \cup {0}, grace \in {0, GraceDays},
        status \in {"active", "pending"}, replace \in BOOLEAN :
       LET finish == IF days = 0 THEN Never ELSE begin + days IN
       GrantSubscription([status |-> status, starts |-> begin, ends |-> finish,
                          grace |-> IF Finite(finish) /\ grace > 0 THEN finish + grace ELSE Never,
                          source |-> "admin"], replace)
  /\ UNCHANGED <<now, trial, changes, raced>>

\* start_trial, from the approval of the subscriber: three transactions.
LookForCurrent(a) ==
  /\ trial[a] = "idle" /\ TrialDays > 0
  /\ ~ \E i \in Rows : Current(period[i])
  /\ trial' = [trial EXCEPT ![a] = "looked"]
  /\ raced' = (raced \/ \E b \in Admins : trial[b] # "idle")
  /\ UNCHANGED <<now, period, changes>>

LookForTrial(a) ==
  /\ trial[a] = "looked"
  /\ trial' = [trial EXCEPT ![a] = IF HadTrial THEN "idle" ELSE "free"]
  /\ UNCHANGED <<now, period, changes, raced>>

StartTrial(a) ==
  /\ trial[a] = "free" /\ trial' = [trial EXCEPT ![a] = "idle"]
  /\ GrantSubscription([status |-> "trial", starts |-> now, ends |-> now + TrialDays,
                        grace |-> IF GraceDays > 0 THEN now + TrialDays + GraceDays ELSE Never,
                        source |-> "trial"], TRUE)
  /\ UNCHANGED <<now, changes, raced>>

\* The request fails between its transactions; the approval only reports it.
GiveUp(a) ==
  /\ trial[a] # "idle" /\ trial' = [trial EXCEPT ![a] = "idle"]
  /\ UNCHANGED <<now, period, changes, raced>>

\* extend_subscription: to a day, or by so many days from the end, or from now
\* when there is none.  What had expired is active again; the grace stays.
Extended(r, end) ==
  [r EXCEPT !.ends = end, !.status = IF @ = "expired" THEN "active" ELSE @]

Extend(i) ==
  /\ i \in Rows /\ changes > 0 /\ changes' = changes - 1
  /\ \E days \in Lengths, end \in {now + 1, now + 2} :
       \/ period' = [period EXCEPT ![i] = Extended(@, end)]
       \/ period' = [period EXCEPT ![i] = Extended(@, (IF Finite(@.ends) THEN @.ends ELSE now) + days)]
  /\ Sound(period'[i]) /\ Fits(i, period'[i])
  /\ UNCHANGED <<now, trial, raced>>

\* cancel_subscription: ends now, unless it has ended; a period that has not
\* begun would end where it begins, which the check refuses.
Cancelled(r) ==
  [r EXCEPT !.status = "cancelled",
            !.ends = IF Finite(@) /\ @ <= now THEN @ ELSE IF now > r.starts THEN now ELSE r.starts]

Cancel(i) ==
  /\ i \in Rows /\ changes > 0 /\ changes' = changes - 1
  /\ Sound(Cancelled(period[i]))
  /\ period' = [period EXCEPT ![i] = Cancelled(@)]
  /\ UNCHANGED <<now, trial, raced>>

\* expire_due: every row that is due, but for rows another transaction holds.
ExpireDue ==
  /\ \E i \in Rows : Due(period[i])
  /\ period' = [i \in Ids |-> IF i \in Rows /\ Due(period[i])
                           THEN [period[i] EXCEPT !.status = "expired"] ELSE period[i]]
  /\ UNCHANGED <<now, trial, changes, raced>>

-----------------------------------------------------------------------------
Approval(a) == LookForCurrent(a) \/ LookForTrial(a) \/ StartTrial(a) \/ GiveUp(a)

PeriodsNext ==
  \/ Tick \/ Grant \/ ExpireDue
  \/ \E a \in Admins : Approval(a)
  \/ \E i \in Ids : Extend(i) \/ Cancel(i)

\* The maintenance flow comes round by its schedule.
PeriodsSpec == PeriodsInit /\ [][PeriodsNext]_periodVars /\ WF_periodVars(ExpireDue)

-----------------------------------------------------------------------------
PeriodsTypeOK ==
  /\ now \in 0..MaxTime /\ raced \in BOOLEAN /\ changes \in 0..MaxChanges
  /\ trial \in [Admins -> {"idle", "looked", "free"}]
  /\ period \in [Ids -> [status : PeriodStatuses \cup {"none"}, starts : Nat, ends : Nat \cup {Never},
                      grace : Nat \cup {Never}, source : {"admin", "trial"}]]

\* Time that was granted is served: while the period of a row lasts, and to the
\* end of its grace, the row is current.  Four things take it away: the row is
\* cancelled (by hand, or by a later grant, even one that only begins later),
\* it was granted as pending, which nothing turns into active, or it was
\* extended past a grace that does not move with the end.
GrantedTimeIsServed ==
  \A i \in Rows :
    LET r == period[i] IN
    /\ InPeriod(r, now) \/ (r.starts <= now /\ Finite(r.grace) /\ now <= r.grace)
    /\ r.status \notin {"cancelled", "pending"}
    /\ Finite(r.grace) => r.ends <= r.grace
    => Current(r)

\* A subscriber gets one trial, whatever becomes of it, unless two approvals
\* looked for it at the same time.
OneTrial == raced \/ Cardinality({i \in Rows : period[i].source = "trial"}) <= 1

\* What is over, grace and all, does not stay active for ever: it expires, or is
\* cancelled or extended.
Over(r) == Finite(r.ends) /\ Deadline(r) < now
EndedSettles ==
  \A i \in Ids : period[i].status \in Active /\ Over(period[i])
                ~> ~(period[i].status \in Active /\ Over(period[i]))

=============================================================================
