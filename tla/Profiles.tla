------------------------------ MODULE Profiles ------------------------------
(***************************************************************************)
(* Profiles: what a subscriber wants to read (services/profiles.py,        *)
(* services/feedback.py, db/user_repository.py).  A subscriber has named   *)
(* profiles, one of them active.  A profile is a description with its      *)
(* English side, explicit interests and signals learned from reactions;    *)
(* all are compiled into the text that digests are ranked by, and the text *)
(* has a version.  Everybody edits: the person in the bot (telegram/       *)
(* bot.py), administrators (api/admin/routers/subscribers.py) and, by      *)
(* their reactions, all members of a chat.  A change and the recompilation *)
(* it calls for are transactions of their own, with reads in between.      *)
(***************************************************************************)
EXTENDS Integers, FiniteSets

CONSTANTS
  Names,      \* of profiles; Default is the one made without being asked for
  Default,
  Editors,    \* requests and updates handled at the same time
  Texts,      \* descriptions
  Topics,     \* of explicit interests
  Categories, \* of the material reacted to
  MaxWeight,  \* the weight of a signal is cut off here (10)
  MaxEdits, MaxLife, MaxMishaps  \* bounds

ASSUME ProfilesAssumption ==
  /\ Default \in Names /\ "none" \notin Texts
  /\ MaxWeight \in Nat \ {0} /\ MaxEdits \in Nat /\ MaxLife \in Nat /\ MaxMishaps \in Nat

VARIABLES
  profile,    \* subscriber_profiles, with interests and signals
  scores,     \* profile_item_scores, with the text they were computed from
  ed,         \* what each editor is at
  budget,     \* what is left of the bounds
  \* history
  disturbed,  \* profiles whose text was written while others were at work on
              \* them, or whose editor died
  told        \* reactions written to a signal: all, and those that saw stale signals

vars == <<profile, scores, ed, budget, disturbed, told>>
history == <<disturbed, told>>

NoSignal == [weight |-> 0, polarity |-> "positive", evidence |-> 0]

\* What the text is made of: the sections of the compiled profile.
Text(desc, en, ints, sigs) == [desc |-> desc, en |-> en, ints |-> ints, sigs |-> sigs]
NoSignals == [c \in Categories |-> NoSignal]

Absent == [is |-> FALSE, active |-> FALSE, desc |-> "none", en |-> "none", hash |-> "none",
           ints |-> {}, sigs |-> NoSignals, text |-> Text("none", "none", {}, NoSignals),
           version |-> 0]
Exists(p) == profile[p].is
Existing == {p \in Names : Exists(p)}

Idle == [at |-> "idle", of |-> Default, desc |-> "keep", seen |-> [desc |-> "none", en |-> "none"],
         ints |-> {}, sigs |-> NoSignals, todo |-> {}, effect |-> [polarity |-> "positive", by |-> 0],
         version |-> 0, alone |-> TRUE]

-----------------------------------------------------------------------------
(* Editors.                                                                *)

Spend(what) == /\ budget[what] > 0
               /\ budget' = [budget EXCEPT ![what] = @ - 1]

\* Others at work on the profile.
Others(e, p) == {f \in Editors \ {e} : ed[f].at \notin {"idle", "ensure", "score"} /\ ed[f].of = p}

\* Editor e sets to work on p, and is alone or spoils it for the others.
Begin(e, p, job) ==
  ed' = [f \in Editors |->
           IF f = e THEN [job EXCEPT !.of = p, !.alone = Others(e, p) = {}]
           ELSE IF f \in Others(e, p) THEN [ed[f] EXCEPT !.alone = FALSE] ELSE ed[f]]

Go(e, job) == ed' = [ed EXCEPT ![e] = job]

\* compile_profile is next, with what the transaction before it has written.
Recompile == [Idle EXCEPT !.at = "load"]

-----------------------------------------------------------------------------
(* Slips: plausible mistakes, to see that the properties notice.           *)

SlipSameVersion(row, new) == row.version
SlipNoHeir(p, heir) == [profile EXCEPT ![p] = Absent]
SlipRemoveOnly(e, p) ==
  /\ ed[e].at = "idle" /\ Spend("edits") /\ Exists(p)
  /\ \E t \in profile[p].ints : profile' = [profile EXCEPT ![p].ints = @ \ {t}]
  /\ UNCHANGED <<scores, ed, history>>
SlipForgetful(sig, effect) ==
  [weight |-> effect.by, polarity |-> effect.polarity,
   evidence |-> IF sig.polarity = effect.polarity THEN sig.evidence + 1 ELSE 1]

-----------------------------------------------------------------------------
Init ==
  /\ profile = [p \in Names |-> Absent]
  /\ scores = {}
  /\ ed = [e \in Editors |-> Idle]
  /\ budget = [edits |-> MaxEdits, life |-> MaxLife, mishaps |-> MaxMishaps]
  /\ disturbed = {}
  /\ told = [p \in Names |-> [c \in Categories |-> [all |-> 0, stale |-> 0]]]

-----------------------------------------------------------------------------
(* The life of a profile.  These transactions lock the subscriber.         *)

\* _translate: the English side is kept while the description it was made from
\* is the same; an English description is its own; a translator may fail.
English(row, desc) ==
  IF desc = "none" THEN {<<"none", "none">>}
  ELSE IF row.hash = desc /\ row.en # "none" THEN {<<row.en, desc>>}
  ELSE {<<desc, desc>>, <<"none", "none">>}

\* _deactivate_profiles
Deactivated == [p \in Names |-> [profile[p] EXCEPT !.active = FALSE]]

\* create_profile: the first is active, and any other that is asked to be.
CreateProfile(p, desc, active) ==
  LET activate == active \/ Existing = {} IN
  /\ ~Exists(p)
  /\ \E en \in English(Absent, desc) :
       profile' = [(IF activate THEN Deactivated ELSE profile) EXCEPT
         ![p] = [Absent EXCEPT !.is = TRUE, !.active = activate, !.version = 1,
                 !.desc = desc, !.en = en[1], !.hash = en[2],
                 !.text = Text(desc, en[1], {}, NoSignals)]]

Create(p) ==
  /\ Spend("life")
  /\ \E desc \in Texts \cup {"none"}, active \in BOOLEAN : CreateProfile(p, desc, active)
  /\ UNCHANGED <<scores, ed, history>>

\* ensure_profile: whoever finds no active profile makes one; the name is
\* unique, so a second one fails.
LookForActive(e) ==
  /\ ed[e].at = "idle" /\ Spend("life")
  /\ \A p \in Existing : ~profile[p].active
  /\ Go(e, [Idle EXCEPT !.at = "ensure"])
  /\ UNCHANGED <<profile, scores, history>>

MakeDefault(e) ==
  /\ ed[e].at = "ensure" /\ Go(e, Idle)
  /\ IF Exists(Default) THEN UNCHANGED profile ELSE CreateProfile(Default, "none", TRUE)
  /\ UNCHANGED <<scores, budget, history>>

Activated(p) == [Deactivated EXCEPT ![p].active = TRUE]

Activate(p) ==
  /\ Spend("life") /\ Exists(p)
  /\ profile' = Activated(p)
  /\ UNCHANGED <<scores, ed, history>>

\* The oldest of the rest takes over; which one that is, the model leaves open.
Succeeded(p, heir) == [profile EXCEPT ![p] = Absent, ![heir].active = TRUE]

\* delete_profile: never the last.  Interests, signals and scores go with it, and
\* whoever is at work on it will not find it: there its work ends.
Delete(p) ==
  /\ Spend("life") /\ Exists(p) /\ Existing # {p}
  /\ IF profile[p].active \/ \A q \in Existing \ {p} : ~profile[q].active
     THEN \E heir \in Existing \ {p} : profile' = Succeeded(p, heir)
     ELSE profile' = [profile EXCEPT ![p] = Absent]
  /\ scores' = {s \in scores : s.of # p}
  /\ disturbed' = disturbed \ {p}
  /\ told' = [told EXCEPT ![p] = [c \in Categories |-> [all |-> 0, stale |-> 0]]]
  /\ ed' = [e \in Editors |-> IF ed[e].at # "ensure" /\ ed[e].of = p THEN Idle ELSE ed[e]]

-----------------------------------------------------------------------------
(* Edits.                                                                  *)

\* update_profile begins by reading.
Describe(e, p) ==
  /\ ed[e].at = "idle" /\ Spend("edits") /\ Exists(p)
  /\ \E desc \in Texts : Begin(e, p, [Idle EXCEPT !.at = "load", !.desc = desc])
  /\ UNCHANGED <<profile, scores, history>>

\* Transactions of the repository, each under a lock of the profile.
Interested(p, t) == [profile EXCEPT ![p].ints = @ \cup {t}]
Uninterested(p, t) == [profile EXCEPT ![p].ints = @ \ {t}]

AddInterest(e, p) ==
  /\ ed[e].at = "idle" /\ Spend("edits") /\ Exists(p)
  /\ \E t \in Topics : profile' = Interested(p, t)
  /\ Begin(e, p, Recompile)
  /\ UNCHANGED <<scores, history>>

RemoveInterest(e, p) ==
  /\ ed[e].at = "idle" /\ Spend("edits") /\ Exists(p)
  /\ \E t \in profile[p].ints : profile' = Uninterested(p, t)
  /\ Begin(e, p, Recompile)
  /\ UNCHANGED <<scores, history>>

\* _FEEDBACK_EFFECTS
Effects == {[polarity |-> "positive", by |-> 2], [polarity |-> "positive", by |-> 1],
            [polarity |-> "negative", by |-> 2]}

\* A reaction is stored, whatever becomes of its effect; SAVE has none.
React(e, p) ==
  /\ ed[e].at = "idle" /\ Spend("edits") /\ Exists(p)
  /\ \E effect \in Effects :
       Begin(e, p, [Idle EXCEPT !.at = "signals", !.todo = Categories, !.effect = effect])
  /\ UNCHANGED <<profile, scores, history>>

ReadSignals(e) ==
  LET p == ed[e].of IN
  /\ ed[e].at = "signals"
  /\ Go(e, [ed[e] EXCEPT !.at = "learn", !.sigs = profile[p].sigs])
  /\ UNCHANGED <<profile, scores, budget, history>>

\* The signal after a reaction, from the signal as it was read: the weight is
\* carried over even when the polarity turns.
Learned(sig, effect) ==
  [weight |-> IF sig.weight + effect.by > MaxWeight THEN MaxWeight ELSE sig.weight + effect.by,
   polarity |-> effect.polarity, evidence |-> sig.evidence + 1]

\* One category of the material at a time, each a transaction.
Learn(e) ==
  LET p == ed[e].of IN
  /\ ed[e].at = "learn"
  /\ \E c \in ed[e].todo :
       /\ profile' = [profile EXCEPT ![p].sigs[c] = Learned(ed[e].sigs[c], ed[e].effect)]
       /\ told' = [told EXCEPT ![p][c] =
                     [all |-> @.all + 1,
                      stale |-> @.stale + IF ed[e].sigs[c] = profile[p].sigs[c] THEN 0 ELSE 1]]
       /\ Go(e, IF ed[e].todo = {c}
                THEN [Recompile EXCEPT !.of = p, !.alone = ed[e].alone]
                ELSE [ed[e] EXCEPT !.todo = @ \ {c}])
  /\ UNCHANGED <<scores, budget, disturbed>>

-----------------------------------------------------------------------------
(* compile_profile and the rest of update_profile: three reads, then the   *)
(* row is locked and written.                                              *)

Load(e) ==
  LET p == ed[e].of IN
  /\ ed[e].at = "load"
  /\ LET desc == IF ed[e].desc = "keep" THEN profile[p].desc ELSE ed[e].desc IN
     \E en \in English(profile[p], desc) :
       Go(e, [ed[e] EXCEPT !.at = "interests", !.seen = [desc |-> desc, en |-> en[1]]])
  /\ UNCHANGED <<profile, scores, budget, history>>

ReadInterests(e) ==
  LET p == ed[e].of IN
  /\ ed[e].at = "interests"
  /\ Go(e, [ed[e] EXCEPT !.at = "learned", !.ints = profile[p].ints])
  /\ UNCHANGED <<profile, scores, budget, history>>

ReadLearned(e) ==
  LET p == ed[e].of IN
  /\ ed[e].at = "learned"
  /\ Go(e, [ed[e] EXCEPT !.at = "write", !.sigs = profile[p].sigs])
  /\ UNCHANGED <<profile, scores, budget, history>>

\* A new text is a new version.
Version(row, new) == IF row.text = new THEN row.version ELSE row.version + 1

\* update_profile of the repository: the description only when it was given, the
\* English side and the text in any case.
Written(row, job) ==
  LET new == Text(job.seen.desc, job.seen.en, job.ints, job.sigs) IN
  [row EXCEPT !.desc = IF job.desc = "keep" THEN @ ELSE job.desc,
              !.en = job.seen.en,
              !.hash = IF job.seen.en = "none" THEN "none" ELSE job.seen.desc,
              !.text = new,
              !.version = Version(row, new)]

Write(e) ==
  LET p == ed[e].of IN
  /\ ed[e].at = "write" /\ Go(e, Idle)
  /\ profile' = [profile EXCEPT ![p] = Written(@, ed[e])]
  /\ disturbed' = IF ed[e].alone THEN disturbed \ {p} ELSE disturbed \cup {p}
  /\ UNCHANGED <<scores, budget, told>>

-----------------------------------------------------------------------------
(* A ranking of material reads the profile once, and long after writes the *)
(* scores under the version it has read.                                   *)

Rank(e, p) ==
  /\ ed[e].at = "idle" /\ Spend("mishaps") /\ Exists(p)
  /\ Go(e, [Idle EXCEPT !.at = "score", !.of = p, !.version = profile[p].version,
                        !.seen = profile[p].text])
  /\ UNCHANGED <<profile, scores, history>>

\* upsert_profile_item_score: the version may not be one still to come.
Score(e) ==
  LET p == ed[e].of IN
  /\ ed[e].at = "score" /\ Go(e, Idle)
  /\ scores' = IF ed[e].version <= profile[p].version
               THEN scores \cup {[of |-> p, version |-> ed[e].version, text |-> ed[e].seen]}
               ELSE scores
  /\ UNCHANGED <<profile, budget, history>>

\* A handler dies or fails between two of its transactions.
Die(e) ==
  /\ ed[e].at # "idle" /\ Spend("mishaps") /\ Go(e, Idle)
  /\ disturbed' = IF ed[e].at \in {"ensure", "score"} THEN disturbed
                  ELSE disturbed \cup {ed[e].of}
  /\ UNCHANGED <<profile, scores, told>>

-----------------------------------------------------------------------------
Next ==
  \/ \E p \in Names : Create(p) \/ Activate(p) \/ Delete(p)
  \/ \E e \in Editors :
       \/ LookForActive(e) \/ MakeDefault(e)
       \/ \E p \in Names : \/ Describe(e, p) \/ AddInterest(e, p) \/ RemoveInterest(e, p)
                           \/ React(e, p) \/ Rank(e, p)
       \/ ReadSignals(e) \/ Learn(e)
       \/ Load(e) \/ ReadInterests(e) \/ ReadLearned(e) \/ Write(e)
       \/ Score(e) \/ Die(e)

Spec == Init /\ [][Next]_vars

-----------------------------------------------------------------------------
\* A subscriber with profiles has exactly one that is active.
OneActive == Existing # {} => \E p \in Existing : {q \in Existing : profile[q].active} = {p}

\* Scores of one version were all computed from one text, and scores of the present
\* version from the present text: the version is all that tells them apart.
VersionNamesText ==
  \A s \in scores :
    /\ \A r \in scores : r.of = s.of /\ r.version = s.version => r.text = s.text
    /\ s.version = profile[s.of].version => s.text = profile[s.of].text

\* When nobody is at work on a profile its text says what its rows say, unless
\* edits overlapped or an editor died since; one edit in peace mends it.
TextIsCurrent ==
  \A p \in Existing :
    /\ \A e \in Editors : ed[e].of = p => ed[e].at \in {"idle", "ensure", "score"}
    /\ p \notin disturbed
    => LET row == profile[p] IN row.text = Text(row.desc, row.en, row.ints, row.sigs)

\* Every reaction is evidence, unless it was written over signals it had not seen.
ReactionsCount ==
  \A p \in Existing, c \in Categories :
    told[p][c].stale = 0 => profile[p].sigs[c].evidence = told[p][c].all

=============================================================================
