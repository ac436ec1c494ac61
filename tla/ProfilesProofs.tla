---------------------------- MODULE ProfilesProofs ----------------------------
(***************************************************************************)
(* That a profile's text, its version, its signals and the flag of the     *)
(* active profile can be trusted, however many editors overlap and die -   *)
(* for any names, editors, texts, topics and categories.                   *)
(***************************************************************************)
EXTENDS Profiles, TLAPS

Stages == {"idle", "ensure", "signals", "learn", "load", "interests", "learned", "write", "score"}
Descriptions == Texts \cup {"none"}
Polarities == {"positive", "negative"}
Signals == [Categories -> [weight : Nat, polarity : Polarities, evidence : Nat]]
Sides == [desc : Descriptions, en : Descriptions]
Compiled == [desc : Descriptions, en : Descriptions, ints : SUBSET Topics, sigs : Signals]
Row == [is : BOOLEAN, active : BOOLEAN, desc : Descriptions, en : Descriptions,
        hash : Descriptions, ints : SUBSET Topics, sigs : Signals, text : Compiled, version : Nat]
Job == [at : Stages, of : Names, desc : Texts \cup {"keep"}, seen : Sides \cup Compiled,
        ints : SUBSET Topics, sigs : Signals, todo : SUBSET Categories,
        effect : [polarity : Polarities, by : Nat], version : Nat, alone : BOOLEAN]
Told == [Categories -> [all : Nat, stale : Nat]]

TypeOK ==
  /\ profile \in [Names -> Row]
  /\ scores \subseteq [of : Names, version : Nat, text : Sides \cup Compiled]
  /\ ed \in [Editors -> Job]
  /\ budget \in [{"edits", "life", "mishaps"} -> Nat]
  /\ disturbed \subseteq Names
  /\ told \in [Names -> Told]

\* Between its first transaction and its last an editor is at work on a profile.
Working(x) == x.at \notin {"idle", "ensure", "score"}

\* Whoever works on a profile, or ranks by it, will find it.
EditorsExist == \A e \in Editors : ed[e].at \notin {"idle", "ensure"} => Exists(ed[e].of)

\* What an editor has read so far is what the row says.
HasSeen(x, row) ==
  /\ x.at \in {"interests", "learned", "write"} =>
       x.seen.desc = IF x.desc = "keep" THEN row.desc ELSE x.desc
  /\ x.at \in {"learned", "write"} => x.ints = row.ints
  /\ x.at = "write" => x.sigs = row.sigs

\* Nobody works on the profile of an editor that is alone, so what it has read
\* stays true.
Peace ==
  \A e \in Editors : Working(ed[e]) /\ ed[e].alone =>
    /\ \A f \in Editors \ {e} : ~(Working(ed[f]) /\ ed[f].of = ed[e].of)
    /\ HasSeen(ed[e], profile[ed[e].of])

\* The scores there are, and those that a ranking is about to write.
Known ==
  scores \cup {[of |-> ed[e].of, version |-> ed[e].version, text |-> ed[e].seen] :
                 e \in {f \in Editors : ed[f].at = "score"}}

\* A version is the name of one text, and of no other as long as there are scores.
VersionsKnown ==
  \A k \in Known :
    /\ Exists(k.of) /\ k.version <= profile[k.of].version
    /\ k.version = profile[k.of].version => k.text = profile[k.of].text
    /\ \A j \in Known : j.of = k.of /\ j.version = k.version => j.text = k.text

\* A profile that is made again starts counting anew.
Counted ==
  \A p \in Names, c \in Categories :
    IF Exists(p) THEN told[p][c].stale = 0 => profile[p].sigs[c].evidence = told[p][c].all
    ELSE told[p][c].all = 0

IInv ==
  /\ TypeOK
  /\ EditorsExist
  /\ OneActive
  /\ Peace
  /\ TextIsCurrent
  /\ VersionsKnown
  /\ Counted

Current(row) == row.text = Text(row.desc, row.en, row.ints, row.sigs)

\* Two rows that differ in the flag at most.
Alike(x, y) ==
  /\ x.is = y.is /\ x.desc = y.desc /\ x.en = y.en /\ x.hash = y.hash /\ x.ints = y.ints
  /\ x.sigs = y.sigs /\ x.text = y.text /\ x.version = y.version

\* Two jobs that differ at most in that one may no longer be alone.
Same(x, y) ==
  /\ x.at = y.at /\ x.of = y.of /\ x.desc = y.desc /\ x.seen = y.seen /\ x.ints = y.ints
  /\ x.sigs = y.sigs /\ x.version = y.version /\ (x.alone => y.alone)

-----------------------------------------------------------------------------
(* An editor takes a step.                                                 *)

\* Editor e works on p, or not; nobody else's profile, row or job is touched.
Turn(e, p) ==
  /\ p \in Names /\ (ed'[e].at \notin {"idle", "ensure"} => ed'[e].of = p /\ Exists(p))
  /\ Working(ed[e]) => ed[e].of = p
  /\ \A f \in Editors \ {e} : Same(ed'[f], ed[f])
  /\ \A q \in Names \ {p} : profile'[q] = profile[q]
  /\ profile'[p].is = profile[p].is /\ profile'[p].active = profile[p].active
  /\ disturbed \subseteq disturbed' \cup {p}

\* Who sets to work on a profile, or writes it, works on it already or is
\* noticed by the others.
Noticed(e, p) ==
  Working(ed'[e]) \/ profile'[p] # profile[p] =>
    \/ Working(ed[e])
    \/ \A f \in Editors \ {e} : Working(ed[f]) /\ ed[f].of = p => ~ed'[f].alone

\* An editor that is alone has seen the row as it is.
Knows(e, p) ==
  Working(ed'[e]) /\ ed'[e].alone =>
    /\ \A f \in Editors \ {e} : ~(Working(ed'[f]) /\ ed'[f].of = p)
    /\ HasSeen(ed'[e], profile'[p])

\* An editor leaves a current text, or its work is known to be disturbed.
Leaves(e, p) ==
  \/ Working(ed'[e]) \/ p \in disturbed' \/ Current(profile'[p])
  \/ ~Working(ed[e]) /\ profile' = profile /\ disturbed' = disturbed

LEMMA TurnKeepsPeace ==
  ASSUME IInv, TypeOK', NEW e \in Editors, NEW p, Turn(e, p), Noticed(e, p), Knows(e, p)
  PROVE  Peace'
<1> SUFFICES ASSUME NEW f \in Editors, Working(ed'[f]), ed'[f].alone
             PROVE  /\ \A g \in Editors \ {f} : ~(Working(ed'[g]) /\ ed'[g].of = ed'[f].of)
                    /\ HasSeen(ed'[f], profile'[ed'[f].of])
  BY DEF Peace, Working, HasSeen
<1>1. CASE f = e
  <2>1. ed'[e].of = p BY <1>1 DEF Turn, Working
  <2> QED BY <1>1, <2>1 DEF Knows
<1>2. CASE f # e
  <2>1. Same(ed'[f], ed[f]) /\ Working(ed[f]) /\ ed[f].alone BY <1>2 DEF Turn, Same, Working
  <2>2. /\ \A g \in Editors \ {f} : ~(Working(ed[g]) /\ ed[g].of = ed[f].of)
        /\ HasSeen(ed[f], profile[ed[f].of])
    BY <2>1 DEF IInv, Peace
  <2>3. ASSUME NEW g \in Editors \ {f}, Working(ed'[g]), ed'[g].of = ed'[f].of PROVE FALSE
    <3>1. CASE g = e
      <4>1. ed[f].of = p BY <2>1, <2>3, <3>1 DEF Turn, Working, Same
      <4>2. Working(ed[e]) BY <1>2, <2>1, <2>3, <3>1, <4>1 DEF Noticed
      <4> QED BY <2>2, <3>1, <4>1, <4>2 DEF Turn
    <3>2. CASE g # e BY <2>1, <2>2, <2>3, <3>2 DEF Turn, Same, Working
    <3> QED BY <3>1, <3>2
  <2>4. profile'[ed[f].of] = profile[ed[f].of]
    <3>1. ed[f].of \in Names BY DEF IInv, TypeOK, Job
    <3>2. CASE ed[f].of = p /\ profile'[p] # profile[p]
      <4>1. Working(ed[e]) BY <1>2, <2>1, <3>2 DEF Noticed
      <4> QED BY <1>2, <2>2, <3>2, <4>1 DEF Turn
    <3> QED BY <3>1, <3>2 DEF Turn
  <2>5. HasSeen(ed'[f], profile'[ed'[f].of]) BY <2>1, <2>2, <2>4 DEF Same, HasSeen
  <2> QED BY <2>3, <2>5
<1> QED BY <1>1, <1>2

LEMMA TurnKeepsText ==
  ASSUME IInv, TypeOK', NEW e \in Editors, NEW p, Turn(e, p), Leaves(e, p)
  PROVE  TextIsCurrent'
<1> SUFFICES ASSUME NEW q \in Names, profile'[q].is, q \notin disturbed',
                    \A f \in Editors : ed'[f].of = q => ~Working(ed'[f])
             PROVE  Current(profile'[q])
  BY DEF TextIsCurrent, Working, Current, Existing, Exists
<1>1. ASSUME profile'[q] = profile[q], q \notin disturbed, Working(ed[e]) => ed[e].of # q
      PROVE  Current(profile'[q])
  <2>1. \A f \in Editors : ed[f].of = q => ~Working(ed[f])
    BY <1>1 DEF Turn, Same, Working
  <2> QED BY <1>1, <2>1 DEF IInv, TextIsCurrent, Working, Current, Existing, Exists
<1>2. CASE q # p BY <1>1, <1>2 DEF Turn
<1>3. CASE q = p
  <2>1. ~Working(ed'[e]) BY <1>3 DEF Turn, Working
  <2> QED BY <1>1, <1>3, <2>1 DEF Leaves
<1> QED BY <1>2, <1>3

LEMMA TurnKeepsLife ==
  ASSUME IInv, NEW e \in Editors, NEW p, Turn(e, p)
  PROVE  EditorsExist' /\ OneActive'
<1>1. \A q \in Names : profile'[q].is = profile[q].is /\ profile'[q].active = profile[q].active
  BY DEF Turn
<1>2. EditorsExist'
  <2> SUFFICES ASSUME NEW f \in Editors, ed'[f].at \notin {"idle", "ensure"} PROVE profile'[ed'[f].of].is
    BY DEF EditorsExist, Exists
  <2>1. CASE f = e BY <1>1, <2>1 DEF Turn, Exists
  <2>2. CASE f # e
    <3>1. ed'[f].at = ed[f].at /\ ed'[f].of = ed[f].of /\ ed[f].of \in Names
      BY <2>2 DEF Turn, Same, IInv, TypeOK, Job
    <3> QED BY <1>1, <3>1 DEF IInv, EditorsExist, Exists
  <2> QED BY <2>1, <2>2
<1>3. Existing' = Existing BY <1>1 DEF Existing, Exists
<1>4. {q \in Existing : profile'[q].active} = {q \in Existing : profile[q].active}
  BY <1>1 DEF Existing
<1> QED BY <1>2, <1>3, <1>4 DEF IInv, OneActive

\* Scores are known by versions that were; a new text is a new version.
LEMMA VersionsKept ==
  ASSUME IInv, TypeOK', NEW Old \in SUBSET Known, NEW p \in Names, Exists(p),
         Known' \subseteq Old \cup {[of |-> p, version |-> profile[p].version, text |-> profile[p].text]},
         \A q \in Names : profile[q].is =>
           /\ profile'[q].is
           /\ \/ profile'[q].version = profile[q].version /\ profile'[q].text = profile[q].text
              \/ profile'[q].version > profile[q].version
  PROVE  VersionsKnown'
<1> DEFINE new == [of |-> p, version |-> profile[p].version, text |-> profile[p].text]
<1>1. ASSUME NEW k \in Known \cup {new}
      PROVE  /\ k.of \in Names /\ k.version \in Nat /\ Exists(k.of) /\ k.version <= profile[k.of].version
             /\ k.version = profile[k.of].version => k.text = profile[k.of].text
             /\ \A j \in Known \cup {new} : j.of = k.of /\ j.version = k.version => j.text = k.text
  <2>1. ASSUME NEW j \in Known PROVE j.of \in Names /\ j.version \in Nat BY DEF Known, IInv, TypeOK, Job
  <2>2. new.of \in Names /\ new.version \in Nat BY DEF IInv, TypeOK, Row
  <2>3. CASE k \in Known
    <3>1. \A j \in Known : j.of = k.of /\ j.version = k.version => j.text = k.text
      BY <2>3 DEF IInv, VersionsKnown
    <3> QED BY <2>1, <2>3, <3>1 DEF IInv, VersionsKnown
  <2>4. CASE k = new
    <3>1. \A j \in Known : j.of = k.of /\ j.version = k.version => j.text = k.text
      BY <2>4 DEF IInv, VersionsKnown
    <3> QED BY <2>2, <2>4, <3>1
  <2> QED BY <2>3, <2>4
<1> HIDE DEF new
<1>2. ASSUME NEW k \in Known'
      PROVE  /\ profile'[k.of].is /\ k.version <= profile'[k.of].version
             /\ k.version = profile'[k.of].version => k.text = profile'[k.of].text
             /\ \A j \in Known' : j.of = k.of /\ j.version = k.version => j.text = k.text
  <2>1. k \in Known \cup {new} /\ \A j \in Known' : j \in Known \cup {new} BY DEF new
  <2>2. /\ k.of \in Names /\ k.version \in Nat /\ Exists(k.of) /\ k.version <= profile[k.of].version
        /\ k.version = profile[k.of].version => k.text = profile[k.of].text
        /\ \A j \in Known' : j.of = k.of /\ j.version = k.version => j.text = k.text
    BY <1>1, <2>1
  <2>3. profile[k.of].version \in Nat /\ profile'[k.of].version \in Nat
    BY <2>2 DEF IInv, TypeOK, Row
  <2> QED BY <2>2, <2>3 DEF Exists
<1> QED BY <1>2 DEF VersionsKnown, Exists

LEMMA CountsKept ==
  ASSUME IInv, told' = told,
         \A q \in Names : profile'[q].is = profile[q].is /\ profile'[q].sigs = profile[q].sigs
  PROVE  Counted'
BY DEF IInv, Counted, Exists

-----------------------------------------------------------------------------
(* Steps of editors that touch no row.                                     *)

LEMMA Spent ==
  ASSUME TypeOK, NEW what \in {"edits", "life", "mishaps"}, Spend(what)
  PROVE  budget' \in [{"edits", "life", "mishaps"} -> Nat]
BY DEF TypeOK, Spend

LEMMA Blank ==
  /\ NoSignals \in Signals /\ Idle \in Job /\ Idle.at = "idle" /\ Idle.desc = "keep" /\ ~Working(Idle)
  /\ Absent \in Row /\ ~Absent.is /\ ~Absent.active /\ Absent.sigs = NoSignals /\ Absent.ints = {}
<1>1. NoSignals \in Signals BY DEF NoSignals, NoSignal, Signals, Polarities
<1>2. Text("none", "none", {}, NoSignals) \in Compiled BY <1>1 DEF Text, Compiled, Descriptions
<1>3. /\ Absent \in Row /\ ~Absent.is /\ ~Absent.active /\ Absent.sigs = NoSignals /\ Absent.ints = {}
  BY <1>1, <1>2 DEF Absent, Row, Descriptions
<1>4. [desc |-> "none", en |-> "none"] \in Sides BY DEF Sides, Descriptions
<1>5. Idle \in Job
  BY <1>1, <1>4, ProfilesAssumption DEF Idle, Job, Stages, Polarities
<1> QED BY <1>1, <1>3, <1>5 DEF Idle, Working

\* Only one editor moves.
LEMMA GoFields ==
  ASSUME TypeOK, NEW e \in Editors, NEW job \in Job, Go(e, job)
  PROVE  /\ ed' \in [Editors -> Job] /\ ed'[e] = job
         /\ \A f \in Editors \ {e} : ed'[f] = ed[f] /\ Same(ed'[f], ed[f])
BY DEF TypeOK, Go, Same

\* An editor that begins knows whether it is alone, and the others whether they
\* still are.
LEMMA BeginFields ==
  ASSUME TypeOK, NEW e \in Editors, NEW p \in Names, NEW job \in Job, Begin(e, p, job)
  PROVE  /\ ed' \in [Editors -> Job]
         /\ ed'[e].at = job.at /\ ed'[e].of = p /\ ed'[e].desc = job.desc
         /\ ed'[e].alone => \A f \in Editors \ {e} : ~(Working(ed[f]) /\ ed[f].of = p)
         /\ \A f \in Editors \ {e} : Same(ed'[f], ed[f])
         /\ \A f \in Editors \ {e} : Working(ed[f]) /\ ed[f].of = p => ~ed'[f].alone
<1>1. PICK b \in BOOLEAN : b = (Others(e, p) = {}) OBVIOUS
<1>2. PICK x : x = [job EXCEPT !.of = p, !.alone = b] OBVIOUS
<1>3. x \in Job /\ x.at = job.at /\ x.of = p /\ x.desc = job.desc /\ x.alone = b
  BY <1>2 DEF Job
<1>4. Others(e, p) = {f \in Editors \ {e} : Working(ed[f]) /\ ed[f].of = p} BY DEF Others, Working
<1>5. ed' = [f \in Editors |->
               IF f = e THEN x
               ELSE IF f \in Others(e, p) THEN [ed[f] EXCEPT !.alone = FALSE] ELSE ed[f]]
  BY <1>1, <1>2 DEF Begin
<1>6. ed'[e] = x BY <1>5
<1>7. ASSUME NEW f \in Editors \ {e}
      PROVE  /\ ed'[f] \in Job /\ Same(ed'[f], ed[f])
             /\ Working(ed[f]) /\ ed[f].of = p => ~ed'[f].alone
  <2>1. ed[f] \in Job BY DEF TypeOK
  <2>2. CASE f \in Others(e, p)
    <3>1. PICK y : y = [ed[f] EXCEPT !.alone = FALSE] OBVIOUS
    <3>2. ed'[f] = y BY <1>5, <2>2, <3>1
    <3>3. y \in Job /\ Same(y, ed[f]) /\ ~y.alone BY <2>1, <3>1 DEF Job, Same
    <3> QED BY <3>2, <3>3
  <2>3. CASE f \notin Others(e, p)
    <3>1. ed'[f] = ed[f] BY <1>5, <2>3
    <3> QED BY <1>4, <2>1, <2>3, <3>1 DEF Same
  <2> QED BY <2>2, <2>3
<1>8. ed' \in [Editors -> Job]
  <2>1. \A f \in Editors : ed'[f] \in Job BY <1>3, <1>6, <1>7
  <2> QED BY <1>5, <2>1
<1>9. x.alone => \A f \in Editors \ {e} : ~(Working(ed[f]) /\ ed[f].of = p) BY <1>1, <1>3, <1>4
<1> QED BY <1>3, <1>6, <1>7, <1>8, <1>9

\* A ranking is added by nobody who does not rank.
LEMMA NoNewKnown ==
  ASSUME TypeOK, NEW e \in Editors, \A f \in Editors \ {e} : Same(ed'[f], ed[f]),
         ed'[e].at # "score", scores' \subseteq Known
  PROVE  Known' \subseteq Known
BY DEF Known, Same

\* A step of one editor that touches no row.
LEMMA LookingKeeps ==
  ASSUME IInv, NEW e \in Editors, NEW p, Turn(e, p), Noticed(e, p), Knows(e, p), Leaves(e, p),
         ed' \in [Editors -> Job], budget' \in [{"edits", "life", "mishaps"} -> Nat],
         disturbed' \subseteq Names, scores' \subseteq Known, ed'[e].at # "score",
         UNCHANGED <<profile, told>>
  PROVE  IInv'
<1>1. scores' \subseteq [of : Names, version : Nat, text : Sides \cup Compiled]
  <2>1. Known \subseteq [of : Names, version : Nat, text : Sides \cup Compiled]
    BY DEF Known, IInv, TypeOK, Job
  <2> QED BY <2>1
<1>2. TypeOK' BY <1>1 DEF IInv, TypeOK
<1>3. Peace' BY <1>2, TurnKeepsPeace
<1>4. TextIsCurrent' BY <1>2, TurnKeepsText
<1>5. EditorsExist' /\ OneActive' BY TurnKeepsLife
<1>6. VersionsKnown'
  <2>1. Known' \subseteq Known BY NoNewKnown DEF Turn, IInv
  <2> QED BY <2>1 DEF IInv, VersionsKnown, Exists
<1>7. Counted' BY CountsKept
<1> QED BY <1>2, <1>3, <1>4, <1>5, <1>6, <1>7 DEF IInv

\* The start of an edit, when the row is not written with it.
LEMMA BeginKeeps ==
  ASSUME IInv, NEW e \in Editors, NEW p \in Names, ed[e].at = "idle", Exists(p), Spend("edits"),
         NEW job \in Job, job.at \in {"load", "signals"}, Begin(e, p, job),
         UNCHANGED <<profile, scores, history>>
  PROVE  IInv'
<1>1. /\ ed' \in [Editors -> Job] /\ ed'[e].at = job.at /\ ed'[e].of = p
      /\ ed'[e].alone => \A f \in Editors \ {e} : ~(Working(ed[f]) /\ ed[f].of = p)
      /\ \A f \in Editors \ {e} : Same(ed'[f], ed[f])
      /\ \A f \in Editors \ {e} : Working(ed[f]) /\ ed[f].of = p => ~ed'[f].alone
  BY BeginFields DEF IInv
<1>2. Turn(e, p) BY <1>1 DEF Turn, Working, history
<1>3. Noticed(e, p) BY <1>1 DEF Noticed
<1>4. Knows(e, p) BY <1>1 DEF Knows, HasSeen, Same, Working
<1>5. Leaves(e, p) BY <1>1 DEF Leaves, Working
<1>6. scores' \subseteq Known /\ disturbed' \subseteq Names BY DEF Known, IInv, TypeOK, history
<1>7. budget' \in [{"edits", "life", "mishaps"} -> Nat] BY Spent DEF IInv
<1> QED BY <1>1, <1>2, <1>3, <1>4, <1>5, <1>6, <1>7, LookingKeeps DEF history

LEMMA DescribeKeeps ==
  ASSUME IInv, NEW e \in Editors, NEW p \in Names, Describe(e, p) PROVE IInv'
<1>1. PICK desc \in Texts : Begin(e, p, [Idle EXCEPT !.at = "load", !.desc = desc]) BY DEF Describe
<1>2. PICK job : job = [Idle EXCEPT !.at = "load", !.desc = desc] OBVIOUS
<1>3. job \in Job /\ job.at = "load" BY <1>2, Blank DEF Job, Stages
<1> QED BY <1>1, <1>2, <1>3, BeginKeeps DEF Describe

LEMMA ReactKeeps ==
  ASSUME IInv, NEW e \in Editors, NEW p \in Names, React(e, p) PROVE IInv'
<1>1. PICK effect \in Effects :
        Begin(e, p, [Idle EXCEPT !.at = "signals", !.todo = Categories, !.effect = effect])
  BY DEF React
<1>2. PICK job : job = [Idle EXCEPT !.at = "signals", !.todo = Categories, !.effect = effect] OBVIOUS
<1>3. effect \in [polarity : Polarities, by : Nat] BY DEF Effects, Polarities
<1>4. job \in Job /\ job.at = "signals" BY <1>2, <1>3, Blank DEF Job, Stages
<1> QED BY <1>1, <1>2, <1>4, BeginKeeps DEF React

\* An editor at work reads on.
LEMMA ReadOnKeeps ==
  ASSUME IInv, NEW e \in Editors, Working(ed[e]), NEW job \in Job, Go(e, job), Working(job),
         job.of = ed[e].of, job.alone = ed[e].alone, job.desc = ed[e].desc,
         HasSeen(ed[e], profile[ed[e].of]) => HasSeen(job, profile[ed[e].of]),
         UNCHANGED <<profile, scores, budget, history>>
  PROVE  IInv'
<1>1. /\ ed' \in [Editors -> Job] /\ ed'[e] = job
      /\ \A f \in Editors \ {e} : ed'[f] = ed[f] /\ Same(ed'[f], ed[f])
  BY GoFields DEF IInv
<1>2. PICK p \in Names : p = ed[e].of BY DEF IInv, TypeOK, Job
<1>3. Exists(p) BY <1>2 DEF IInv, EditorsExist, Working
<1>4. Turn(e, p) BY <1>1, <1>2, <1>3 DEF Turn, Working, history
<1>5. Noticed(e, p) BY DEF Noticed
<1>6. Knows(e, p) BY <1>1, <1>2 DEF Knows, IInv, Peace, Working
<1>7. Leaves(e, p) BY <1>1 DEF Leaves
<1>8. /\ scores' \subseteq Known /\ disturbed' \subseteq Names
      /\ budget' \in [{"edits", "life", "mishaps"} -> Nat]
  BY DEF Known, IInv, TypeOK, history
<1>9. ed'[e].at # "score" BY <1>1 DEF Working
<1> QED BY <1>1, <1>4, <1>5, <1>6, <1>7, <1>8, <1>9, LookingKeeps DEF history

LEMMA ReadSignalsKeeps == ASSUME IInv, NEW e \in Editors, ReadSignals(e) PROVE IInv'
<1>1. PICK job : job = [ed[e] EXCEPT !.at = "learn", !.sigs = profile[ed[e].of].sigs] OBVIOUS
<1>2. ed[e] \in Job /\ profile[ed[e].of] \in Row BY DEF IInv, TypeOK, Job
<1>3. /\ job \in Job /\ job.at = "learn" /\ job.of = ed[e].of /\ job.alone = ed[e].alone
      /\ job.desc = ed[e].desc
  BY <1>1, <1>2 DEF Job, Row, Stages
<1> QED BY <1>1, <1>3, ReadOnKeeps DEF ReadSignals, Working, HasSeen

\* The English side goes with the description.
LEMMA EnglishSides ==
  ASSUME NEW row \in Row, NEW desc \in Descriptions, NEW en \in English(row, desc)
  PROVE  en[1] \in Descriptions /\ en[2] \in Descriptions
BY DEF English, Row, Descriptions

LEMMA LoadKeeps == ASSUME IInv, NEW e \in Editors, Load(e) PROVE IInv'
<1> DEFINE row == profile[ed[e].of]
           desc == IF ed[e].desc = "keep" THEN row.desc ELSE ed[e].desc
<1>1. ed[e] \in Job /\ row \in Row BY DEF IInv, TypeOK, Job
<1>2. desc \in Descriptions BY <1>1 DEF Job, Row, Descriptions
<1>3. PICK en \in English(row, desc) :
        Go(e, [ed[e] EXCEPT !.at = "interests", !.seen = [desc |-> desc, en |-> en[1]]])
  BY DEF Load
<1>4. PICK side : side = [desc |-> desc, en |-> en[1]] OBVIOUS
<1> HIDE DEF row
<1>5. en[1] \in Descriptions BY <1>1, <1>2, EnglishSides
<1>6. side \in Sides /\ side.desc = desc BY <1>2, <1>4, <1>5 DEF Sides
<1>7. PICK job : job = [ed[e] EXCEPT !.at = "interests", !.seen = side] OBVIOUS
<1>8. /\ job \in Job /\ job.at = "interests" /\ job.of = ed[e].of /\ job.alone = ed[e].alone
      /\ job.desc = ed[e].desc /\ job.seen.desc = desc
  BY <1>1, <1>6, <1>7 DEF Job, Stages
<1>9. HasSeen(job, row) BY <1>8 DEF HasSeen
<1>10. Go(e, job) BY <1>3, <1>4, <1>7
<1> QED BY <1>8, <1>9, <1>10, ReadOnKeeps DEF Load, Working, row

LEMMA ReadInterestsKeeps == ASSUME IInv, NEW e \in Editors, ReadInterests(e) PROVE IInv'
<1>1. PICK job : job = [ed[e] EXCEPT !.at = "learned", !.ints = profile[ed[e].of].ints] OBVIOUS
<1>2. ed[e] \in Job /\ profile[ed[e].of] \in Row BY DEF IInv, TypeOK, Job
<1>3. /\ job \in Job /\ job.at = "learned" /\ job.of = ed[e].of /\ job.alone = ed[e].alone
      /\ job.desc = ed[e].desc /\ job.seen = ed[e].seen /\ job.ints = profile[ed[e].of].ints
  BY <1>1, <1>2 DEF Job, Row, Stages
<1> QED BY <1>1, <1>3, ReadOnKeeps DEF ReadInterests, Working, HasSeen

LEMMA ReadLearnedKeeps == ASSUME IInv, NEW e \in Editors, ReadLearned(e) PROVE IInv'
<1>1. PICK job : job = [ed[e] EXCEPT !.at = "write", !.sigs = profile[ed[e].of].sigs] OBVIOUS
<1>2. ed[e] \in Job /\ profile[ed[e].of] \in Row BY DEF IInv, TypeOK, Job
<1>3. /\ job \in Job /\ job.at = "write" /\ job.of = ed[e].of /\ job.alone = ed[e].alone
      /\ job.desc = ed[e].desc /\ job.seen = ed[e].seen /\ job.ints = ed[e].ints
      /\ job.sigs = profile[ed[e].of].sigs
  BY <1>1, <1>2 DEF Job, Row, Stages
<1> QED BY <1>1, <1>3, ReadOnKeeps DEF ReadLearned, Working, HasSeen

LEMMA LookForActiveKeeps == ASSUME IInv, NEW e \in Editors, LookForActive(e) PROVE IInv'
<1>1. PICK job : job = [Idle EXCEPT !.at = "ensure"] OBVIOUS
<1>2. job \in Job /\ job.at = "ensure" BY <1>1, Blank DEF Job, Stages
<1>3. /\ ed' \in [Editors -> Job] /\ ed'[e] = job
      /\ \A f \in Editors \ {e} : ed'[f] = ed[f] /\ Same(ed'[f], ed[f])
  BY <1>1, <1>2, GoFields DEF LookForActive, IInv
<1>4. ~Working(ed[e]) /\ ~Working(ed'[e]) BY <1>2, <1>3 DEF LookForActive, Working
<1>5. UNCHANGED <<profile, scores, history>> BY DEF LookForActive
<1>6. Turn(e, Default) BY <1>2, <1>3, <1>4, <1>5, ProfilesAssumption DEF Turn, history
<1>7. Noticed(e, Default) /\ Knows(e, Default) BY <1>4, <1>5 DEF Noticed, Knows
<1>8. Leaves(e, Default) BY <1>4, <1>5 DEF Leaves, history
<1>9. scores' \subseteq Known /\ disturbed' \subseteq Names BY <1>5 DEF Known, IInv, TypeOK, history
<1>10. budget' \in [{"edits", "life", "mishaps"} -> Nat] BY Spent DEF LookForActive, IInv
<1> QED BY <1>2, <1>3, <1>5, <1>6, <1>7, <1>8, <1>9, <1>10, LookingKeeps DEF history

LEMMA DieKeeps == ASSUME IInv, NEW e \in Editors, Die(e) PROVE IInv'
<1>1. /\ ed' \in [Editors -> Job] /\ ed'[e] = Idle
      /\ \A f \in Editors \ {e} : ed'[f] = ed[f] /\ Same(ed'[f], ed[f])
  BY Blank, GoFields DEF Die, IInv
<1>2. PICK p \in Names : p = ed[e].of BY DEF IInv, TypeOK, Job
<1>3. UNCHANGED <<profile, scores, told>> /\ disturbed \subseteq disturbed' BY DEF Die
<1>4. Turn(e, p) BY <1>1, <1>2, <1>3, Blank DEF Turn
<1>5. Noticed(e, p) /\ Knows(e, p) BY <1>1, <1>3, Blank DEF Noticed, Knows
<1>6. Leaves(e, p) BY <1>2, <1>3 DEF Leaves, Die, Working
<1>7. scores' \subseteq Known BY <1>3 DEF Known
<1>8. disturbed' \subseteq Names BY <1>2 DEF Die, IInv, TypeOK
<1>9. budget' \in [{"edits", "life", "mishaps"} -> Nat] BY Spent DEF Die, IInv
<1> QED BY <1>1, <1>3, <1>4, <1>5, <1>6, <1>7, <1>8, <1>9, Blank, LookingKeeps

\* A score is written that its ranking was known to write.
LEMMA ScoreKeeps == ASSUME IInv, NEW e \in Editors, Score(e) PROVE IInv'
<1>1. /\ ed' \in [Editors -> Job] /\ ed'[e] = Idle
      /\ \A f \in Editors \ {e} : ed'[f] = ed[f] /\ Same(ed'[f], ed[f])
  BY Blank, GoFields DEF Score, IInv
<1>2. PICK p \in Names : p = ed[e].of BY DEF IInv, TypeOK, Job
<1>3. ~Working(ed[e]) /\ ~Working(ed'[e]) BY <1>1, Blank DEF Score, Working
<1>4. UNCHANGED <<profile, history>> BY DEF Score
<1>5. Turn(e, p) BY <1>1, <1>2, <1>3, <1>4, Blank DEF Turn, history
<1>6. Noticed(e, p) /\ Knows(e, p) BY <1>3, <1>4 DEF Noticed, Knows
<1>7. Leaves(e, p) BY <1>3, <1>4 DEF Leaves, history
<1>8. scores' \subseteq Known
  <2>1. [of |-> ed[e].of, version |-> ed[e].version, text |-> ed[e].seen] \in Known
    BY DEF Score, Known
  <2> QED BY <2>1 DEF Score, Known
<1>9. disturbed' \subseteq Names /\ budget' \in [{"edits", "life", "mishaps"} -> Nat]
  BY <1>4 DEF Score, IInv, TypeOK, history
<1> QED BY <1>1, <1>4, <1>5, <1>6, <1>7, <1>8, <1>9, Blank, LookingKeeps DEF history

\* A ranking reads the version with its text.
LEMMA RankKeeps == ASSUME IInv, NEW e \in Editors, NEW p \in Names, Rank(e, p) PROVE IInv'
<1>1. PICK job : job = [Idle EXCEPT !.at = "score", !.of = p, !.version = profile[p].version,
                                    !.seen = profile[p].text] OBVIOUS
<1>2. profile[p] \in Row BY DEF IInv, TypeOK
<1>3. /\ job \in Job /\ job.at = "score" /\ job.of = p /\ job.version = profile[p].version
      /\ job.seen = profile[p].text
  BY <1>1, <1>2, Blank DEF Job, Stages, Row
<1>4. /\ ed' \in [Editors -> Job] /\ ed'[e] = job
      /\ \A f \in Editors \ {e} : ed'[f] = ed[f] /\ Same(ed'[f], ed[f])
  BY <1>1, <1>3, GoFields DEF Rank, IInv
<1>5. ~Working(ed[e]) /\ ~Working(ed'[e]) BY <1>3, <1>4 DEF Rank, Working
<1>6. UNCHANGED <<profile, scores, history>> /\ Exists(p) BY DEF Rank
<1>7. Turn(e, p) BY <1>3, <1>4, <1>5, <1>6 DEF Turn, history
<1>8. Noticed(e, p) /\ Knows(e, p) BY <1>5, <1>6 DEF Noticed, Knows
<1>9. Leaves(e, p) BY <1>5, <1>6 DEF Leaves, history
<1>10. TypeOK'
  <2>1. budget' \in [{"edits", "life", "mishaps"} -> Nat] BY Spent DEF Rank, IInv
  <2> QED BY <1>4, <1>6, <2>1 DEF IInv, TypeOK, history
<1>11. VersionsKnown'
  <2>1. Known' \subseteq Known \cup
                  {[of |-> p, version |-> profile[p].version, text |-> profile[p].text]}
    BY <1>3, <1>4, <1>6 DEF Known
  <2> QED BY <1>6, <1>10, <2>1, VersionsKept
<1>12. Peace' /\ TextIsCurrent' /\ EditorsExist' /\ OneActive'
  BY <1>7, <1>8, <1>9, <1>10, TurnKeepsPeace, TurnKeepsText, TurnKeepsLife
<1>13. Counted' BY <1>6, CountsKept DEF history
<1> QED BY <1>10, <1>11, <1>12, <1>13 DEF IInv

-----------------------------------------------------------------------------
(* Steps of editors that write the row.                                    *)

LEMMA WritingKeeps ==
  ASSUME IInv, TypeOK', NEW e \in Editors, NEW p \in Names, Exists(p),
         Turn(e, p), Noticed(e, p), Knows(e, p), Leaves(e, p), Counted',
         scores' = scores, ed'[e].at # "score",
         \/ profile'[p].version = profile[p].version /\ profile'[p].text = profile[p].text
         \/ profile'[p].version > profile[p].version
  PROVE  IInv'
<1>1. Known' \subseteq Known
  <2>1. scores' \subseteq Known BY DEF Known
  <2> QED BY <2>1, NoNewKnown DEF Turn, IInv
<1>2. \A q \in Names : profile[q].is =>
        /\ profile'[q].is
        /\ \/ profile'[q].version = profile[q].version /\ profile'[q].text = profile[q].text
           \/ profile'[q].version > profile[q].version
  BY DEF Turn
<1>3. VersionsKnown' BY <1>1, <1>2, VersionsKept
<1> QED BY <1>3, TurnKeepsPeace, TurnKeepsText, TurnKeepsLife DEF IInv

\* The interests change, and the recompilation begins.
LEMMA InterestKeeps ==
  ASSUME IInv, NEW e \in Editors, NEW p \in Names, ed[e].at = "idle", Exists(p), Spend("edits"),
         NEW ints \in SUBSET Topics, profile' = [profile EXCEPT ![p].ints = ints],
         Begin(e, p, Recompile), UNCHANGED <<scores, history>>
  PROVE  IInv'
<1>1. profile[p] \in Row BY DEF IInv, TypeOK
<1>2. PICK row : row = [profile[p] EXCEPT !.ints = ints] OBVIOUS
<1>3. /\ row \in Row /\ row.is = profile[p].is /\ row.active = profile[p].active
      /\ row.text = profile[p].text /\ row.version = profile[p].version /\ row.sigs = profile[p].sigs
  BY <1>1, <1>2 DEF Row
<1>4. profile' = [profile EXCEPT ![p] = row] BY <1>2 DEF IInv, TypeOK
<1>5. /\ profile' \in [Names -> Row] /\ profile'[p] = row
      /\ \A q \in Names \ {p} : profile'[q] = profile[q]
  BY <1>3, <1>4 DEF IInv, TypeOK
<1>6. PICK job : job = Recompile OBVIOUS
<1>7. job \in Job /\ job.at = "load" BY <1>6, Blank DEF Recompile, Job, Stages
<1>8. /\ ed' \in [Editors -> Job] /\ ed'[e].at = "load" /\ ed'[e].of = p
      /\ ed'[e].alone => \A f \in Editors \ {e} : ~(Working(ed[f]) /\ ed[f].of = p)
      /\ \A f \in Editors \ {e} : Same(ed'[f], ed[f])
      /\ \A f \in Editors \ {e} : Working(ed[f]) /\ ed[f].of = p => ~ed'[f].alone
  BY <1>6, <1>7, BeginFields DEF IInv
<1>9. TypeOK'
  <2>1. budget' \in [{"edits", "life", "mishaps"} -> Nat] BY Spent DEF IInv
  <2> QED BY <1>5, <1>8, <2>1 DEF IInv, TypeOK, history
<1>10. Turn(e, p) BY <1>3, <1>5, <1>8 DEF Turn, Working, history
<1>11. Noticed(e, p) BY <1>8 DEF Noticed
<1>12. Knows(e, p) BY <1>8 DEF Knows, HasSeen, Same, Working
<1>13. Leaves(e, p) BY <1>8 DEF Leaves, Working
<1>14. Counted' BY <1>3, <1>5, CountsKept DEF history
<1> QED BY <1>3, <1>5, <1>8, <1>9, <1>10, <1>11, <1>12, <1>13, <1>14, WritingKeeps

LEMMA InterestsKeep ==
  ASSUME IInv, NEW e \in Editors, NEW p \in Names, AddInterest(e, p) \/ RemoveInterest(e, p)
  PROVE  IInv'
<1>1. profile[p].ints \subseteq Topics BY DEF IInv, TypeOK, Row
<1>2. \E ints \in SUBSET Topics : profile' = [profile EXCEPT ![p].ints = ints]
  BY <1>1 DEF AddInterest, RemoveInterest, Interested, Uninterested
<1>3. UNCHANGED <<scores, history>> /\ Begin(e, p, Recompile) /\ Exists(p) /\ ed[e].at = "idle"
      /\ Spend("edits")
  BY DEF AddInterest, RemoveInterest
<1> QED BY <1>2, <1>3, InterestKeeps

\* A reaction is one more evidence, if the signal was read as it is.
LEMMA LearnKeeps == ASSUME IInv, NEW e \in Editors, Learn(e) PROVE IInv'
<1>1. PICK p \in Names : p = ed[e].of BY DEF IInv, TypeOK, Job
<1>2. ed[e].at = "learn" /\ ed[e] \in Job /\ profile[p] \in Row /\ told[p] \in Told
  BY DEF IInv, TypeOK, Learn
<1>3. PICK c \in ed[e].todo :
        /\ profile' = [profile EXCEPT ![p].sigs[c] = Learned(ed[e].sigs[c], ed[e].effect)]
        /\ told' = [told EXCEPT ![p][c] =
                     [all |-> @.all + 1,
                      stale |-> @.stale + IF ed[e].sigs[c] = profile[p].sigs[c] THEN 0 ELSE 1]]
        /\ Go(e, IF ed[e].todo = {c}
                 THEN [Recompile EXCEPT !.of = p, !.alone = ed[e].alone]
                 ELSE [ed[e] EXCEPT !.todo = @ \ {c}])
  BY <1>1 DEF Learn
<1>4. c \in Categories BY <1>2 DEF Job
<1>5. PICK sig : sig = Learned(ed[e].sigs[c], ed[e].effect) OBVIOUS
<1>6. /\ sig \in [weight : Nat, polarity : Polarities, evidence : Nat]
      /\ sig.evidence = ed[e].sigs[c].evidence + 1
  <2>1. ed[e].sigs[c] \in [weight : Nat, polarity : Polarities, evidence : Nat]
    BY <1>2, <1>4 DEF Job, Signals
  <2>2. ed[e].effect \in [polarity : Polarities, by : Nat] BY <1>2 DEF Job
  <2> QED BY <1>5, <2>1, <2>2, ProfilesAssumption DEF Learned
<1>7. PICK sigs : sigs = [profile[p].sigs EXCEPT ![c] = sig] OBVIOUS
<1>8. /\ sigs \in Signals /\ sigs[c] = sig
      /\ \A d \in Categories \ {c} : sigs[d] = profile[p].sigs[d]
  BY <1>2, <1>4, <1>6, <1>7 DEF Row, Signals
<1>9. PICK row : row = [profile[p] EXCEPT !.sigs = sigs] OBVIOUS
<1>10. /\ row \in Row /\ row.is = profile[p].is /\ row.active = profile[p].active
       /\ row.text = profile[p].text /\ row.version = profile[p].version /\ row.sigs = sigs
  BY <1>2, <1>8, <1>9 DEF Row
<1>11. profile' = [profile EXCEPT ![p] = row] BY <1>3, <1>5, <1>7, <1>9 DEF IInv, TypeOK
<1>12. /\ profile' \in [Names -> Row] /\ profile'[p] = row
       /\ \A q \in Names \ {p} : profile'[q] = profile[q]
  BY <1>10, <1>11 DEF IInv, TypeOK
<1>13. PICK n \in {0, 1} : n = IF ed[e].sigs[c] = profile[p].sigs[c] THEN 0 ELSE 1 OBVIOUS
<1>14. PICK count : count = [all |-> told[p][c].all + 1, stale |-> told[p][c].stale + n] OBVIOUS
<1>15. /\ count \in [all : Nat, stale : Nat] /\ count.all = told[p][c].all + 1
       /\ count.stale = told[p][c].stale + n /\ told[p][c].stale \in Nat
  BY <1>2, <1>4, <1>14 DEF Told
<1>16. PICK counts : counts = [told[p] EXCEPT ![c] = count] OBVIOUS
<1>17. /\ counts \in Told /\ counts[c] = count
       /\ \A d \in Categories \ {c} : counts[d] = told[p][d]
  BY <1>2, <1>4, <1>15, <1>16 DEF Told
<1>18. told' = [told EXCEPT ![p] = counts] BY <1>3, <1>13, <1>14, <1>16 DEF IInv, TypeOK
<1>19. /\ told' \in [Names -> Told] /\ told'[p] = counts
       /\ \A q \in Names \ {p} : told'[q] = told[q]
  BY <1>17, <1>18 DEF IInv, TypeOK
<1>20. PICK job : job = IF ed[e].todo = {c}
                        THEN [Recompile EXCEPT !.of = p, !.alone = ed[e].alone]
                        ELSE [ed[e] EXCEPT !.todo = @ \ {c}] OBVIOUS
<1>21. job \in Job /\ job.at \in {"load", "learn"} /\ job.of = p /\ job.alone = ed[e].alone
  <2>1. CASE ed[e].todo = {c}
    <3>1. PICK new : new = Recompile OBVIOUS
    <3>2. new \in Job /\ new.at = "load" BY <3>1, Blank DEF Recompile, Job, Stages
    <3>3. job = [new EXCEPT !.of = p, !.alone = ed[e].alone] BY <1>20, <2>1, <3>1
    <3> QED BY <1>2, <3>2, <3>3 DEF Job
  <2>2. CASE ed[e].todo # {c} BY <1>1, <1>2, <1>20, <2>2 DEF Job
  <2> QED BY <2>1, <2>2
<1>22. /\ ed' \in [Editors -> Job] /\ ed'[e] = job
       /\ \A f \in Editors \ {e} : ed'[f] = ed[f] /\ Same(ed'[f], ed[f])
  BY <1>3, <1>20, <1>21, GoFields DEF IInv
<1>23. Working(ed[e]) /\ Working(job) /\ Exists(p)
  BY <1>1, <1>2, <1>21 DEF Working, IInv, EditorsExist
<1>24. UNCHANGED <<scores, budget, disturbed>> BY DEF Learn
<1>25. TypeOK' BY <1>12, <1>19, <1>22, <1>24 DEF IInv, TypeOK
<1>26. Turn(e, p) BY <1>1, <1>10, <1>12, <1>21, <1>22, <1>23, <1>24 DEF Turn
<1>27. Noticed(e, p) /\ Leaves(e, p) BY <1>22, <1>23 DEF Noticed, Leaves
<1>28. Knows(e, p)
  <2>1. HasSeen(job, row) BY <1>21 DEF HasSeen
  <2> QED BY <1>1, <1>12, <1>21, <1>22, <1>23, <2>1 DEF Knows, IInv, Peace
<1>29. Counted'
  <2> SUFFICES ASSUME NEW q \in Names, NEW d \in Categories
               PROVE  IF profile'[q].is
                      THEN told'[q][d].stale = 0 => profile'[q].sigs[d].evidence = told'[q][d].all
                      ELSE told'[q][d].all = 0
    BY DEF Counted, Exists
  <2>1. CASE q # p \/ d # c
    <3>1. /\ profile'[q].is = profile[q].is /\ profile'[q].sigs[d] = profile[q].sigs[d]
          /\ told'[q][d] = told[q][d]
      BY <1>8, <1>10, <1>12, <1>17, <1>19, <2>1
    <3> QED BY <3>1 DEF IInv, Counted, Exists
  <2>2. CASE q = p /\ d = c
    <3>1. profile[p].is => (told[p][c].stale = 0 => profile[p].sigs[c].evidence = told[p][c].all)
      BY <1>4 DEF IInv, Counted, Exists
    <3>2. profile'[p].is BY <1>10, <1>12, <1>23 DEF Exists
    <3>3. told'[p][c] = count /\ profile'[p].sigs[c] = sig BY <1>8, <1>10, <1>12, <1>17, <1>19
    <3>4. ASSUME count.stale = 0 PROVE sig.evidence = count.all
      <4>1. n = 0 /\ told[p][c].stale = 0 BY <1>15, <3>4
      <4>2. ed[e].sigs[c] = profile[p].sigs[c] BY <1>13, <4>1
      <4> QED BY <1>6, <1>15, <1>23, <3>1, <4>1, <4>2 DEF Exists
    <3> QED BY <2>2, <3>2, <3>3, <3>4
  <2> QED BY <2>1, <2>2
<1>30. job.at # "score" /\ profile'[p].version = profile[p].version /\ profile'[p].text = profile[p].text
  BY <1>10, <1>12, <1>21
<1> QED BY <1>22, <1>23, <1>24, <1>25, <1>26, <1>27, <1>28, <1>29, <1>30, WritingKeeps

\* What an editor writes is current if it was alone.
LEMMA WrittenRow ==
  ASSUME NEW row \in Row, NEW job \in Job, job.at = "write"
  PROVE  /\ Written(row, job) \in Row
         /\ Written(row, job).is = row.is /\ Written(row, job).active = row.active
         /\ Written(row, job).sigs = row.sigs
         /\ HasSeen(job, row) => Current(Written(row, job))
         /\ \/ Written(row, job).version = row.version /\ Written(row, job).text = row.text
            \/ Written(row, job).version > row.version
<1>1. PICK new : new = Text(job.seen.desc, job.seen.en, job.ints, job.sigs) OBVIOUS
<1>2. job.seen.desc \in Descriptions /\ job.seen.en \in Descriptions BY DEF Job, Sides, Compiled
<1>3. new \in Compiled BY <1>1, <1>2 DEF Text, Compiled, Job
<1>4. PICK v : v = Version(row, new) OBVIOUS
<1>5. v \in Nat /\ ((v = row.version /\ new = row.text) \/ v > row.version)
  BY <1>4 DEF Version, Row
<1>6. PICK desc : desc = IF job.desc = "keep" THEN row.desc ELSE job.desc OBVIOUS
<1>7. PICK hash : hash = IF job.seen.en = "none" THEN "none" ELSE job.seen.desc OBVIOUS
<1>8. desc \in Descriptions /\ hash \in Descriptions BY <1>2, <1>6, <1>7 DEF Row, Job, Descriptions
<1>9. PICK x : x = Written(row, job) OBVIOUS
<1>10. x = [row EXCEPT !.desc = desc, !.en = job.seen.en, !.hash = hash, !.text = new, !.version = v]
  BY <1>1, <1>4, <1>6, <1>7, <1>9 DEF Written
<1>11. /\ x \in Row /\ x.is = row.is /\ x.active = row.active /\ x.sigs = row.sigs
       /\ x.ints = row.ints /\ x.desc = desc /\ x.en = job.seen.en /\ x.text = new /\ x.version = v
  BY <1>2, <1>3, <1>5, <1>8, <1>10 DEF Row
<1>12. HasSeen(job, row) => Current(x) BY <1>1, <1>6, <1>11 DEF HasSeen, Current
<1> QED BY <1>5, <1>9, <1>11, <1>12

LEMMA WriteKeeps == ASSUME IInv, NEW e \in Editors, Write(e) PROVE IInv'
<1>1. PICK p \in Names : p = ed[e].of BY DEF IInv, TypeOK, Job
<1>2. ed[e].at = "write" /\ ed[e] \in Job /\ profile[p] \in Row BY DEF IInv, TypeOK, Write
<1>3. PICK row : row = Written(profile[p], ed[e]) OBVIOUS
<1>4. /\ row \in Row /\ row.is = profile[p].is /\ row.active = profile[p].active
      /\ row.sigs = profile[p].sigs
      /\ HasSeen(ed[e], profile[p]) => Current(row)
      /\ \/ row.version = profile[p].version /\ row.text = profile[p].text
         \/ row.version > profile[p].version
  BY <1>2, <1>3, WrittenRow
<1>5. profile' = [profile EXCEPT ![p] = row] BY <1>1, <1>3 DEF Write, IInv, TypeOK
<1>6. /\ profile' \in [Names -> Row] /\ profile'[p] = row
      /\ \A q \in Names \ {p} : profile'[q] = profile[q]
  BY <1>4, <1>5 DEF IInv, TypeOK
<1>7. /\ ed' \in [Editors -> Job] /\ ed'[e] = Idle
      /\ \A f \in Editors \ {e} : ed'[f] = ed[f] /\ Same(ed'[f], ed[f])
  BY Blank, GoFields DEF Write, IInv
<1>8. Working(ed[e]) /\ ~Working(ed'[e]) /\ Exists(p)
  BY <1>1, <1>2, <1>7, Blank DEF Working, IInv, EditorsExist
<1>9. /\ UNCHANGED <<scores, budget, told>>
      /\ disturbed' = IF ed[e].alone THEN disturbed \ {p} ELSE disturbed \cup {p}
  BY <1>1 DEF Write
<1>10. TypeOK' BY <1>6, <1>7, <1>9 DEF IInv, TypeOK
<1>11. Turn(e, p) BY <1>1, <1>4, <1>6, <1>7, <1>9, Blank DEF Turn
<1>12. Noticed(e, p) /\ Knows(e, p) BY <1>8 DEF Noticed, Knows
<1>13. Leaves(e, p) BY <1>1, <1>4, <1>6, <1>8, <1>9 DEF Leaves, IInv, Peace
<1>14. Counted' BY <1>4, <1>6, <1>9, CountsKept
<1>15. ed'[e].at # "score" BY <1>7, Blank
<1> QED BY <1>4, <1>6, <1>8, <1>9, <1>10, <1>11, <1>12, <1>13, <1>14, <1>15, WritingKeeps

-----------------------------------------------------------------------------
(* The life of a profile.                                                  *)

LEMMA Deactivates ==
  ASSUME TypeOK
  PROVE  /\ Deactivated \in [Names -> Row]
         /\ \A q \in Names : Alike(Deactivated[q], profile[q]) /\ ~Deactivated[q].active
<1> SUFFICES ASSUME NEW q \in Names
             PROVE  Deactivated[q] \in Row /\ Alike(Deactivated[q], profile[q]) /\ ~Deactivated[q].active
  BY DEF Deactivated
<1>1. PICK row : row = [profile[q] EXCEPT !.active = FALSE] OBVIOUS
<1>2. profile[q] \in Row /\ Deactivated[q] = row BY <1>1 DEF TypeOK, Deactivated
<1> QED BY <1>1, <1>2 DEF Row, Alike

\* One profile has the flag and no other.
LEMMA OneIsActive ==
  ASSUME NEW p \in Names, profile'[p].is, profile'[p].active,
         \A q \in Names \ {p} : profile'[q].is => ~profile'[q].active
  PROVE  OneActive'
<1>1. p \in Existing' BY DEF Existing, Exists
<1>2. \A q \in Existing' : q \in Names /\ profile'[q].is BY DEF Existing, Exists
<1>3. {q \in Existing' : profile'[q].active} = {p} BY <1>1, <1>2
<1> QED BY <1>1, <1>3 DEF OneActive

LEMMA ActivateKeeps == ASSUME IInv, NEW p \in Names, Activate(p) PROVE IInv'
<1>1. /\ Deactivated \in [Names -> Row]
      /\ \A q \in Names : Alike(Deactivated[q], profile[q]) /\ ~Deactivated[q].active
  BY Deactivates DEF IInv
<1>2. PICK row : row = [Deactivated[p] EXCEPT !.active = TRUE] OBVIOUS
<1>3. row \in Row /\ Alike(row, profile[p]) /\ row.active BY <1>1, <1>2 DEF Row, Alike
<1>4. profile' = [Deactivated EXCEPT ![p] = row] BY <1>1, <1>2 DEF Activate, Activated
<1>5. /\ profile' \in [Names -> Row] /\ profile'[p] = row
      /\ \A q \in Names \ {p} : profile'[q] = Deactivated[q]
  BY <1>1, <1>3, <1>4
<1>6. \A q \in Names : Alike(profile'[q], profile[q]) BY <1>1, <1>3, <1>5
<1>7. UNCHANGED <<scores, ed, disturbed, told>> BY DEF Activate, history
<1>8. TypeOK'
  <2>1. budget' \in [{"edits", "life", "mishaps"} -> Nat] BY Spent DEF Activate, IInv
  <2> QED BY <1>5, <1>7, <2>1 DEF IInv, TypeOK
<1>9. \A e \in Editors : ed[e].of \in Names BY DEF IInv, TypeOK, Job
<1>10. EditorsExist' BY <1>6, <1>7, <1>9 DEF IInv, EditorsExist, Exists, Alike
<1>11. OneActive' BY <1>1, <1>3, <1>5, <1>6, OneIsActive DEF Activate, Exists, Alike
<1>12. Peace'
  <2>1. \A e \in Editors : HasSeen(ed[e], profile[ed[e].of]) => HasSeen(ed[e], profile'[ed[e].of])
    BY <1>6, <1>9 DEF HasSeen, Alike
  <2>2. \A e \in Editors : HasSeen(ed[e], profile[ed[e].of]) => HasSeen(ed'[e], profile'[ed'[e].of])
    BY <1>7, <2>1
  <2> QED BY <1>7, <2>2 DEF IInv, Peace, Working, HasSeen
<1>13. TextIsCurrent'
  <2>1. \A q \in Names : Current(profile[q]) => Current(profile'[q]) BY <1>6 DEF Current, Alike
  <2>2. \A q \in Names : profile'[q].is = profile[q].is BY <1>6 DEF Alike
  <2> QED BY <1>7, <2>1, <2>2 DEF IInv, TextIsCurrent, Current, Existing, Exists
<1>14. VersionsKnown'
  <2>1. Known' = Known BY <1>7 DEF Known
  <2>2. \A q \in Names : profile[q].is =>
          /\ profile'[q].is
          /\ profile'[q].version = profile[q].version /\ profile'[q].text = profile[q].text
    BY <1>6 DEF Alike
  <2>3. Exists(p) BY DEF Activate
  <2> QED BY <1>8, <2>1, <2>2, <2>3, VersionsKept
<1>15. Counted' BY <1>6, <1>7, CountsKept DEF Alike
<1> QED BY <1>8, <1>10, <1>11, <1>12, <1>13, <1>14, <1>15 DEF IInv

LEMMA CreatedRows ==
  ASSUME IInv, NEW p \in Names,
         \E desc \in Descriptions, active \in BOOLEAN : CreateProfile(p, desc, active)
  PROVE  /\ profile' \in [Names -> Row]
         /\ profile'[p].is /\ profile'[p].sigs = NoSignals /\ Current(profile'[p])
         /\ \A q \in Names \ {p} : Alike(profile'[q], profile[q])
         /\ OneActive'
<1>0. PICK desc \in Descriptions, active \in BOOLEAN : CreateProfile(p, desc, active) OBVIOUS
<1>1. PICK activate \in BOOLEAN : activate = (active \/ Existing = {}) OBVIOUS
<1>2. PICK en \in English(Absent, desc) :
        profile' = [(IF activate THEN Deactivated ELSE profile) EXCEPT
          ![p] = [Absent EXCEPT !.is = TRUE, !.active = activate, !.version = 1,
                  !.desc = desc, !.en = en[1], !.hash = en[2],
                  !.text = Text(desc, en[1], {}, NoSignals)]]
  BY <1>0, <1>1 DEF CreateProfile
<1>3. en[1] \in Descriptions /\ en[2] \in Descriptions BY Blank, EnglishSides
<1>4. PICK text : text = Text(desc, en[1], {}, NoSignals) OBVIOUS
<1>5. text \in Compiled BY <1>3, <1>4, Blank DEF Text, Compiled
<1>6. PICK row : row = [Absent EXCEPT !.is = TRUE, !.active = activate, !.version = 1,
                  !.desc = desc, !.en = en[1], !.hash = en[2], !.text = text] OBVIOUS
<1>7. /\ row \in Row /\ row.is /\ row.active = activate /\ row.sigs = NoSignals /\ row.ints = {}
      /\ row.desc = desc /\ row.en = en[1] /\ row.text = text
  BY <1>3, <1>5, <1>6, Blank DEF Row
<1>8. PICK base : base = IF activate THEN Deactivated ELSE profile OBVIOUS
<1>9. profile' = [base EXCEPT ![p] = row] BY <1>2, <1>4, <1>6, <1>8
<1>10. /\ base \in [Names -> Row] /\ \A q \in Names : Alike(base[q], profile[q])
       /\ activate => \A q \in Names : ~base[q].active
       /\ ~activate => base = profile
  BY <1>8, Deactivates DEF IInv, TypeOK, Alike
<1>11. /\ profile' \in [Names -> Row] /\ profile'[p] = row
       /\ \A q \in Names \ {p} : profile'[q] = base[q]
  BY <1>7, <1>9, <1>10
<1>12. Current(row) BY <1>4, <1>7 DEF Current
<1>13. OneActive'
  <2>1. CASE activate BY <1>7, <1>10, <1>11, <2>1, OneIsActive
  <2>2. CASE ~activate
    <3>1. Existing # {} BY <1>1, <2>2
    <3>2. PICK a \in Existing : {q \in Existing : profile[q].active} = {a}
      BY <3>1 DEF IInv, OneActive
    <3>3. a \in Names /\ a # p /\ profile[a].is /\ profile[a].active
      BY <1>0, <3>2 DEF Existing, Exists, CreateProfile
    <3>4. \A q \in Names \ {p} : profile'[q] = profile[q] BY <1>10, <1>11, <2>2
    <3>5. ASSUME NEW q \in Names \ {a}, profile'[q].is PROVE ~profile'[q].active
      <4>1. CASE q = p BY <1>7, <1>11, <2>2, <4>1
      <4>2. CASE q # p
        <5>1. q \in Existing /\ profile'[q] = profile[q] BY <3>4, <3>5, <4>2 DEF Existing, Exists
        <5> QED BY <3>2, <3>5, <5>1
      <4> QED BY <4>1, <4>2
    <3> QED BY <3>3, <3>4, <3>5, OneIsActive
  <2> QED BY <2>1, <2>2
<1> QED BY <1>7, <1>10, <1>11, <1>12, <1>13

\* Nobody was at work on a profile that was not there, and there is no score of it.
LEMMA CreateKeeps ==
  ASSUME IInv, NEW p \in Names,
         \E desc \in Descriptions, active \in BOOLEAN : CreateProfile(p, desc, active),
         scores' = scores, disturbed' = disturbed, told' = told, ed' \in [Editors -> Job],
         \A e \in Editors : ed'[e] = ed[e] \/ (ed'[e].at = "idle" /\ ed[e].at = "ensure"),
         budget' \in [{"edits", "life", "mishaps"} -> Nat]
  PROVE  IInv'
<1>1. /\ profile' \in [Names -> Row]
      /\ profile'[p].is /\ profile'[p].sigs = NoSignals /\ Current(profile'[p])
      /\ \A q \in Names \ {p} : Alike(profile'[q], profile[q])
      /\ OneActive'
  BY CreatedRows
<1>2. ~profile[p].is BY DEF CreateProfile, Exists
<1>3. TypeOK' BY <1>1 DEF IInv, TypeOK
<1>4. ASSUME NEW e \in Editors, ed'[e].at \notin {"idle", "ensure"}
      PROVE  /\ ed'[e] = ed[e] /\ ed[e].of \in Names \ {p} /\ profile[ed[e].of].is
             /\ Alike(profile'[ed[e].of], profile[ed[e].of])
  <2>1. ed'[e] = ed[e] BY <1>4
  <2>2. ed[e].of \in Names BY DEF IInv, TypeOK, Job
  <2>3. profile[ed[e].of].is BY <1>4, <2>1 DEF IInv, EditorsExist, Exists
  <2> QED BY <1>1, <1>2, <2>1, <2>2, <2>3
<1>5. EditorsExist' BY <1>4 DEF EditorsExist, Exists, Alike
<1>6. Peace'
  <2> SUFFICES ASSUME NEW e \in Editors, Working(ed'[e]), ed'[e].alone
               PROVE  /\ \A f \in Editors \ {e} : ~(Working(ed'[f]) /\ ed'[f].of = ed'[e].of)
                      /\ HasSeen(ed'[e], profile'[ed'[e].of])
    BY DEF Peace, Working, HasSeen
  <2>1. /\ ed'[e] = ed[e] /\ Alike(profile'[ed[e].of], profile[ed[e].of])
        /\ \A f \in Editors : Working(ed'[f]) => ed'[f] = ed[f]
    BY <1>4 DEF Working
  <2>2. /\ \A f \in Editors \ {e} : ~(Working(ed[f]) /\ ed[f].of = ed[e].of)
        /\ HasSeen(ed[e], profile[ed[e].of])
    BY <2>1 DEF IInv, Peace
  <2>3. \A f \in Editors \ {e} : ~(Working(ed'[f]) /\ ed'[f].of = ed'[e].of) BY <2>1, <2>2
  <2>4. HasSeen(ed'[e], profile'[ed'[e].of]) BY <2>1, <2>2 DEF HasSeen, Alike
  <2> QED BY <2>3, <2>4
<1>7. TextIsCurrent'
  <2> SUFFICES ASSUME NEW q \in Names, profile'[q].is, q \notin disturbed',
                      \A f \in Editors : ed'[f].of = q => ~Working(ed'[f])
               PROVE  Current(profile'[q])
    BY DEF TextIsCurrent, Working, Current, Existing, Exists
  <2>1. CASE q # p
    <3>1. Alike(profile'[q], profile[q]) /\ profile[q].is BY <1>1, <2>1 DEF Alike
    <3>2. \A f \in Editors : ed[f].of = q => ~Working(ed[f]) BY DEF Working
    <3>3. Current(profile[q])
      BY <3>1, <3>2 DEF IInv, TextIsCurrent, Working, Current, Existing, Exists
    <3> QED BY <3>1, <3>3 DEF Current, Alike
  <2> QED BY <1>1, <2>1
<1>8. VersionsKnown'
  <2>1. Known' \subseteq Known BY <1>4 DEF Known
  <2>2. \A k \in Known : k.of \in Names BY DEF Known, IInv, TypeOK, Job
  <2>3. ASSUME NEW k \in Known PROVE k.of # p /\ Alike(profile'[k.of], profile[k.of])
    BY <1>1, <1>2, <2>2 DEF IInv, VersionsKnown, Exists
  <2> QED BY <2>1, <2>3 DEF IInv, VersionsKnown, Exists, Alike
<1>9. Counted'
  <2> SUFFICES ASSUME NEW q \in Names, NEW c \in Categories
               PROVE  IF profile'[q].is
                      THEN told[q][c].stale = 0 => profile'[q].sigs[c].evidence = told[q][c].all
                      ELSE told[q][c].all = 0
    BY DEF Counted, Exists
  <2>1. CASE q = p
    <3>1. NoSignals[c].evidence = 0 BY DEF NoSignals, NoSignal
    <3>2. told[p][c].all = 0 BY <1>2 DEF IInv, Counted, Exists
    <3> QED BY <1>1, <2>1, <3>1, <3>2
  <2>2. CASE q # p BY <1>1, <2>2 DEF IInv, Counted, Exists, Alike
  <2> QED BY <2>1, <2>2
<1> QED BY <1>1, <1>3, <1>5, <1>6, <1>7, <1>8, <1>9 DEF IInv

LEMMA MakeDefaultKeeps == ASSUME IInv, NEW e \in Editors, MakeDefault(e) PROVE IInv'
<1>1. /\ ed' \in [Editors -> Job] /\ ed'[e] = Idle
      /\ \A f \in Editors \ {e} : ed'[f] = ed[f] /\ Same(ed'[f], ed[f])
  BY Blank, GoFields DEF MakeDefault, IInv
<1>2. UNCHANGED <<scores, budget, history>> /\ ed[e].at = "ensure" BY DEF MakeDefault
<1>3. budget' \in [{"edits", "life", "mishaps"} -> Nat] BY <1>2 DEF IInv, TypeOK
<1>4. CASE Exists(Default)
  <2>1. profile' = profile BY <1>4 DEF MakeDefault
  <2>2. ~Working(ed[e]) /\ ~Working(ed'[e]) BY <1>1, <1>2, Blank DEF Working
  <2>3. Turn(e, Default) BY <1>1, <1>2, <2>1, <2>2, Blank, ProfilesAssumption DEF Turn, history
  <2>4. Noticed(e, Default) /\ Knows(e, Default) BY <2>1, <2>2 DEF Noticed, Knows
  <2>5. Leaves(e, Default) BY <1>2, <2>1, <2>2 DEF Leaves, history
  <2>6. scores' \subseteq Known /\ disturbed' \subseteq Names BY <1>2 DEF Known, IInv, TypeOK, history
  <2> QED BY <1>1, <1>2, <1>3, <2>1, <2>3, <2>4, <2>5, <2>6, Blank, LookingKeeps DEF history
<1>5. CASE ~Exists(Default)
  <2>1. \E desc \in Descriptions, active \in BOOLEAN : CreateProfile(Default, desc, active)
    BY <1>5 DEF MakeDefault, Descriptions
  <2>2. ASSUME NEW f \in Editors PROVE ed'[f] = ed[f] \/ (ed'[f].at = "idle" /\ ed[f].at = "ensure")
    <3>1. Idle.at = "idle" BY Blank
    <3>2. CASE f = e BY <1>1, <1>2, <3>1, <3>2
    <3>3. CASE f # e BY <1>1, <3>3
    <3> QED BY <3>2, <3>3
  <2> QED BY <1>1, <1>2, <1>3, <2>1, <2>2, CreateKeeps, ProfilesAssumption DEF history
<1> QED BY <1>4, <1>5

LEMMA DeletedRows ==
  ASSUME IInv, NEW p \in Names, Delete(p)
  PROVE  /\ profile' \in [Names -> Row] /\ ~profile'[p].is
         /\ \A q \in Names \ {p} : Alike(profile'[q], profile[q])
         /\ OneActive'
<1>1. CASE profile[p].active \/ \A q \in Existing \ {p} : ~profile[q].active
  <2>1. PICK heir \in Existing \ {p} : profile' = [profile EXCEPT ![p] = Absent, ![heir].active = TRUE]
    BY <1>1 DEF Delete, Succeeded
  <2>2. heir \in Names /\ profile[heir] \in Row /\ profile[heir].is
    BY DEF Existing, Exists, IInv, TypeOK
  <2>3. PICK row : row = [profile[heir] EXCEPT !.active = TRUE] OBVIOUS
  <2>4. row \in Row /\ Alike(row, profile[heir]) /\ row.active BY <2>2, <2>3 DEF Row, Alike
  <2>5. /\ profile' \in [Names -> Row] /\ profile'[p] = Absent /\ profile'[heir] = row
        /\ \A q \in Names \ {p, heir} : profile'[q] = profile[q]
    BY <2>1, <2>2, <2>3, <2>4, Blank DEF IInv, TypeOK
  <2>6. \A q \in Names \ {p} : Alike(profile'[q], profile[q]) BY <2>4, <2>5 DEF Alike
  <2>7. ASSUME NEW q \in Names \ {heir}, profile'[q].is PROVE ~profile'[q].active
    <3>1. q # p BY <2>5, <2>7, Blank
    <3>2. profile'[q] = profile[q] /\ q \in Existing \ {p}
      BY <2>5, <2>7, <3>1 DEF Existing, Exists
    <3>3. ASSUME profile[p].active PROVE ~profile[q].active
      <4>1. p \in Existing BY DEF Delete, Existing
      <4>2. PICK a \in Existing : {x \in Existing : profile[x].active} = {a}
        BY <4>1 DEF IInv, OneActive
      <4> QED BY <3>2, <3>3, <4>1, <4>2
    <3> QED BY <1>1, <3>2, <3>3
  <2>8. OneActive' BY <2>2, <2>4, <2>5, <2>7, OneIsActive DEF Alike
  <2> QED BY <2>5, <2>6, <2>8, Blank
<1>2. CASE ~profile[p].active /\ \E q \in Existing \ {p} : profile[q].active
  <2>1. profile' = [profile EXCEPT ![p] = Absent] BY <1>2 DEF Delete
  <2>2. /\ profile' \in [Names -> Row] /\ profile'[p] = Absent
        /\ \A q \in Names \ {p} : profile'[q] = profile[q]
    BY <2>1, Blank DEF IInv, TypeOK
  <2>3. PICK a \in Existing \ {p} : profile[a].active BY <1>2
  <2>4. a \in Names /\ a # p /\ profile[a].is BY DEF Existing, Exists
  <2>5. ASSUME NEW q \in Names \ {a}, profile'[q].is PROVE ~profile'[q].active
    <3>1. q # p BY <2>2, <2>5, Blank
    <3>2. profile'[q] = profile[q] /\ q \in Existing BY <2>2, <2>5, <3>1 DEF Existing, Exists
    <3>3. PICK b \in Existing : {x \in Existing : profile[x].active} = {b}
      BY <3>2 DEF IInv, OneActive
    <3> QED BY <2>3, <2>5, <3>2, <3>3
  <2>6. OneActive' BY <2>2, <2>3, <2>4, <2>5, OneIsActive
  <2> QED BY <2>2, <2>6, Blank DEF Alike
<1> QED BY <1>1, <1>2

\* Whatever hung on the profile goes with it.
LEMMA DeleteKeeps == ASSUME IInv, NEW p \in Names, Delete(p) PROVE IInv'
<1>1. /\ profile' \in [Names -> Row] /\ ~profile'[p].is
      /\ \A q \in Names \ {p} : Alike(profile'[q], profile[q])
      /\ OneActive'
  BY DeletedRows
<1>2. ed' = [e \in Editors |-> IF ed[e].at # "ensure" /\ ed[e].of = p THEN Idle ELSE ed[e]]
  BY DEF Delete
<1>3. ed' \in [Editors -> Job] BY <1>2, Blank DEF IInv, TypeOK
<1>4. PICK none : none = [c \in Categories |-> [all |-> 0, stale |-> 0]] OBVIOUS
<1>5. none \in Told /\ \A c \in Categories : none[c].all = 0 BY <1>4 DEF Told
<1>6. told' = [told EXCEPT ![p] = none] BY <1>4 DEF Delete
<1>7. /\ told' \in [Names -> Told] /\ told'[p] = none
      /\ \A q \in Names \ {p} : told'[q] = told[q]
  BY <1>5, <1>6 DEF IInv, TypeOK
<1>8. /\ scores' = {s \in scores : s.of # p} /\ disturbed' = disturbed \ {p} BY DEF Delete
<1>9. TypeOK'
  <2>1. budget' \in [{"edits", "life", "mishaps"} -> Nat] BY Spent DEF Delete, IInv
  <2> QED BY <1>1, <1>3, <1>7, <1>8, <2>1 DEF IInv, TypeOK
<1>10. ASSUME NEW e \in Editors, ed'[e].at \notin {"idle", "ensure"}
       PROVE  /\ ed'[e] = ed[e] /\ ed[e].of \in Names \ {p} /\ profile[ed[e].of].is
              /\ Alike(profile'[ed[e].of], profile[ed[e].of])
  <2>1. ed'[e] = ed[e] /\ ed[e].of # p BY <1>2, <1>10, Blank
  <2>2. ed[e].of \in Names BY DEF IInv, TypeOK, Job
  <2>3. profile[ed[e].of].is BY <1>10, <2>1 DEF IInv, EditorsExist, Exists
  <2> QED BY <1>1, <2>1, <2>2, <2>3
<1>11. EditorsExist' BY <1>10 DEF EditorsExist, Exists, Alike
<1>12. Peace'
  <2> SUFFICES ASSUME NEW e \in Editors, Working(ed'[e]), ed'[e].alone
               PROVE  /\ \A f \in Editors \ {e} : ~(Working(ed'[f]) /\ ed'[f].of = ed'[e].of)
                      /\ HasSeen(ed'[e], profile'[ed'[e].of])
    BY DEF Peace, Working, HasSeen
  <2>1. /\ ed'[e] = ed[e] /\ Alike(profile'[ed[e].of], profile[ed[e].of])
        /\ \A f \in Editors : Working(ed'[f]) => ed'[f] = ed[f]
    BY <1>10 DEF Working
  <2>2. /\ \A f \in Editors \ {e} : ~(Working(ed[f]) /\ ed[f].of = ed[e].of)
        /\ HasSeen(ed[e], profile[ed[e].of])
    BY <2>1 DEF IInv, Peace
  <2>3. \A f \in Editors \ {e} : ~(Working(ed'[f]) /\ ed'[f].of = ed'[e].of) BY <2>1, <2>2
  <2>4. HasSeen(ed'[e], profile'[ed'[e].of]) BY <2>1, <2>2 DEF HasSeen, Alike
  <2> QED BY <2>3, <2>4
<1>13. TextIsCurrent'
  <2> SUFFICES ASSUME NEW q \in Names, profile'[q].is, q \notin disturbed',
                      \A f \in Editors : ed'[f].of = q => ~Working(ed'[f])
               PROVE  Current(profile'[q])
    BY DEF TextIsCurrent, Working, Current, Existing, Exists
  <2>1. q # p BY <1>1
  <2>2. Alike(profile'[q], profile[q]) /\ profile[q].is /\ q \notin disturbed
    BY <1>1, <1>8, <2>1 DEF Alike
  <2>3. \A f \in Editors : ed[f].of = q => ~Working(ed[f]) BY <1>2, <2>1
  <2>4. Current(profile[q])
    BY <2>2, <2>3 DEF IInv, TextIsCurrent, Working, Current, Existing, Exists
  <2> QED BY <2>2, <2>4 DEF Current, Alike
<1>14. VersionsKnown'
  <2>1. \A k \in Known' : k \in Known /\ k.of # p BY <1>8, <1>10 DEF Known
  <2>2. \A k \in Known : k.of \in Names BY DEF Known, IInv, TypeOK, Job
  <2>3. \A k \in Known' : Alike(profile'[k.of], profile[k.of]) BY <1>1, <2>1, <2>2
  <2> QED BY <2>1, <2>3 DEF IInv, VersionsKnown, Exists, Alike
<1>15. Counted'
  <2> SUFFICES ASSUME NEW q \in Names, NEW c \in Categories
               PROVE  IF profile'[q].is
                      THEN told'[q][c].stale = 0 => profile'[q].sigs[c].evidence = told'[q][c].all
                      ELSE told'[q][c].all = 0
    BY DEF Counted, Exists
  <2>1. CASE q = p BY <1>1, <1>5, <1>7, <2>1
  <2>2. CASE q # p BY <1>1, <1>7, <2>2 DEF IInv, Counted, Exists, Alike
  <2> QED BY <2>1, <2>2
<1> QED BY <1>1, <1>9, <1>11, <1>12, <1>13, <1>14, <1>15 DEF IInv

-----------------------------------------------------------------------------
(* The theorems.                                                           *)

LEMMA StutterKeeps == ASSUME IInv, UNCHANGED vars PROVE IInv'
BY DEF vars, IInv, TypeOK, EditorsExist, OneActive, Existing, Exists, Peace, Working, HasSeen,
       TextIsCurrent, VersionsKnown, Known, Counted

LEMMA StepKeeps == ASSUME IInv, [Next]_vars PROVE IInv'
<1>1. ASSUME NEW p \in Names, Create(p) PROVE IInv'
  <2>1. \E desc \in Descriptions, active \in BOOLEAN : CreateProfile(p, desc, active)
    BY <1>1 DEF Create, Descriptions
  <2>2. budget' \in [{"edits", "life", "mishaps"} -> Nat] BY <1>1, Spent DEF Create, IInv
  <2>3. UNCHANGED <<scores, ed, history>> BY <1>1 DEF Create
  <2>4. ed' \in [Editors -> Job] /\ \A e \in Editors : ed'[e] = ed[e]
    BY <2>3 DEF IInv, TypeOK
  <2>5. scores' = scores /\ disturbed' = disturbed /\ told' = told BY <2>3 DEF history
  <2> QED BY <2>1, <2>2, <2>4, <2>5, CreateKeeps
<1>2. ASSUME NEW p \in Names, Activate(p) \/ Delete(p) PROVE IInv'
  BY <1>2, ActivateKeeps, DeleteKeeps
<1>3. ASSUME NEW e \in Editors, NEW p \in Names,
             Describe(e, p) \/ AddInterest(e, p) \/ RemoveInterest(e, p) \/ React(e, p) \/ Rank(e, p)
      PROVE  IInv'
  BY <1>3, DescribeKeeps, InterestsKeep, ReactKeeps, RankKeeps
<1>4. ASSUME NEW e \in Editors, \/ LookForActive(e) \/ MakeDefault(e) \/ ReadSignals(e) \/ Learn(e)
                                \/ Load(e) \/ ReadInterests(e) \/ ReadLearned(e) \/ Write(e)
                                \/ Score(e) \/ Die(e)
      PROVE  IInv'
  BY <1>4, LookForActiveKeeps, MakeDefaultKeeps, ReadSignalsKeeps, LearnKeeps, LoadKeeps,
     ReadInterestsKeeps, ReadLearnedKeeps, WriteKeeps, ScoreKeeps, DieKeeps
<1> QED BY <1>1, <1>2, <1>3, <1>4, StutterKeeps DEF Next

LEMMA InitHolds == ASSUME Init PROVE IInv
<1>1. TypeOK BY Blank, ProfilesAssumption DEF Init, TypeOK, Told
<1>2. Existing = {} BY Blank DEF Init, Existing, Exists
<1>3. \A e \in Editors : ed[e].at = "idle" /\ ~Working(ed[e]) BY Blank DEF Init
<1>4. Known = {} BY <1>3 DEF Init, Known
<1>5. EditorsExist /\ OneActive /\ Peace /\ TextIsCurrent /\ VersionsKnown
  BY <1>2, <1>3, <1>4 DEF EditorsExist, OneActive, Peace, TextIsCurrent, VersionsKnown
<1>6. Counted BY Blank DEF Init, Counted, Exists
<1> QED BY <1>1, <1>5, <1>6 DEF IInv

LEMMA Invariance == Spec => []IInv
<1>1. Init => IInv BY InitHolds
<1>2. IInv /\ [Next]_vars => IInv' BY StepKeeps
<1> QED BY <1>1, <1>2, PTL DEF Spec

\* Every variable keeps its shape.
THEOREM TypeCorrect == Spec => []TypeOK
BY Invariance, PTL DEF IInv

\* However create, ensure, activate and delete interleave, one profile is
\* active (user_repository.py create_profile, delete_profile).
THEOREM OneIsAlwaysActive == Spec => []OneActive
BY Invariance, PTL DEF IInv

\* A ranking that took long cannot put scores of an old text under a new
\* version (user_repository.py upsert_profile_item_score, update_profile).
THEOREM VersionsNameTexts == Spec => []VersionNamesText
<1>1. IInv => VersionNamesText BY DEF IInv, VersionsKnown, Known, VersionNamesText
<1> QED BY <1>1, Invariance, PTL

\* An edit in peace leaves a text that says what the rows say
\* (profiles.py compile_profile, update_profile).
THEOREM TextsAreCurrent == Spec => []TextIsCurrent
BY Invariance, PTL DEF IInv

\* Reactions are counted unless they overlap (feedback.py).
THEOREM ReactionsAreEvidence == Spec => []ReactionsCount
<1>1. IInv => ReactionsCount BY DEF IInv, Counted, ReactionsCount, Existing
<1> QED BY <1>1, Invariance, PTL

=============================================================================
