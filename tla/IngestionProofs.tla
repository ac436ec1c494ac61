--------------------------- MODULE IngestionProofs ---------------------------
(***************************************************************************)
(* That the pipeline loses nothing unseen: cursors only grow and never     *)
(* pass a record nobody has taken, every verdict is in the journal, in a   *)
(* buffer or known to be lost, and a rank, or its absence, tells what      *)
(* happened to an item - for any number of overlapping runs, sources,      *)
(* records, failures and any limits.                                       *)
(***************************************************************************)
EXTENDS Ingestion, FiniteSetTheorems, WellFoundedInduction, TLAPS

Stages == {"idle", "poll", "gate", "save", "embed", "score", "rescue", "rank", "done", "over"}
Decisions == Records \X {"keyword", "semantic"} \X {"accepted", "borderline", "rejected"}

\* What a run holds belongs to the stage it is in.
Orderly(x) ==
  /\ x.pc \in {"idle", "embed", "score", "rescue", "rank", "done", "over"} => x.queue = {}
  /\ x.pc \in {"idle", "poll", "gate", "rank", "done", "over"} => x.picks = {}
  /\ x.pc \in {"embed", "score", "rescue"} => x.picks # {}
  /\ x.pc \notin {"rescue", "rank"} => x.pend = {}
  /\ x.pc \in {"save", "embed", "score", "rescue", "rank"} =>
       \A rec \in x.queue \cup x.picks \cup x.pend : rec.gate # "rejected"

\* A cursor is a time that has come.
CursorsInPresent == \A s \in Sources : watermark[s] <= now

\* A window that joined up with the cursor when it was planned still does.
JoinedUp(x) ==
  x.pc = "poll" =>
    \A s \in x.todo : x.joined[s] =>
      watermark[s] # Never /\ x.start[s] <= watermark[s] - Overlap

\* What a run is about to rank has been saved, and found its vector in time.
InHand(x) ==
  /\ x.picks \cup x.pend \subseteq handled
  /\ Items(x.picks \cup x.pend) \subseteq stored
  /\ x.pc \in {"score", "rescue", "rank"} => Items(x.picks \cup x.pend) \subseteq vectors

IInv ==
  /\ TypeOK
  /\ \A r \in Runs : Orderly(run[r])
  /\ CursorsInPresent
  /\ \A r \in Runs : JoinedUp(run[r])
  /\ NoSilentGap
  /\ JournalComplete
  /\ \A r \in Runs : InHand(run[r])
  /\ RankIsHonest
-----------------------------------------------------------------------------
(* What a step of one run has to account for.                              *)

\* Run r becomes x; nobody else moves.
Turns(r, x) ==
  /\ x \in RunState /\ Orderly(x)
  /\ run' = [run EXCEPT ![r] = x]
  /\ handled \subseteq handled' /\ handled' \subseteq Records
  /\ dropped \subseteq dropped' /\ dropped' \subseteq Records
  /\ passed \subseteq passed' /\ passed' \subseteq Records

\* No record leaves the hands of r but to be dealt with.
QueueAccounted(r, x) == run[r].queue \subseteq handled' \cup dropped' \cup x.queue

\* No decision leaves the buffer but to the journal or for good, and every
\* record newly dealt with has one.
JournalAccounted(r, x) ==
  /\ journal \cup lost \subseteq journal' \cup lost'
  /\ run[r].buffer \subseteq journal' \cup lost' \cup x.buffer
  /\ \A rec \in handled' \ handled :
       <<rec, "keyword", rec.gate>> \in journal' \cup lost' \cup x.buffer

\* The tables grow, what r has in hand is in them, and an item left without a
\* rank has a cause, old or new.
RanksAccounted(r, x) ==
  /\ stored \subseteq stored' /\ vectors \subseteq vectors' /\ scored \subseteq scored'
  /\ ranked \subseteq ranked' /\ ranked' \subseteq stored' \cap vectors' \cap scored'
  /\ InHand(x)'
  /\ \A item \in stored' \ ranked' :
       \/ item \in stored \ Items(run[r].picks \cup run[r].pend) /\ (item \in stuck => item \in stuck')
       \/ item \in stuck' \/ item \in Items(x.picks \cup x.pend)
       \/ \E rec \in handled' : rec.item = item /\ ~Passes(rec)

CursorsStay == now' = now /\ watermark' = watermark

LEMMA OthersStay ==
  ASSUME TypeOK, NEW r \in Runs, NEW x \in RunState, run' = [run EXCEPT ![r] = x]
  PROVE  run' \in [Runs -> RunState] /\ run'[r] = x /\ \A q \in Runs \ {r} : run'[q] = run[q]
BY DEF TypeOK

LEMMA JournalKept ==
  ASSUME TypeOK, JournalComplete, NEW r \in Runs, NEW x, Turns(r, x), JournalAccounted(r, x)
  PROVE  JournalComplete'
<1>1. run'[r] = x /\ \A q \in Runs \ {r} : run'[q] = run[q] BY OthersStay DEF Turns
<1> SUFFICES ASSUME NEW rec \in handled'
             PROVE  \/ <<rec, "keyword", rec.gate>> \in journal' \cup lost'
                    \/ \E q \in Runs : <<rec, "keyword", rec.gate>> \in run'[q].buffer
  BY DEF JournalComplete
<1>2. CASE rec \notin handled BY <1>1, <1>2 DEF JournalAccounted
<1>3. CASE rec \in handled
  <2>1. CASE <<rec, "keyword", rec.gate>> \in journal \cup lost BY <2>1 DEF JournalAccounted
  <2>2. ASSUME NEW q \in Runs, <<rec, "keyword", rec.gate>> \in run[q].buffer
        PROVE  \/ <<rec, "keyword", rec.gate>> \in journal' \cup lost'
               \/ \E p \in Runs : <<rec, "keyword", rec.gate>> \in run'[p].buffer
    <3>1. CASE q = r BY <1>1, <2>2, <3>1 DEF JournalAccounted
    <3>2. CASE q # r BY <1>1, <2>2, <3>2
    <3> QED BY <3>1, <3>2
  <2> QED BY <1>3, <2>1, <2>2 DEF JournalComplete
<1> QED BY <1>2, <1>3

LEMMA RanksKept ==
  ASSUME TypeOK, \A q \in Runs : InHand(run[q]), RankIsHonest,
         NEW r \in Runs, NEW x, Turns(r, x), RanksAccounted(r, x)
  PROVE  RankIsHonest' /\ \A q \in Runs : InHand(run[q])'
<1>1. run'[r] = x /\ \A q \in Runs \ {r} : run'[q] = run[q] BY OthersStay DEF Turns
<1>2. ASSUME NEW q \in Runs PROVE InHand(run[q])'
  <2>1. CASE q = r BY <1>1, <2>1 DEF RanksAccounted, InHand
  <2>2. CASE q # r BY <1>1, <2>2 DEF RanksAccounted, InHand, Turns
  <2> QED BY <2>1, <2>2
<1>3. ASSUME NEW item \in stored' \ ranked'
      PROVE  \/ item \in stuck'
             \/ \E q \in Runs : item \in Items(run'[q].picks \cup run'[q].pend)
             \/ \E rec \in handled' : rec.item = item /\ ~Passes(rec)
  <2>1. CASE item \in Items(x.picks \cup x.pend) BY <1>1, <2>1
  <2>2. CASE item \in stored \ Items(run[r].picks \cup run[r].pend) /\ (item \in stuck => item \in stuck')
    <3>1. item \in stored \ ranked BY <2>2 DEF RanksAccounted
    <3>2. CASE item \in stuck BY <2>2, <3>2
    <3>3. CASE \E rec \in handled : rec.item = item /\ ~Passes(rec) BY <3>3 DEF Turns
    <3>4. ASSUME NEW q \in Runs, item \in Items(run[q].picks \cup run[q].pend)
          PROVE  \E p \in Runs : item \in Items(run'[p].picks \cup run'[p].pend)
      BY <1>1, <2>2, <3>4
    <3> QED BY <3>1, <3>2, <3>3, <3>4 DEF RankIsHonest
  <2> QED BY <2>1, <2>2 DEF RanksAccounted
<1>4. ranked' \subseteq stored' \cap vectors' \cap scored' BY DEF RanksAccounted
<1> QED BY <1>2, <1>3, <1>4 DEF RankIsHonest

LEMMA GapKept ==
  ASSUME TypeOK, CursorsInPresent, NoSilentGap, NEW r \in Runs, NEW x,
         \A q \in Runs : JoinedUp(run[q]), JoinedUp(x),
         Turns(r, x), QueueAccounted(r, x), CursorsStay
  PROVE  CursorsInPresent' /\ NoSilentGap' /\ \A q \in Runs : JoinedUp(run[q])'
<1>1. run'[r] = x /\ \A q \in Runs \ {r} : run'[q] = run[q] BY OthersStay DEF Turns
<1>2. CursorsInPresent' BY DEF CursorsInPresent, CursorsStay
<1>3. ASSUME NEW q \in Runs PROVE JoinedUp(run[q])'
  <2>1. JoinedUp(run'[q]) BY <1>1
  <2> QED BY <2>1 DEF JoinedUp, CursorsStay
<1>4. ASSUME NEW rec \in Records, rec.shown <= now, rec.shown <= rec.date + Overlap
      PROVE  \/ rec \in handled' \cup dropped' \cup passed'
             \/ \E q \in Runs : rec \in run'[q].queue
             \/ watermark[rec.source] = Never
             \/ watermark[rec.source] - Overlap <= rec.date
  <2>1. ASSUME NEW q \in Runs, rec \in run[q].queue
        PROVE  rec \in handled' \cup dropped' \/ \E p \in Runs : rec \in run'[p].queue
    <3>1. CASE q = r BY <1>1, <2>1, <3>1 DEF QueueAccounted
    <3>2. CASE q # r BY <1>1, <2>1, <3>2
    <3> QED BY <3>1, <3>2
  <2> QED BY <1>4, <2>1 DEF NoSilentGap, Turns
<1>5. NoSilentGap' BY <1>4 DEF NoSilentGap, CursorsStay
<1> QED BY <1>2, <1>3, <1>5

LEMMA TypesKept ==
  ASSUME TypeOK, \A q \in Runs : Orderly(run[q]), NEW r \in Runs, NEW x, Turns(r, x),
         now' \in 0..MaxTime, watermark' \in [Sources -> Times]
  PROVE  TypeOK' /\ \A q \in Runs : Orderly(run[q])'
<1>1. /\ run' \in [Runs -> RunState] /\ run'[r] = x
      /\ \A q \in Runs \ {r} : run'[q] = run[q]
  BY OthersStay DEF Turns
<1>2. \A q \in Runs : Orderly(run'[q]) BY <1>1 DEF Turns
<1>3. \A q \in Runs : Orderly(run[q])' BY <1>2 DEF Orderly
<1>4. \A q \in Runs : run'[q].pc \in {"save", "embed", "score", "rescue", "rank"} =>
        \A rec \in run'[q].queue \cup run'[q].picks \cup run'[q].pend : rec.gate # "rejected"
  BY <1>2 DEF Orderly
<1> QED BY <1>1, <1>3, <1>4 DEF TypeOK, Turns

\* A step that moves no cursor keeps everything if it accounts for everything.
LEMMA TurnKeeps ==
  ASSUME IInv, NEW r \in Runs, NEW x, Turns(r, x), JoinedUp(x), CursorsStay,
         QueueAccounted(r, x), JournalAccounted(r, x), RanksAccounted(r, x)
  PROVE  IInv'
<1>1. TypeOK' /\ \A q \in Runs : Orderly(run[q])' BY TypesKept DEF IInv, TypeOK, CursorsStay
<1>2. CursorsInPresent' /\ NoSilentGap' /\ \A q \in Runs : JoinedUp(run[q])' BY GapKept DEF IInv
<1>3. JournalComplete' BY JournalKept DEF IInv
<1>4. RankIsHonest' /\ \A q \in Runs : InHand(run[q])' BY RanksKept DEF IInv
<1> QED BY <1>1, <1>2, <1>3, <1>4 DEF IInv

LEMMA Busied ==
  ASSUME TypeOK, NEW r \in Runs
  PROVE  /\ run[r] \in RunState /\ run[r].pc \in Stages
         /\ run[r].queue \subseteq Records /\ run[r].picks \subseteq Records
         /\ run[r].pend \subseteq Records /\ run[r].buffer \subseteq Decisions
BY DEF TypeOK, RunState, Stages, Decisions

-----------------------------------------------------------------------------
(* The steps of a run.                                                     *)

LEMMA RestingFits ==
  /\ Resting \in RunState /\ Resting.pc = "idle" /\ Resting.queue = {} /\ Resting.picks = {}
  /\ Resting.pend = {} /\ Resting.buffer = {}
BY DEF Resting, RunState, Never

\* A run that comes to rest keeps nothing but its buffer.
Rests(x) ==
  /\ x \in RunState /\ x.pc \in {"idle", "over"}
  /\ x.queue = {} /\ x.picks = {} /\ x.pend = {}

LEMMA OverRests ==
  ASSUME NEW B \in SUBSET Decisions, NEW x, x = [Resting EXCEPT !.pc = "over", !.buffer = B]
  PROVE  Rests(x) /\ x.buffer = B
BY RestingFits DEF Rests, RunState, Decisions

LEMMA RestingTurns ==
  ASSUME IInv, NEW r \in Runs, NEW x, Rests(x), run' = [run EXCEPT ![r] = x],
         now' = now, watermark' = watermark, stored' = stored, vectors' = vectors,
         ranked' = ranked, scored \subseteq scored', handled' = handled,
         passed' = passed, dropped' = dropped \cup run[r].queue,
         stuck' = stuck \cup Items(run[r].picks \cup run[r].pend),
         JournalAccounted(r, x)
  PROVE  IInv'
<1>1. /\ x \in RunState /\ x.pc \in {"idle", "over"} /\ x.queue = {} /\ x.picks = {} /\ x.pend = {}
  BY DEF Rests
<1>2. Turns(r, x)
  <2>1. Orderly(x) BY <1>1 DEF Orderly
  <2> QED BY <1>1, <2>1, Busied DEF Turns, IInv, TypeOK
<1>3. JoinedUp(x) BY <1>1 DEF JoinedUp
<1>4. QueueAccounted(r, x) BY DEF QueueAccounted
<1>5. RanksAccounted(r, x)
  <2>1. Items(x.picks \cup x.pend) = {} BY <1>1 DEF Items
  <2>2. InHand(x)' BY <1>1, <2>1 DEF InHand
  <2>3. ranked' \subseteq stored' \cap vectors' \cap scored' BY DEF IInv, RankIsHonest
  <2> QED BY <2>1, <2>2, <2>3 DEF RanksAccounted
<1> QED BY <1>2, <1>3, <1>4, <1>5, TurnKeeps DEF CursorsStay

LEMMA CrashKeeps == ASSUME IInv, NEW r \in Runs, Crash(r) PROVE IInv'
<1>1. PICK x : x = Resting OBVIOUS
<1>2. Rests(x) BY <1>1, RestingFits DEF Rests
<1>3. JournalAccounted(r, x) BY DEF Crash, JournalAccounted
<1>4. /\ now' = now /\ watermark' = watermark /\ stored' = stored /\ vectors' = vectors
      /\ ranked' = ranked /\ scored' = scored /\ handled' = handled
      /\ passed' = passed
  BY DEF Crash, tables
<1>5. /\ dropped' = dropped \cup run[r].queue
      /\ stuck' = stuck \cup Items(run[r].picks \cup run[r].pend)
      /\ run' = [run EXCEPT ![r] = x]
  BY <1>1 DEF Crash
<1> QED BY <1>2, <1>3, <1>4, <1>5, RestingTurns

LEMMA RaisesKeeps == ASSUME IInv, NEW r \in Runs, Raises(r) PROVE IInv'
<1>1. PICK x : x = [Resting EXCEPT !.pc = "over", !.buffer = run[r].buffer] OBVIOUS
<1>2. Rests(x) /\ x.buffer = run[r].buffer BY <1>1, OverRests, Busied DEF IInv
<1>3. JournalAccounted(r, x) BY <1>2 DEF Raises, JournalAccounted
<1>4. /\ scored \subseteq scored' /\ run' = [run EXCEPT ![r] = x] BY <1>1 DEF Raises
<1> QED BY <1>2, <1>3, <1>4, RestingTurns DEF Raises

LEMMA CloseKeeps == ASSUME IInv, NEW r \in Runs, Close(r) PROVE IInv'
<1>1. PICK x : x = Resting OBVIOUS
<1>2. Rests(x) BY <1>1, RestingFits DEF Rests
<1>3. JournalAccounted(r, x) BY DEF Close, LastBatch, JournalAccounted
<1>4. run[r].queue = {} /\ run[r].picks = {} /\ run[r].pend = {}
  BY DEF Close, IInv, Orderly
<1>5. /\ dropped' = dropped \cup run[r].queue
      /\ stuck' = stuck \cup Items(run[r].picks \cup run[r].pend)
      /\ run' = [run EXCEPT ![r] = x]
  BY <1>1, <1>4 DEF Close, Items
<1>6. /\ now' = now /\ watermark' = watermark /\ stored' = stored /\ vectors' = vectors
      /\ ranked' = ranked /\ scored' = scored /\ handled' = handled
      /\ passed' = passed
  BY DEF Close, tables
<1> QED BY <1>2, <1>3, <1>5, <1>6, RestingTurns

LEMMA EndGateKeeps == ASSUME IInv, NEW r \in Runs, EndGate(r) PROVE IInv'
<1>1. PICK x : x = [run[r] EXCEPT !.pc = IF run[r].queue = {} THEN "done" ELSE "save"] OBVIOUS
<1>2. run[r] \in RunState /\ run[r].pc = "gate" /\ run[r].picks = {} /\ run[r].pend = {}
  BY Busied DEF EndGate, Judged, IInv, Orderly
<1>3. /\ x \in RunState /\ x.queue = run[r].queue /\ x.buffer = run[r].buffer
      /\ x.picks = {} /\ x.pend = {}
      /\ x.pc = IF run[r].queue = {} THEN "done" ELSE "save"
  BY <1>1, <1>2 DEF RunState
<1>4. UNCHANGED <<now, watermark, tables, journal, history>> /\ run' = [run EXCEPT ![r] = x]
  BY <1>1 DEF EndGate
<1>5. Turns(r, x)
  <2>1. Orderly(x) BY <1>3 DEF Orderly, EndGate, Judged
  <2> QED BY <1>3, <1>4, <2>1 DEF Turns, history, IInv, TypeOK
<1>6. JoinedUp(x) /\ CursorsStay BY <1>3, <1>4 DEF JoinedUp, CursorsStay
<1>7. QueueAccounted(r, x) BY <1>3 DEF QueueAccounted
<1>8. JournalAccounted(r, x) BY <1>3, <1>4 DEF JournalAccounted, history
<1>9. RanksAccounted(r, x)
  <2>1. Items(x.picks \cup x.pend) = {} BY <1>3 DEF Items
  <2>2. InHand(x)' BY <1>3, <2>1 DEF InHand
  <2>3. Items(run[r].picks \cup run[r].pend) = {} BY <1>2 DEF Items
  <2> QED BY <1>4, <2>1, <2>2, <2>3 DEF RanksAccounted, tables, history, IInv, RankIsHonest
<1> QED BY <1>5, <1>6, <1>7, <1>8, <1>9, TurnKeeps

LEMMA SaveFailsKeeps ==
  ASSUME IInv, NEW r \in Runs, NEW rec \in Records, SaveFails(r, rec) PROVE IInv'
<1>1. PICK x : x = [run[r] EXCEPT !.queue = @ \ {rec},
                                  !.pc = IF run[r].queue = {rec} THEN Stage(r) ELSE "save"] OBVIOUS
<1>2. run[r] \in RunState /\ run[r].pc = "save" /\ run[r].pend = {} /\ rec \in run[r].queue
  BY Busied DEF SaveFails, IInv, Orderly
<1>3. /\ x \in RunState /\ x.queue = run[r].queue \ {rec} /\ x.buffer = run[r].buffer
      /\ x.picks = run[r].picks /\ x.pend = {}
      /\ x.pc = IF run[r].queue = {rec} THEN Stage(r) ELSE "save"
  BY <1>1, <1>2 DEF RunState, Stage
<1>4. /\ UNCHANGED <<now, watermark, tables, journal, handled, passed, lost, stuck>>
      /\ run' = [run EXCEPT ![r] = x] /\ dropped' = dropped \cup {rec}
  BY <1>1, <1>2 DEF SaveFails, IInv, TypeOK
<1>5. Turns(r, x)
  <2>1. Orderly(x) BY <1>2, <1>3 DEF Orderly, IInv, Stage
  <2> QED BY <1>3, <1>4, <2>1 DEF Turns, IInv, TypeOK
<1>6. JoinedUp(x) /\ CursorsStay BY <1>3, <1>4 DEF JoinedUp, CursorsStay, Stage
<1>7. QueueAccounted(r, x) BY <1>3, <1>4 DEF QueueAccounted
<1>8. JournalAccounted(r, x) BY <1>3, <1>4 DEF JournalAccounted
<1>9. RanksAccounted(r, x)
  <2>1. InHand(run[r]) BY DEF IInv
  <2>2. InHand(x)' BY <1>2, <1>3, <1>4, <2>1 DEF InHand, tables, Stage
  <2>3. x.picks \cup x.pend = run[r].picks \cup run[r].pend BY <1>2, <1>3
  <2> QED BY <1>4, <2>2, <2>3 DEF RanksAccounted, tables, IInv, RankIsHonest
<1> QED BY <1>5, <1>6, <1>7, <1>8, <1>9, TurnKeeps

LEMMA EmbedKeeps == ASSUME IInv, NEW r \in Runs, Embed(r) PROVE IInv'
<1>1. PICK x : x = [run[r] EXCEPT !.pc = "score"] OBVIOUS
<1>2. run[r] \in RunState /\ run[r].pc = "embed" /\ run[r].pend = {} /\ run[r].queue = {}
  BY Busied DEF Embed, IInv, Orderly
<1>3. /\ x \in RunState /\ x.queue = {} /\ x.buffer = run[r].buffer
      /\ x.picks = run[r].picks /\ x.pend = {} /\ x.pc = "score"
  BY <1>1, <1>2 DEF RunState
<1>4. /\ UNCHANGED <<now, watermark, stored, scored, ranked, journal, history>>
      /\ run' = [run EXCEPT ![r] = x] /\ vectors' = vectors \cup Items(run[r].picks)
  BY <1>1 DEF Embed, Embedded
<1>5. Turns(r, x)
  <2>1. Orderly(x) BY <1>2, <1>3 DEF Orderly, IInv
  <2> QED BY <1>3, <1>4, <2>1 DEF Turns, history, IInv, TypeOK
<1>6. JoinedUp(x) /\ CursorsStay BY <1>3, <1>4 DEF JoinedUp, CursorsStay
<1>7. QueueAccounted(r, x) BY <1>2 DEF QueueAccounted
<1>8. JournalAccounted(r, x) BY <1>3, <1>4 DEF JournalAccounted, history
<1>9. RanksAccounted(r, x)
  <2>1. InHand(run[r]) BY DEF IInv
  <2>2. x.picks \cup x.pend = run[r].picks \cup run[r].pend /\ x.picks \cup x.pend = run[r].picks
    BY <1>2, <1>3
  <2>3. InHand(x)' BY <1>4, <2>1, <2>2 DEF InHand, history
  <2> QED BY <1>4, <2>2, <2>3 DEF RanksAccounted, history, IInv, RankIsHonest
<1> QED BY <1>5, <1>6, <1>7, <1>8, <1>9, TurnKeeps

LEMMA ScoreKeeps == ASSUME IInv, NEW r \in Runs, Score(r) PROVE IInv'
<1>1. PICK x : x = [run[r] EXCEPT !.pc = "rescue"] OBVIOUS
<1>2. run[r] \in RunState /\ run[r].pc = "score" /\ run[r].queue = {}
  BY Busied DEF Score, IInv, Orderly
<1>3. /\ x \in RunState /\ x.queue = {} /\ x.buffer = run[r].buffer
      /\ x.picks = run[r].picks /\ x.pend = run[r].pend /\ x.pc = "rescue"
  BY <1>1, <1>2 DEF RunState
<1>4. /\ UNCHANGED <<now, watermark, stored, vectors, ranked, journal, history>>
      /\ run' = [run EXCEPT ![r] = x] /\ scored' = scored \cup Items(run[r].picks)
  BY <1>1 DEF Score
<1>5. Turns(r, x)
  <2>1. Orderly(x) BY <1>2, <1>3 DEF Orderly, IInv
  <2> QED BY <1>3, <1>4, <2>1 DEF Turns, history, IInv, TypeOK
<1>6. JoinedUp(x) /\ CursorsStay BY <1>3, <1>4 DEF JoinedUp, CursorsStay
<1>7. QueueAccounted(r, x) BY <1>2 DEF QueueAccounted
<1>8. JournalAccounted(r, x) BY <1>3, <1>4 DEF JournalAccounted, history
<1>9. RanksAccounted(r, x)
  <2>1. InHand(run[r]) BY DEF IInv
  <2>2. InHand(x)' BY <1>2, <1>3, <1>4, <2>1 DEF InHand, history
  <2> QED BY <1>3, <1>4, <2>2 DEF RanksAccounted, history, IInv, RankIsHonest
<1> QED BY <1>5, <1>6, <1>7, <1>8, <1>9, TurnKeeps

\* A record leaves the queue of the ranking, ranked or not.
LEMMA RankLeaves ==
  ASSUME IInv, NEW r \in Runs, NEW rec \in Records, run[r].pc = "rank", rec \in run[r].pend,
         run' = [run EXCEPT ![r].pend = @ \ {rec},
                            ![r].pc = IF run[r].pend = {rec} THEN "done" ELSE "rank"],
         UNCHANGED <<now, watermark, stored, vectors, journal, handled, dropped, passed, lost>>,
         scored \subseteq scored', ranked \subseteq ranked',
         ranked' \subseteq stored' \cap vectors' \cap scored',
         stuck \subseteq stuck', rec.item \in ranked' \cup stuck'
  PROVE  IInv'
<1>1. PICK x : x = [run[r] EXCEPT !.pend = @ \ {rec},
                                  !.pc = IF run[r].pend = {rec} THEN "done" ELSE "rank"] OBVIOUS
<1>2. run[r] \in RunState /\ run[r].queue = {} /\ run[r].picks = {}
  BY Busied DEF IInv, Orderly
<1>3. /\ x \in RunState /\ x.queue = {} /\ x.buffer = run[r].buffer
      /\ x.picks = {} /\ x.pend = run[r].pend \ {rec}
      /\ x.pc = IF run[r].pend = {rec} THEN "done" ELSE "rank"
  BY <1>1, <1>2 DEF RunState
<1>4. run' = [run EXCEPT ![r] = x] BY <1>1 DEF IInv, TypeOK
<1>5. Turns(r, x)
  <2>1. Orderly(x) BY <1>2, <1>3 DEF Orderly, IInv
  <2> QED BY <1>3, <1>4, <2>1 DEF Turns, IInv, TypeOK
<1>6. JoinedUp(x) /\ CursorsStay BY <1>3 DEF JoinedUp, CursorsStay
<1>7. QueueAccounted(r, x) BY <1>2 DEF QueueAccounted
<1>8. JournalAccounted(r, x) BY <1>3 DEF JournalAccounted
<1>9. RanksAccounted(r, x)
  <2>1. InHand(run[r]) BY DEF IInv
  <2>2. Items(x.picks \cup x.pend) \subseteq Items(run[r].picks \cup run[r].pend) BY <1>2, <1>3 DEF Items
  <2>3. InHand(x)' BY <1>2, <1>3, <2>1, <2>2 DEF InHand
  <2>4. ASSUME NEW item \in stored' \ ranked', item \in Items(run[r].picks \cup run[r].pend)
        PROVE  item \in stuck' \cup Items(x.picks \cup x.pend)
    BY <1>2, <1>3, <2>4 DEF Items
  <2> QED BY <2>3, <2>4 DEF RanksAccounted
<1> QED BY <1>5, <1>6, <1>7, <1>8, <1>9, TurnKeeps

LEMMA RankKeeps ==
  ASSUME IInv, NEW r \in Runs, NEW rec \in Records, Rank(r, rec) \/ RankFails(r, rec)
  PROVE  IInv'
<1>1. run[r].pc = "rank" /\ rec \in run[r].pend BY DEF Rank, RankFails
<1>2. rec.item \in stored \cap vectors
  <2>1. InHand(run[r]) BY DEF IInv
  <2> QED BY <1>1, <2>1 DEF InHand, Items
<1>3. ranked \subseteq stored \cap vectors \cap scored BY DEF IInv, RankIsHonest
<1>4. CASE Rank(r, rec) BY <1>1, <1>2, <1>3, <1>4, RankLeaves DEF Rank, history
<1>5. CASE RankFails(r, rec)
  <2>1. UNCHANGED <<now, watermark, tables, journal, handled, dropped, passed, lost>> BY <1>5 DEF RankFails
  <2> QED BY <1>1, <1>3, <1>5, <2>1, RankLeaves DEF RankFails, tables
<1> QED BY <1>4, <1>5

-----------------------------------------------------------------------------
(* Steps that write a decision down.                                       *)

\* The work of a step that ends with Record: the run would be y if its buffer
\* is written or not full.
Worked(r, decision, y, again) ==
  /\ y \in RunState /\ y.pc # "poll" /\ y.buffer = run[r].buffer /\ Orderly(y)
  /\ CursorsStay /\ UNCHANGED passed
  /\ handled \subseteq handled' /\ handled' \subseteq Records
  /\ run[r].queue \subseteq handled' \cup y.queue
  /\ \A rec \in handled' \ handled : <<rec, "keyword", rec.gate>> = decision
  /\ stored \subseteq stored' /\ UNCHANGED <<vectors, scored, ranked>>
  /\ InHand(y)'
  /\ \A item \in stored' \ ranked' :
       \/ item \in stored \ Items(run[r].picks \cup run[r].pend) /\ item \notin again
       \/ item \in Items(y.picks \cup y.pend)
       \/ \E rec \in handled' : rec.item = item /\ ~Passes(rec)

\* The decision is in the buffer or, with the buffer, in the journal.
LEMMA WrittenDown ==
  ASSUME IInv, NEW r \in Runs, NEW decision \in Decisions, NEW y, NEW again,
         Worked(r, decision, y, again),
         NEW B \in SUBSET Decisions, NEW x, x = [y EXCEPT !.buffer = B],
         run' = [run EXCEPT ![r] = x],
         journal \subseteq journal', run[r].buffer \cup {decision} \subseteq journal' \cup B,
         lost' = lost, dropped' = dropped, stuck' = stuck \ again
  PROVE  IInv'
<1>1. /\ x \in RunState /\ x.pc = y.pc /\ x.queue = y.queue /\ x.picks = y.picks
      /\ x.pend = y.pend /\ x.buffer = B
  BY DEF Worked, RunState, Decisions
<1>2. Turns(r, x)
  <2>1. Orderly(x) BY <1>1 DEF Orderly, Worked
  <2> QED BY <1>1, <2>1 DEF Turns, Worked, IInv, TypeOK
<1>3. JoinedUp(x) BY <1>1 DEF JoinedUp, Worked
<1>4. CursorsStay BY DEF Worked
<1>5. QueueAccounted(r, x) BY <1>1 DEF QueueAccounted, Worked
<1>6. JournalAccounted(r, x) BY <1>1 DEF JournalAccounted, Worked
<1>7. RanksAccounted(r, x)
  <2>1. InHand(x)' BY <1>1 DEF Worked, InHand
  <2>2. ranked' \subseteq stored' \cap vectors' \cap scored' BY DEF Worked, IInv, RankIsHonest
  <2> QED BY <1>1, <2>1, <2>2 DEF RanksAccounted, Worked
<1> QED BY <1>2, <1>3, <1>4, <1>5, <1>6, <1>7, TurnKeeps

\* The flush fails and takes the run with it.
LEMMA FlushFails ==
  ASSUME IInv, NEW r \in Runs, NEW decision \in Decisions, NEW y, NEW again,
         Worked(r, decision, y, again), NEW x, Rests(x), run' = [run EXCEPT ![r] = x],
         journal' = journal, lost' = lost \cup run[r].buffer \cup {decision},
         dropped' = dropped \cup y.queue,
         stuck' = stuck \cup Items(y.picks \cup y.pend)
  PROVE  IInv'
<1>1. /\ x \in RunState /\ x.pc \in {"idle", "over"} /\ x.queue = {} /\ x.picks = {} /\ x.pend = {}
  BY DEF Rests
<1>2. Turns(r, x)
  <2>1. Orderly(x) BY <1>1 DEF Orderly
  <2>2. y.queue \subseteq Records BY DEF Worked, RunState
  <2> QED BY <1>1, <2>1, <2>2 DEF Turns, Worked, IInv, TypeOK
<1>3. JoinedUp(x) BY <1>1 DEF JoinedUp
<1>4. CursorsStay BY DEF Worked
<1>5. QueueAccounted(r, x) BY <1>1 DEF QueueAccounted, Worked
<1>6. JournalAccounted(r, x) BY <1>1 DEF JournalAccounted, Worked
<1>7. RanksAccounted(r, x)
  <2>1. InHand(x)' BY <1>1 DEF InHand, Items
  <2>2. ranked' \subseteq stored' \cap vectors' \cap scored' BY DEF Worked, IInv, RankIsHonest
  <2> QED BY <1>1, <2>1, <2>2 DEF RanksAccounted, Worked
<1> QED BY <1>2, <1>3, <1>4, <1>5, <1>6, <1>7, TurnKeeps

LEMMA RecordKeeps ==
  ASSUME IInv, NEW r \in Runs, NEW decision \in Decisions, NEW after \in RunState,
         NEW pc \in Stages \ {"poll"}, NEW again, Record(r, decision, after, pc, again),
         NEW y, y = [after EXCEPT !.pc = pc], Worked(r, decision, y, again)
  PROVE  IInv'
<1> DEFINE batch == run[r].buffer \cup {decision}
           full == Cardinality(batch) >= BatchSize
<1>1. /\ y \in RunState /\ y.queue = after.queue /\ y.picks = after.picks /\ y.pend = after.pend
      /\ y.buffer = run[r].buffer
  BY DEF Worked, RunState
<1>2. batch \in SUBSET Decisions BY Busied DEF IInv
<1>3. ASSUME run' = [run EXCEPT ![r] = [after EXCEPT !.pc = pc, !.buffer = IF full THEN {} ELSE batch]],
             journal' = IF full THEN journal \cup batch ELSE journal,
             UNCHANGED <<failures, lost>>, dropped' = dropped, stuck' = stuck \ again
      PROVE  IInv'
  <2>1. PICK B : B = IF full THEN {} ELSE batch OBVIOUS
  <2>2. PICK x : x = [y EXCEPT !.buffer = B] OBVIOUS
  <2>3. [after EXCEPT !.pc = pc, !.buffer = B] = [[after EXCEPT !.pc = pc] EXCEPT !.buffer = B] OBVIOUS
  <2>4. x = [after EXCEPT !.pc = pc, !.buffer = B] BY <2>2, <2>3
  <2>5. run' = [run EXCEPT ![r] = x] BY <1>3, <2>1, <2>4
  <2>6. B \in SUBSET Decisions BY <1>2, <2>1
  <2>7. journal \subseteq journal' /\ batch \subseteq journal' \cup B BY <1>3, <2>1
  <2> HIDE DEF batch, full
  <2> QED BY <1>3, <2>2, <2>5, <2>6, <2>7, WrittenDown DEF batch
<1>4. ASSUME run' = [run EXCEPT ![r] = [Resting EXCEPT !.pc = "over"]],
             lost' = lost \cup batch, dropped' = dropped \cup after.queue,
             stuck' = stuck \cup Items(after.picks \cup after.pend), UNCHANGED journal
      PROVE  IInv'
  <2>1. PICK x : x = [Resting EXCEPT !.pc = "over"] OBVIOUS
  <2>2. Rests(x) BY <2>1, RestingFits DEF Rests, RunState
  <2>3. run' = [run EXCEPT ![r] = x] BY <1>4, <2>1
  <2>4. lost' = lost \cup run[r].buffer \cup {decision} BY <1>4
  <2>5. dropped' = dropped \cup y.queue /\ stuck' = stuck \cup Items(y.picks \cup y.pend) BY <1>1, <1>4
  <2> QED BY <1>4, <2>2, <2>3, <2>4, <2>5, FlushFails
<1> QED BY <1>3, <1>4 DEF Record

LEMMA KeywordDecision ==
  ASSUME NEW rec \in Records PROVE <<rec, "keyword", rec.gate>> \in Decisions
BY IngestionAssumption DEF Decisions

LEMMA RejectKeeps ==
  ASSUME IInv, NEW r \in Runs, NEW rec \in Records, Reject(r, rec) PROVE IInv'
<1> DEFINE after == [run[r] EXCEPT !.queue = @ \ {rec}]
<1>1. /\ run[r] \in RunState /\ run[r].pc = "gate" /\ run[r].picks = {} /\ run[r].pend = {}
      /\ run[r].queue \subseteq Records
  BY Busied DEF Reject, IInv, Orderly
<1>2. rec \in run[r].queue /\ rec.gate = "rejected" BY DEF Reject, First
<1>3. after \in RunState BY <1>1 DEF RunState
<1>4. PICK y : y = [after EXCEPT !.pc = "gate"] OBVIOUS
<1>5. /\ y \in RunState /\ y.pc = "gate" /\ y.queue = run[r].queue \ {rec} /\ y.picks = {} /\ y.pend = {}
      /\ y.buffer = run[r].buffer
  BY <1>1, <1>4 DEF RunState
<1>6. UNCHANGED <<now, watermark, tables, passed>> /\ handled' = handled \cup {rec} BY DEF Reject
<1>7. Worked(r, <<rec, "keyword", "rejected">>, y, {})
  <2>1. Orderly(y) BY <1>5 DEF Orderly
  <2>2. InHand(y)' BY <1>5 DEF InHand, Items
  <2>3. handled' \subseteq Records BY <1>6 DEF IInv, TypeOK
  <2>4. Items(run[r].picks \cup run[r].pend) = {} BY <1>1 DEF Items
  <2>5. UNCHANGED <<stored, vectors, scored, ranked>> BY <1>6 DEF tables
  <2>6. run[r].queue \subseteq handled' \cup y.queue BY <1>5, <1>6
  <2> QED BY <1>2, <1>5, <1>6, <2>1, <2>2, <2>3, <2>4, <2>5, <2>6 DEF Worked, CursorsStay
<1>8. <<rec, "keyword", "rejected">> \in Decisions BY <1>2, KeywordDecision
<1>9. Record(r, <<rec, "keyword", "rejected">>, after, "gate", {}) BY DEF Reject
<1> QED BY <1>3, <1>4, <1>7, <1>8, <1>9, RecordKeeps DEF Stages

\* Whoever represents an item, the item is represented.
LEMMA Represented ==
  ASSUME NEW picks \in SUBSET Records, NEW rec \in Records
  PROVE  /\ Represent(picks, rec) \subseteq picks \cup {rec}
         /\ Items(Represent(picks, rec)) = Items(picks) \cup {rec.item}
<1> DEFINE rivals == {p \in picks : p.item = rec.item}
<1>1. CASE \A p \in rivals : rec.size > p.size
  <2>1. Represent(picks, rec) = (picks \ rivals) \cup {rec} BY <1>1 DEF Represent
  <2> QED BY <2>1 DEF Items
<1>2. CASE \E p \in rivals : ~(rec.size > p.size)
  <2>1. Represent(picks, rec) = picks BY <1>2 DEF Represent
  <2>2. rec.item \in Items(picks) BY <1>2 DEF Items
  <2> QED BY <2>1, <2>2
<1> QED BY <1>1, <1>2

LEMMA SaveKeeps ==
  ASSUME IInv, NEW r \in Runs, NEW rec \in Records, Save(r, rec) PROVE IInv'
<1> DEFINE picks == IF WorthRanking(rec.item) THEN Represent(run[r].picks, rec) ELSE run[r].picks
           after == [run[r] EXCEPT !.queue = @ \ {rec},
                       !.picks = IF WorthRanking(rec.item) THEN Represent(@, rec) ELSE @]
           pc == IF after.queue # {} THEN "save" ELSE IF after.picks = {} THEN "done" ELSE "embed"
<1>1. /\ run[r] \in RunState /\ run[r].pc = "save" /\ run[r].pend = {} /\ rec \in run[r].queue
      /\ run[r].picks \subseteq Records
  BY Busied DEF Save, IInv, Orderly
<1>2. /\ picks \subseteq run[r].picks \cup {rec} /\ picks \subseteq Records
      /\ Items(picks) \subseteq Items(run[r].picks) \cup {rec.item}
      /\ Items(run[r].picks) \subseteq Items(picks)
      /\ WorthRanking(rec.item) => rec.item \in Items(picks)
  BY <1>1, Represented
<1> HIDE DEF picks
<1>3. after = [run[r] EXCEPT !.queue = @ \ {rec}, !.picks = picks] BY DEF picks
<1>4. /\ after \in RunState /\ after.queue = run[r].queue \ {rec} /\ after.picks = picks
      /\ after.pend = {} /\ after.buffer = run[r].buffer
  BY <1>1, <1>2, <1>3 DEF RunState
<1> HIDE DEF after
<1>5. PICK y : y = [after EXCEPT !.pc = pc] OBVIOUS
<1>6. /\ y \in RunState /\ y.queue = run[r].queue \ {rec} /\ y.picks = picks /\ y.pend = {}
      /\ y.buffer = run[r].buffer /\ y.pc = pc
  BY <1>4, <1>5 DEF RunState
<1>7. /\ UNCHANGED <<now, watermark, scored, vectors, ranked, passed>>
      /\ handled' = handled \cup {rec} /\ stored' = stored \cup {rec.item}
  BY DEF Save
<1>8. Worked(r, <<rec, "keyword", rec.gate>>, y, {rec.item})
  <2>1. Orderly(y) BY <1>1, <1>2, <1>4, <1>6 DEF Orderly, IInv
  <2>2. InHand(run[r]) BY DEF IInv
  <2>3. y.picks \cup y.pend = picks BY <1>6
  <2>4. Items(run[r].picks \cup run[r].pend) = Items(run[r].picks) BY <1>1 DEF Items
  <2>5. InHand(y)' BY <1>1, <1>2, <1>6, <1>7, <2>2, <2>3, <2>4 DEF InHand
  <2>6. handled' \subseteq Records BY <1>7 DEF IInv, TypeOK
  <2>7. run[r].queue \subseteq handled' \cup y.queue BY <1>6, <1>7
  <2>8. ASSUME NEW item \in stored' \ ranked'
        PROVE  \/ item \in stored \ Items(run[r].picks \cup run[r].pend) /\ item \notin {rec.item}
               \/ item \in Items(y.picks \cup y.pend)
    BY <1>2, <1>7, <2>3, <2>4, <2>8 DEF WorthRanking
  <2>9. \A q \in handled' \ handled : <<q, "keyword", q.gate>> = <<rec, "keyword", rec.gate>>
    BY <1>7
  <2> QED BY <1>6, <1>7, <2>1, <2>5, <2>6, <2>7, <2>8, <2>9 DEF Worked, CursorsStay
<1>9. Record(r, <<rec, "keyword", rec.gate>>, after, pc, {rec.item}) BY DEF Save, after
<1> QED BY <1>4, <1>5, <1>8, <1>9, KeywordDecision, RecordKeeps DEF Stages

LEMMA MatchKeeps ==
  ASSUME IInv, NEW r \in Runs, NEW rec \in Records, Match(r, rec) PROVE IInv'
<1> DEFINE pend == IF Passes(rec) THEN run[r].pend \cup {rec} ELSE run[r].pend
           after == [run[r] EXCEPT !.picks = @ \ {rec},
                                   !.pend = IF Passes(rec) THEN @ \cup {rec} ELSE @]
           pc == IF after.picks # {} THEN "rescue" ELSE IF after.pend = {} THEN "done" ELSE "rank"
           verdict == IF rec.sem >= BorderlineThreshold THEN "accepted" ELSE "rejected"
           decision == <<rec, "semantic", verdict>>
<1>1. /\ run[r] \in RunState /\ run[r].pc = "rescue" /\ run[r].queue = {}
      /\ run[r].picks \subseteq Records /\ run[r].pend \subseteq Records
  BY Busied DEF Match, IInv, Orderly
<1>2. rec \in run[r].picks BY <1>1 DEF Match, First, IInv, Orderly
<1>3. after = [run[r] EXCEPT !.picks = @ \ {rec}, !.pend = pend] OBVIOUS
<1>4. pend \subseteq run[r].pend \cup {rec} /\ (Passes(rec) => rec \in pend) /\ run[r].pend \subseteq pend
  OBVIOUS
<1> HIDE DEF pend
<1>5. /\ after \in RunState /\ after.queue = {} /\ after.picks = run[r].picks \ {rec}
      /\ after.pend = pend /\ after.buffer = run[r].buffer
  BY <1>1, <1>2, <1>3, <1>4 DEF RunState
<1> HIDE DEF after
<1>6. PICK y : y = [after EXCEPT !.pc = pc] OBVIOUS
<1>7. /\ y \in RunState /\ y.queue = {} /\ y.picks = run[r].picks \ {rec} /\ y.pend = pend
      /\ y.buffer = run[r].buffer /\ y.pc = pc
  BY <1>5, <1>6 DEF RunState
<1>8. /\ UNCHANGED <<now, watermark, stored, scored, vectors, ranked, passed>> /\ handled' = handled
  BY DEF Match, tables
<1>9. Worked(r, decision, y, {})
  <2>1. Orderly(y) BY <1>1, <1>2, <1>4, <1>5, <1>7 DEF Orderly, IInv
  <2>2. InHand(run[r]) BY DEF IInv
  <2>3. y.picks \cup y.pend \subseteq run[r].picks \cup run[r].pend BY <1>2, <1>4, <1>7
  <2>4. InHand(y)' BY <1>1, <1>8, <2>2, <2>3 DEF InHand, Items
  <2>5. handled \subseteq Records BY DEF IInv, TypeOK
  <2>6. ASSUME NEW item \in Items(run[r].picks \cup run[r].pend)
        PROVE  item \in Items(y.picks \cup y.pend) \/ \E q \in handled' : q.item = item /\ ~Passes(q)
    <3>1. rec \in handled' BY <1>2, <1>8, <2>2 DEF InHand
    <3> QED BY <1>4, <1>7, <2>6, <3>1 DEF Items
  <2> QED BY <1>1, <1>7, <1>8, <2>1, <2>4, <2>5, <2>6 DEF Worked, CursorsStay
<1>10. CASE rec.gate = "borderline"
  <2>1. Record(r, decision, after, pc, {}) BY <1>10 DEF Match, after
  <2>2. decision \in Decisions BY DEF Decisions
  <2> QED BY <1>5, <1>6, <1>9, <2>1, <2>2, RecordKeeps DEF Stages
<1>11. CASE rec.gate # "borderline"
  <2>1. /\ run' = [run EXCEPT ![r] = y] /\ UNCHANGED <<journal, dropped, lost, stuck>>
    BY <1>6, <1>11 DEF Match, after
  <2>2. Turns(r, y) BY <1>8, <2>1, <1>9 DEF Turns, Worked, IInv, TypeOK
  <2>3. JoinedUp(y) /\ CursorsStay BY <1>9 DEF JoinedUp, Worked
  <2>4. QueueAccounted(r, y) BY <1>1 DEF QueueAccounted
  <2>5. JournalAccounted(r, y) BY <1>7, <1>8, <2>1 DEF JournalAccounted
  <2>6. RanksAccounted(r, y)
    <3>1. ranked' \subseteq stored' \cap vectors' \cap scored' BY <1>8 DEF IInv, RankIsHonest
    <3> QED BY <1>9, <2>1, <3>1 DEF RanksAccounted, Worked
  <2> QED BY <2>2, <2>3, <2>4, <2>5, <2>6, TurnKeeps
<1> QED BY <1>10, <1>11

-----------------------------------------------------------------------------
(* Planning and polling.                                                   *)

LEMMA BoundedSetHasMax ==
  ASSUME NEW S \in SUBSET Nat, S # {}, NEW n \in Nat, \A d \in S : d <= n
  PROVE  \E d \in S : \A e \in S : e <= d
<1> DEFINE above(d) == {e \in S : e > d}
           T == {above(d) : d \in S}
<1>1. IsFiniteSet(S) BY FS_BoundedSetOfNaturals
<1>2. T \subseteq FiniteSubsetsOf(S) /\ T # {}
  <2>1. ASSUME NEW d \in S PROVE above(d) \in SUBSET S /\ IsFiniteSet(above(d))
    <3>1. above(d) \in SUBSET S OBVIOUS
    <3> QED BY <1>1, <3>1, FS_Subset
  <2> QED BY <2>1 DEF FiniteSubsetsOf
<1>3. IsWellFoundedOn(StrictSubsetOrdering(S), FiniteSubsetsOf(S)) BY FS_StrictSubsetOrderingWellFounded
<1>4. PICK x \in T : \A y \in T : ~(<<y, x>> \in StrictSubsetOrdering(S)) BY <1>2, <1>3, WFMin
<1>5. PICK d \in S : x = above(d) BY <1>4
<1>6. ASSUME NEW e \in above(d) PROVE FALSE
  <2>1. d \in Nat /\ e \in S /\ e \in Nat /\ e > d OBVIOUS
  <2>2. ASSUME NEW c \in above(e) PROVE c \in above(d)
    <3>1. c \in S /\ c \in Nat /\ c > e OBVIOUS
    <3> QED BY <2>1, <3>1
  <2>3. e \notin above(e) BY <2>1
  <2>4. above(e) # above(d) BY <2>3, <1>6
  <2>5. above(e) \in T BY <2>1
  <2>6. above(e) \subseteq above(d) BY <2>2
  <2>7. above(e) \subseteq S /\ above(d) \subseteq S OBVIOUS
  <2> HIDE DEF above
  <2>8. <<above(e), x>> \in StrictSubsetOrdering(S)
    BY <1>5, <2>4, <2>6, <2>7 DEF StrictSubsetOrdering
  <2> QED BY <1>4, <2>5, <2>8
<1>7. \A e \in S : e <= d BY <1>6
<1> QED BY <1>7

\* A proposed watermark is the date of a record, and has come.
LEMMA NewestHasCome ==
  ASSUME NEW got \in SUBSET Records, now \in Nat, Newest(got) # Never
  PROVE  Newest(got) \in Nat /\ Newest(got) <= now /\ \E rec \in got : rec.date = Newest(got)
<1> DEFINE S == {rec.date : rec \in got}
<1>1. got # {} /\ \A rec \in got : ~(rec.date > now) BY DEF Newest
<1>2. S \in SUBSET Nat /\ S # {} /\ \A d \in S : d <= now BY <1>1, IngestionAssumption
<1>3. \E d \in S : \A rec \in got : rec.date <= d
  <2>1. \E d \in S : \A e \in S : e <= d BY <1>2, BoundedSetHasMax
  <2> QED BY <2>1
<1>4. Newest(got) = CHOOSE d \in S : \A rec \in got : rec.date <= d BY <1>1 DEF Newest
<1>5. Newest(got) \in S BY <1>3, <1>4
<1> QED BY <1>2, <1>5

\* A cursor only grows, up to the present.
LEMMA AdvancedGrows ==
  ASSUME NEW old \in Times, NEW got \in SUBSET Records, now \in 0..MaxTime, old <= now
  PROVE  /\ Advanced(old, Newest(got)) \in Times
         /\ old <= Advanced(old, Newest(got)) /\ Advanced(old, Newest(got)) <= now
         /\ Advanced(old, Newest(got)) \in {old, Newest(got)}
         /\ Newest(got) = Never => Advanced(old, Newest(got)) = old
<1>0. old \in Int /\ now \in Int BY IngestionAssumption DEF Times
<1>1. CASE Newest(got) = Never BY <1>0, <1>1 DEF Advanced
<1>2. CASE Newest(got) # Never
  <2>1. now \in Nat BY IngestionAssumption
  <2>2. Newest(got) \in Nat /\ Newest(got) <= now BY <1>2, <2>1, NewestHasCome
  <2> QED BY <1>2, <2>1, <2>2, IngestionAssumption DEF Advanced, Times, Never, Larger
<1> QED BY <1>1, <1>2

LEMMA PlanKeeps ==
  ASSUME IInv, NEW r \in Runs, NEW until \in Int, NEW since \in Int, NEW readable \in BOOLEAN,
         Plan(r, until, since, readable)
  PROVE  IInv'
<1> DEFINE start == [s \in Sources |->
                      IF until = Never /\ readable THEN ResumeFrom(watermark[s], since, now) ELSE since]
           joined == [s \in Sources |-> readable /\ JoinsUp(watermark[s], until, now)]
<1>1. PICK x : x = [Resting EXCEPT !.pc = "poll", !.until = until, !.start = start, !.joined = joined,
                                   !.todo = Sources, !.buffer = run[r].buffer] OBVIOUS
<1>2. now \in Nat /\ \A s \in Sources : watermark[s] \in Int
  BY IngestionAssumption DEF IInv, TypeOK, Times
<1>3. start \in [Sources -> Int] /\ joined \in [Sources -> BOOLEAN]
  BY <1>2, IngestionAssumption DEF ResumeFrom, JoinsUp, Smaller, Larger
<1>4. ASSUME NEW s \in Sources, joined[s] PROVE watermark[s] # Never /\ start[s] <= watermark[s] - Overlap
  <2>1. readable /\ JoinsUp(watermark[s], until, now) BY <1>4
  <2>2. until = Never /\ watermark[s] # Never /\ watermark[s] - Overlap >= now - MaxCatchup
    BY <2>1 DEF JoinsUp
  <2>3. start[s] = Smaller(Larger(watermark[s] - Overlap, now - MaxCatchup), now)
    BY <2>1, <2>2 DEF ResumeFrom
  <2>4. watermark[s] \in Int /\ now \in Int /\ Overlap \in Nat /\ MaxCatchup \in Nat
    BY <1>2, IngestionAssumption
  <2>5. start[s] <= watermark[s] - Overlap
    BY <2>2, <2>3, <2>4 DEF Smaller, Larger
  <2> QED BY <2>2, <2>5
<1> HIDE DEF start, joined
<1>5. run[r].buffer \subseteq Decisions BY Busied DEF IInv
<1>6. /\ x \in RunState /\ x.pc = "poll" /\ x.queue = {} /\ x.picks = {} /\ x.pend = {}
      /\ x.todo = Sources /\ x.start = start /\ x.joined = joined /\ x.buffer = run[r].buffer
  BY <1>1, <1>3, <1>5, RestingFits DEF RunState, Decisions
<1>7. run[r].queue = {} /\ run[r].picks = {} /\ run[r].pend = {}
  <2>1. run[r].pc \in {"done", "idle"} BY DEF Plan, Busy
  <2> QED BY <2>1 DEF IInv, Orderly
<1>8. /\ run' = [run EXCEPT ![r] = x] /\ UNCHANGED <<now, watermark, tables, journal, history>>
  BY <1>1 DEF Plan, start, joined
<1>9. Turns(r, x)
  <2>1. Orderly(x) BY <1>6 DEF Orderly
  <2> QED BY <1>6, <1>8, <2>1 DEF Turns, history, IInv, TypeOK
<1>10. JoinedUp(x) /\ CursorsStay BY <1>4, <1>6, <1>8 DEF JoinedUp, CursorsStay
<1>11. QueueAccounted(r, x) BY <1>7 DEF QueueAccounted
<1>12. JournalAccounted(r, x) BY <1>6, <1>8 DEF JournalAccounted, history
<1>13. RanksAccounted(r, x)
  <2>1. InHand(x)' BY <1>6 DEF InHand, Items
  <2>2. Items(run[r].picks \cup run[r].pend) = {} BY <1>7 DEF Items
  <2> QED BY <1>8, <2>1, <2>2 DEF RanksAccounted, tables, history, IInv, RankIsHonest
<1> QED BY <1>9, <1>10, <1>11, <1>12, <1>13, TurnKeeps

\* A run that has one answer more.
LEMMA PolledFields ==
  ASSUME IInv, NEW r \in Runs, NEW s \in run[r].todo, NEW got \in SUBSET Records, run[r].pc = "poll",
         NEW x, x = Polled(r, s, got)
  PROVE  /\ x \in RunState /\ Orderly(x) /\ x.pc \in {"poll", "gate"}
         /\ x.queue = run[r].queue \cup got /\ x.buffer = run[r].buffer
         /\ x.picks = {} /\ x.pend = {}
         /\ x.pc = "poll" => /\ x.todo = run[r].todo \ {s} /\ x.start = run[r].start
                             /\ x.joined = run[r].joined
<1>1. run[r] \in RunState /\ run[r].picks = {} /\ run[r].pend = {} BY Busied DEF IInv, Orderly
<1>2. CASE run[r].todo = {s}
  <2>1. x = [Resting EXCEPT !.pc = "gate", !.queue = run[r].queue \cup got, !.buffer = run[r].buffer]
    BY <1>2 DEF Polled
  <2>2. /\ x \in RunState /\ x.pc = "gate" /\ x.queue = run[r].queue \cup got
        /\ x.buffer = run[r].buffer /\ x.picks = {} /\ x.pend = {}
    BY <1>1, <2>1, RestingFits DEF RunState
  <2> QED BY <2>2 DEF Orderly
<1>3. CASE run[r].todo # {s}
  <2>1. x = [run[r] EXCEPT !.todo = @ \ {s}, !.queue = @ \cup got] BY <1>3 DEF Polled
  <2>2. /\ x \in RunState /\ x.pc = "poll" /\ x.queue = run[r].queue \cup got
        /\ x.buffer = run[r].buffer /\ x.picks = {} /\ x.pend = {}
        /\ x.todo = run[r].todo \ {s} /\ x.start = run[r].start /\ x.joined = run[r].joined
    BY <1>1, <2>1 DEF RunState
  <2> QED BY <2>2 DEF Orderly
<1> QED BY <1>2, <1>3

\* The tables do not change while a run polls.
LEMMA PollingCounts ==
  ASSUME IInv, NEW r \in Runs, run[r].pc = "poll", NEW x, x.picks = {}, x.pend = {},
         run[r].queue \subseteq x.queue, x.buffer = run[r].buffer,
         UNCHANGED <<tables, journal, handled, lost, stuck>>
  PROVE  QueueAccounted(r, x) /\ JournalAccounted(r, x) /\ RanksAccounted(r, x)
<1>1. UNCHANGED <<stored, scored, vectors, ranked>> BY DEF tables
<1>2. run[r].picks = {} /\ run[r].pend = {} BY DEF IInv, Orderly
<1>3. InHand(x)' BY DEF InHand, Items
<1>4. Items(run[r].picks \cup run[r].pend) = {} BY <1>2 DEF Items
<1>5. RanksAccounted(r, x) BY <1>1, <1>3, <1>4 DEF RanksAccounted, IInv, RankIsHonest
<1> QED BY <1>5 DEF QueueAccounted, JournalAccounted

LEMMA PollFailsKeeps ==
  ASSUME IInv, NEW r \in Runs, NEW s \in Sources, PollFails(r, s) PROVE IInv'
<1>1. PICK x : x = Polled(r, s, {}) OBVIOUS
<1>2. run[r].pc = "poll" /\ s \in run[r].todo /\ run' = [run EXCEPT ![r] = x]
  BY <1>1 DEF PollFails
<1>3. UNCHANGED <<now, watermark, tables, journal, handled, dropped, passed, lost, stuck>>
  BY DEF PollFails, history
<1>4. /\ x \in RunState /\ Orderly(x) /\ x.queue = run[r].queue /\ x.buffer = run[r].buffer
      /\ x.picks = {} /\ x.pend = {}
      /\ x.pc = "poll" => /\ x.todo = run[r].todo \ {s} /\ x.start = run[r].start
                          /\ x.joined = run[r].joined
  <2>1. PICK got \in SUBSET Records : got = {} OBVIOUS
  <2>2. x = Polled(r, s, got) BY <1>1, <2>1
  <2>3. run[r].queue \cup got = run[r].queue BY <2>1
  <2>4. /\ x \in RunState /\ Orderly(x)
        /\ x.queue = run[r].queue \cup got /\ x.buffer = run[r].buffer
        /\ x.picks = {} /\ x.pend = {}
        /\ x.pc = "poll" => /\ x.todo = run[r].todo \ {s} /\ x.start = run[r].start
                            /\ x.joined = run[r].joined
    BY <1>2, <2>2, PolledFields
  <2> QED BY <2>3, <2>4
<1>5. Turns(r, x) BY <1>2, <1>3, <1>4 DEF Turns, IInv, TypeOK
<1>6. JoinedUp(run[r]) BY DEF IInv
<1>7. JoinedUp(x) BY <1>2, <1>4, <1>6 DEF JoinedUp
<1>8. CursorsStay BY <1>3 DEF CursorsStay
<1>9. QueueAccounted(r, x) /\ JournalAccounted(r, x) /\ RanksAccounted(r, x)
  BY <1>2, <1>3, <1>4, PollingCounts
<1> QED BY <1>5, <1>7, <1>8, <1>9, TurnKeeps

\* The cursor of one source may move up to the newest record of an answer.
CursorMoves(r, s, got) ==
  \/ /\ watermark' = [watermark EXCEPT ![s] = Advanced(@, Newest(got))]
     /\ IF watermark'[s] = watermark[s] THEN UNCHANGED <<dropped, passed>>
        ELSE /\ dropped' = dropped \cup (Shown(s, run[r].start[s], run[r].until) \ got)
             /\ passed' = IF run[r].joined[s] THEN passed
                          ELSE passed \cup Gap(s, watermark[s], run[r].start[s], watermark'[s])
  \/ UNCHANGED <<watermark, dropped, passed>>

LEMMA PollTakes ==
  ASSUME NEW r \in Runs, NEW s \in Sources, Poll(r, s)
  PROVE  /\ run[r].pc = "poll" /\ s \in run[r].todo
         /\ UNCHANGED <<now, tables, journal, handled, lost, stuck>>
         /\ \E got \in SUBSET Shown(s, run[r].start[s], run[r].until) :
              run' = [run EXCEPT ![r] = Polled(r, s, got)] /\ CursorMoves(r, s, got)
BY DEF Poll, Answers, CursorMoves

\* A cursor that moves is at the date of a record of the answer.
LEMMA CursorsMoveOn ==
  ASSUME IInv, NEW r \in Runs, NEW s \in Sources, NEW got \in SUBSET Records, CursorMoves(r, s, got)
  PROVE  /\ watermark' \in [Sources -> Times]
         /\ \A o \in Sources : watermark[o] <= watermark'[o] /\ watermark'[o] <= now
         /\ \A o \in Sources \ {s} : watermark'[o] = watermark[o]
         /\ watermark'[s] # watermark[s] =>
              /\ Newest(got) # Never /\ watermark'[s] = Newest(got)
              /\ dropped' = dropped \cup (Shown(s, run[r].start[s], run[r].until) \ got)
              /\ passed' = IF run[r].joined[s] THEN passed
                   ELSE passed \cup Gap(s, watermark[s], run[r].start[s], watermark'[s])
         /\ watermark'[s] = watermark[s] => UNCHANGED <<dropped, passed>>
<1>1. /\ now \in 0..MaxTime /\ watermark \in [Sources -> Times]
      /\ \A o \in Sources : watermark[o] \in Int /\ watermark[o] <= now
  BY IngestionAssumption DEF IInv, TypeOK, CursorsInPresent, Times
<1>2. CASE UNCHANGED <<watermark, dropped, passed>> BY <1>1, <1>2
<1>3. ASSUME watermark' = [watermark EXCEPT ![s] = Advanced(@, Newest(got))]
      PROVE  /\ watermark' \in [Sources -> Times]
             /\ \A o \in Sources : watermark[o] <= watermark'[o] /\ watermark'[o] <= now
             /\ \A o \in Sources \ {s} : watermark'[o] = watermark[o]
             /\ watermark'[s] # watermark[s] => Newest(got) # Never /\ watermark'[s] = Newest(got)
  <2>1. /\ Advanced(watermark[s], Newest(got)) \in Times
        /\ watermark[s] <= Advanced(watermark[s], Newest(got))
        /\ Advanced(watermark[s], Newest(got)) <= now
        /\ Advanced(watermark[s], Newest(got)) \in {watermark[s], Newest(got)}
        /\ Newest(got) = Never => Advanced(watermark[s], Newest(got)) = watermark[s]
    BY <1>1, AdvancedGrows
  <2>2. watermark'[s] = Advanced(watermark[s], Newest(got)) BY <1>1, <1>3
  <2>3. \A o \in Sources \ {s} : watermark'[o] = watermark[o] BY <1>1, <1>3
  <2>4. watermark' \in [Sources -> Times] BY <1>1, <1>3, <2>1
  <2>5. ASSUME NEW o \in Sources PROVE watermark[o] <= watermark'[o] /\ watermark'[o] <= now
    <3>1. CASE o = s BY <2>1, <2>2, <3>1
    <3>2. CASE o # s BY <1>1, <2>3, <3>2
    <3> QED BY <3>1, <3>2
  <2> QED BY <2>1, <2>2, <2>3, <2>4, <2>5
<1> QED BY <1>2, <1>3 DEF CursorMoves

\* No record is left behind by a cursor that moves without a cause: the answer
\* has it, or the page limit has cut it off, or it lies in the gap of a window
\* that does not join up; before one that does there is no gap.
LEMMA PollLeavesNoGap ==
  ASSUME IInv, NEW r \in Runs, NEW s \in Sources, run[r].pc = "poll", s \in run[r].todo,
         NEW got \in SUBSET Shown(s, run[r].start[s], run[r].until),
         run' = [run EXCEPT ![r] = Polled(r, s, got)], CursorMoves(r, s, got),
         now' = now, handled' = handled
  PROVE  NoSilentGap'
<1>1. PICK x : x = Polled(r, s, got) OBVIOUS
<1>2. got \in SUBSET Records BY DEF Shown
<1>3. x \in RunState /\ x.queue = run[r].queue \cup got BY <1>1, <1>2, PolledFields
<1>4. run'[r] = x /\ \A q \in Runs \ {r} : run'[q] = run[q] BY <1>1, <1>3, OthersStay DEF IInv
<1>5. /\ watermark' \in [Sources -> Times]
      /\ \A o \in Sources : watermark[o] <= watermark'[o]
      /\ \A o \in Sources \ {s} : watermark'[o] = watermark[o]
      /\ watermark'[s] # watermark[s] =>
           /\ Newest(got) # Never /\ watermark'[s] = Newest(got)
           /\ dropped' = dropped \cup (Shown(s, run[r].start[s], run[r].until) \ got)
           /\ passed' = IF run[r].joined[s] THEN passed
                ELSE passed \cup Gap(s, watermark[s], run[r].start[s], watermark'[s])
      /\ watermark'[s] = watermark[s] => UNCHANGED <<dropped, passed>>
  BY <1>2, CursorsMoveOn
<1>6. dropped \subseteq dropped' /\ passed \subseteq passed' BY <1>5
<1> SUFFICES ASSUME NEW rec \in Records, rec.shown <= now, rec.shown <= rec.date + Overlap
             PROVE  \/ rec \in handled \cup dropped' \cup passed'
                    \/ \E q \in Runs : rec \in run'[q].queue
                    \/ watermark'[rec.source] = Never
                    \/ watermark'[rec.source] - Overlap <= rec.date
  BY DEF NoSilentGap
<1>7. rec.source \in Sources /\ rec.date \in Int /\ rec.shown \in Int /\ Overlap \in Int /\ now \in Int
      /\ watermark[rec.source] \in Int /\ Overlap >= 0
  BY IngestionAssumption DEF IInv, TypeOK, Times
<1>8. ASSUME NEW q \in Runs, rec \in run[q].queue PROVE \E p \in Runs : rec \in run'[p].queue
  <2>1. CASE q = r BY <1>3, <1>4, <1>8, <2>1
  <2>2. CASE q # r BY <1>4, <1>8, <2>2
  <2> QED BY <2>1, <2>2
<1>9. \/ rec \in handled \cup dropped' \cup passed'
      \/ \E q \in Runs : rec \in run'[q].queue
      \/ watermark[rec.source] = Never
      \/ watermark[rec.source] - Overlap <= rec.date
  BY <1>6, <1>8 DEF IInv, NoSilentGap
<1>10. CASE watermark'[rec.source] = watermark[rec.source] BY <1>9, <1>10
<1>11. CASE watermark'[rec.source] # watermark[rec.source]
  <2>1. rec.source = s BY <1>5, <1>7, <1>11
  <2>2. /\ Newest(got) # Never /\ watermark'[s] = Newest(got)
        /\ Shown(s, run[r].start[s], run[r].until) \ got \subseteq dropped'
        /\ ~run[r].joined[s] =>
             Gap(s, watermark[s], run[r].start[s], watermark'[s]) \subseteq passed'
    BY <1>5, <1>11, <2>1
  <2>3. run[r].start[s] \in Int /\ run[r].until \in Int
    BY Busied DEF IInv, RunState
  <2>4. CASE rec.date < run[r].start[s]
    <3>1. CASE run[r].joined[s]
      <4>1. watermark[s] # Never /\ run[r].start[s] <= watermark[s] - Overlap
        BY <3>1 DEF IInv, JoinedUp
      <4>2. ~(watermark[s] - Overlap <= rec.date) BY <1>7, <2>1, <2>3, <2>4, <4>1
      <4> QED BY <1>9, <2>1, <4>1, <4>2
    <3>2. CASE ~run[r].joined[s]
      <4>1. CASE watermark[s] = Never \/ rec.date >= watermark[s] - Overlap
        <5>1. CASE rec.date < watermark'[s] - Overlap
          <6>1. rec \in Gap(s, watermark[s], run[r].start[s], watermark'[s])
            BY <2>1, <2>4, <4>1, <5>1 DEF Gap
          <6> QED BY <2>2, <3>2, <6>1
        <5>2. CASE ~(rec.date < watermark'[s] - Overlap)
          <6>1. watermark'[s] \in Int BY <1>5, <1>7, <2>1, IngestionAssumption DEF Times
          <6> QED BY <1>7, <2>1, <5>2, <6>1
        <5> QED BY <5>1, <5>2
      <4>2. CASE watermark[s] # Never /\ ~(rec.date >= watermark[s] - Overlap)
        <5>1. ~(watermark[s] - Overlap <= rec.date) BY <1>7, <2>1, <4>2
        <5> QED BY <1>9, <2>1, <4>2, <5>1
      <4> QED BY <4>1, <4>2
    <3> QED BY <3>1, <3>2
  <2>5. CASE rec.date >= run[r].start[s] /\ (run[r].until = Never \/ rec.date < run[r].until)
    <3>1. rec \in Shown(s, run[r].start[s], run[r].until) BY <2>1, <2>5 DEF Shown
    <3> QED BY <1>3, <1>4, <2>2, <3>1
  <2>6. CASE run[r].until # Never /\ rec.date >= run[r].until
    <3>1. now \in Nat BY IngestionAssumption DEF IInv, TypeOK
    <3>2. PICK last \in got : last.date = Newest(got) BY <1>2, <2>2, <3>1, NewestHasCome
    <3>3. last.date < run[r].until BY <2>6 DEF Shown
    <3>4. last.date \in Int BY <1>2, IngestionAssumption
    <3> QED BY <1>7, <2>1, <2>2, <2>3, <2>6, <3>2, <3>3, <3>4
  <2> QED BY <1>7, <2>3, <2>4, <2>5, <2>6
<1> QED BY <1>10, <1>11

LEMMA PollKeeps ==
  ASSUME IInv, NEW r \in Runs, NEW s \in Sources, Poll(r, s) PROVE IInv'
<1>1. /\ run[r].pc = "poll" /\ s \in run[r].todo
      /\ UNCHANGED <<now, tables, journal, handled, lost, stuck>>
  BY PollTakes
<1>2. PICK got \in SUBSET Shown(s, run[r].start[s], run[r].until) :
        run' = [run EXCEPT ![r] = Polled(r, s, got)] /\ CursorMoves(r, s, got)
  BY PollTakes
<1>3. PICK x : x = Polled(r, s, got) OBVIOUS
<1>4. got \in SUBSET Records BY DEF Shown
<1>5. /\ x \in RunState /\ Orderly(x) /\ x.queue = run[r].queue \cup got
      /\ x.buffer = run[r].buffer /\ x.picks = {} /\ x.pend = {}
      /\ x.pc = "poll" => /\ x.todo = run[r].todo \ {s} /\ x.start = run[r].start
                          /\ x.joined = run[r].joined
  BY <1>1, <1>3, <1>4, PolledFields
<1>6. /\ watermark' \in [Sources -> Times]
      /\ \A o \in Sources : watermark[o] <= watermark'[o] /\ watermark'[o] <= now
      /\ dropped \subseteq dropped' /\ dropped' \subseteq Records
      /\ passed \subseteq passed' /\ passed' \subseteq Records
  <2>1. dropped \subseteq Records /\ passed \subseteq Records BY DEF IInv, TypeOK
  <2>2. /\ Shown(s, run[r].start[s], run[r].until) \subseteq Records
        /\ Gap(s, watermark[s], run[r].start[s], watermark'[s]) \subseteq Records
    BY DEF Shown, Gap
  <2> QED BY <1>2, <1>4, <2>1, <2>2, CursorsMoveOn
<1>7. run' = [run EXCEPT ![r] = x] BY <1>2, <1>3
<1>8. Turns(r, x) BY <1>1, <1>5, <1>6, <1>7 DEF Turns, IInv, TypeOK
<1>9. QueueAccounted(r, x) /\ JournalAccounted(r, x) /\ RanksAccounted(r, x)
  BY <1>1, <1>5, PollingCounts
<1>10. TypeOK' /\ \A q \in Runs : Orderly(run[q])'
  BY <1>1, <1>6, <1>8, TypesKept DEF IInv, TypeOK
<1>11. JournalComplete' BY <1>8, <1>9, JournalKept DEF IInv
<1>12. RankIsHonest' /\ \A q \in Runs : InHand(run[q])' BY <1>8, <1>9, RanksKept DEF IInv
<1>13. CursorsInPresent' BY <1>1, <1>6 DEF CursorsInPresent
<1>14. ASSUME NEW q \in Runs PROVE JoinedUp(run[q])'
  <2>1. ASSUME NEW y \in RunState, JoinedUp(y) PROVE JoinedUp(y)'
    <3>1. \A o \in Sources : watermark[o] \in Times /\ watermark'[o] \in Times
      BY <1>6 DEF IInv, TypeOK
    <3> SUFFICES ASSUME y.pc = "poll", NEW o \in y.todo, y.joined[o]
                 PROVE  watermark'[o] # Never /\ y.start[o] <= watermark'[o] - Overlap
      BY DEF JoinedUp
    <3>2. o \in Sources /\ y.start[o] \in Int BY DEF RunState
    <3>3. watermark[o] # Never /\ y.start[o] <= watermark[o] - Overlap BY <2>1 DEF JoinedUp
    <3>4. watermark[o] \in Int /\ watermark'[o] \in Int /\ watermark[o] >= -1 /\ Overlap \in Int
      BY <3>1, <3>2, IngestionAssumption DEF Times
    <3> QED BY <1>6, <3>2, <3>3, <3>4 DEF Never
  <2>2. run'[r] = x /\ \A p \in Runs \ {r} : run'[p] = run[p] /\ run[p] \in RunState
    BY <1>5, <1>7, OthersStay, Busied DEF IInv
  <2>3. JoinedUp(run[r]) /\ JoinedUp(run[q]) BY DEF IInv
  <2>4. CASE q = r
    <3>1. JoinedUp(x) BY <1>1, <1>5, <2>3 DEF JoinedUp
    <3>2. JoinedUp(x)' BY <1>5, <2>1, <3>1
    <3> QED BY <2>2, <2>4, <3>2 DEF JoinedUp
  <2>5. CASE q # r
    <3>1. PICK y : y = run[q] OBVIOUS
    <3>2. JoinedUp(y)' BY <2>1, <2>2, <2>3, <2>5, <3>1
    <3> QED BY <2>2, <2>5, <3>1, <3>2 DEF JoinedUp
  <2> QED BY <2>4, <2>5
<1>15. NoSilentGap' BY <1>1, <1>2, PollLeavesNoGap
<1> QED BY <1>10, <1>11, <1>12, <1>13, <1>14, <1>15 DEF IInv

-----------------------------------------------------------------------------
(* The theorems.                                                           *)

\* A record that a source begins to show is not behind any cursor.
LEMMA TickKeeps == ASSUME IInv, Tick PROVE IInv'
<1>1. /\ now \in Nat /\ now' = now + 1 /\ now' \in 0..MaxTime
      /\ UNCHANGED <<watermark, run, tables, journal, history>>
  BY IngestionAssumption DEF Tick, IInv, TypeOK
<1>2. UNCHANGED <<watermark, run, stored, scored, vectors, ranked, journal, handled, dropped,
               passed, lost, stuck>>
  BY <1>1 DEF tables, history
<1>3. TypeOK' BY <1>1, <1>2 DEF IInv, TypeOK
<1>4. CursorsInPresent'
  <2>1. \A s \in Sources : watermark[s] \in Int BY IngestionAssumption DEF IInv, TypeOK, Times
  <2> QED BY <1>1, <1>2, <2>1 DEF IInv, CursorsInPresent
<1>5. NoSilentGap'
  <2> SUFFICES ASSUME NEW rec \in Records, rec.shown <= now', rec.shown <= rec.date + Overlap
               PROVE  \/ rec \in handled \cup dropped \cup passed
                      \/ \E r \in Runs : rec \in run[r].queue
                      \/ watermark[rec.source] = Never
                      \/ watermark[rec.source] - Overlap <= rec.date
    BY <1>2 DEF NoSilentGap
  <2>1. /\ rec.source \in Sources /\ rec.date \in Int /\ rec.shown \in Int /\ Overlap \in Int
        /\ watermark[rec.source] \in Int
    BY IngestionAssumption DEF IInv, TypeOK, Times
  <2>2. CASE rec.shown <= now BY <2>2 DEF IInv, NoSilentGap
  <2>3. CASE ~(rec.shown <= now)
    <3>1. watermark[rec.source] <= now BY <2>1 DEF IInv, CursorsInPresent
    <3> QED BY <1>1, <2>1, <2>3, <3>1
  <2> QED BY <2>2, <2>3
<1> QED BY <1>2, <1>3, <1>4, <1>5 DEF IInv, Orderly, JoinedUp, JournalComplete, InHand, RankIsHonest

LEMMA StutterKeeps == ASSUME IInv, UNCHANGED vars PROVE IInv'
BY DEF vars, IInv, TypeOK, Orderly, CursorsInPresent, JoinedUp, NoSilentGap, JournalComplete,
       InHand, RankIsHonest

LEMMA RunStepKeeps == ASSUME IInv, NEW r \in Runs, RunStep(r) PROVE IInv'
BY PollKeeps, PollFailsKeeps, RejectKeeps, SaveKeeps, SaveFailsKeeps, EndGateKeeps, EmbedKeeps,
   ScoreKeeps, MatchKeeps, RankKeeps, RaisesKeeps, CloseKeeps DEF RunStep

LEMMA StepKeeps == ASSUME IInv, [Next]_vars PROVE IInv'
<1>1. now \in Int /\ Lookback \in Int BY IngestionAssumption DEF IInv, TypeOK
<1>2. ASSUME NEW r \in Runs, NEW day \in 0..now, PlanDay(r, day) PROVE IInv'
  <2>1. day \in Int /\ day + 1 \in Int BY <1>1
  <2> QED BY <1>2, <2>1, PlanKeeps DEF PlanDay
<1>3. ASSUME NEW r \in Runs, NEW readable \in BOOLEAN, PlanOpen(r, readable) PROVE IInv'
  <2>1. Never \in Int /\ Larger(0, now - Lookback) \in Int BY <1>1 DEF Never, Larger
  <2> QED BY <1>3, <2>1, PlanKeeps DEF PlanOpen
<1> QED BY <1>2, <1>3, TickKeeps, StutterKeeps, RunStepKeeps, CrashKeeps DEF Next

LEMMA InitHolds == ASSUME Init PROVE IInv
<1>1. run \in [Runs -> RunState] /\ \A r \in Runs : run[r] = Resting
  BY RestingFits DEF Init
<1>2. TypeOK
  <2>1. now \in 0..MaxTime /\ watermark \in [Sources -> Times]
    BY IngestionAssumption DEF Init, Times, Never
  <2> QED BY <1>1, <2>1, RestingFits DEF Init, TypeOK
<1>3. \A r \in Runs : Orderly(run[r]) /\ JoinedUp(run[r]) /\ InHand(run[r])
  BY <1>1, RestingFits DEF Orderly, JoinedUp, InHand, Items
<1>4. CursorsInPresent BY DEF Init, CursorsInPresent, Never
<1>5. NoSilentGap BY IngestionAssumption DEF Init, NoSilentGap
<1> QED BY <1>2, <1>3, <1>4, <1>5 DEF IInv, Init, JournalComplete, RankIsHonest

LEMMA Invariance == Spec => []IInv
<1>1. Init => IInv BY InitHolds
<1>2. IInv /\ [Next]_vars => IInv' BY StepKeeps
<1> QED BY <1>1, <1>2, PTL DEF Spec

\* Every variable keeps its shape, and a run past the gate holds nothing the
\* gate has rejected (ingestion.py _apply_gate).
THEOREM TypeCorrect == Spec => []TypeOK
BY Invariance, PTL DEF IInv

\* However many runs overlap, fail or die, a record that a source showed in time
\* and no open window will look at again is dealt with, or left behind by the
\* page limit, a failure, or the gap before a window that does not join up with
\* the cursor; an open window that joins up leaves no gap
\* (cursors.py, ingestion.py _advance_cursor).
THEOREM NothingSlipsBy == Spec => []NoSilentGap
BY Invariance, PTL DEF IInv

\* The journal has the verdict on every record, or a buffer known to be lost
\* has (decisions.py).
THEOREM JournalKnows == Spec => []JournalComplete
BY Invariance, PTL DEF IInv

\* A ranked item has all a digest needs of it, an unranked one has a cause
\* (ingestion.py ingest).
THEOREM RanksAreHonest == Spec => []RankIsHonest
BY Invariance, PTL DEF IInv

\* No step of any run takes a cursor back or past the present
\* (cursors.py, the upsert of source_cursors).
THEOREM CursorsOnlyGrow == Spec => CursorNeverFalls
<1>1. ASSUME IInv, [Next]_vars
      PROVE  [\A s \in Sources : watermark'[s] >= watermark[s] /\ watermark'[s] <= now']_vars
  <2>1. IInv' BY <1>1, StepKeeps
  <2>2. \A s \in Sources : watermark'[s] <= now' BY <2>1 DEF IInv, CursorsInPresent
  <2>3. \A s \in Sources : watermark[s] \in Int BY <1>1, IngestionAssumption DEF IInv, TypeOK, Times
  <2>4. CASE watermark' = watermark BY <1>1, <2>2, <2>3, <2>4
  <2>5. ASSUME NEW r \in Runs, NEW s \in Sources, Poll(r, s)
        PROVE  \A o \in Sources : watermark'[o] >= watermark[o]
    <3>1. PICK got \in SUBSET Shown(s, run[r].start[s], run[r].until) : CursorMoves(r, s, got)
      BY <2>5, PollTakes
    <3>2. got \in SUBSET Records BY DEF Shown
    <3>3. watermark' \in [Sources -> Times] /\ \A o \in Sources : watermark[o] <= watermark'[o]
      BY <1>1, <3>1, <3>2, CursorsMoveOn
    <3>4. \A o \in Sources : watermark'[o] \in Int BY <3>3, IngestionAssumption DEF Times
    <3> QED BY <2>3, <3>3, <3>4
  <2>6. watermark' = watermark \/ \E r \in Runs, s \in Sources : Poll(r, s)
    <3>1. ASSUME NEW r \in Runs, RunStep(r)
          PROVE  watermark' = watermark \/ \E s \in Sources : Poll(r, s)
      BY <3>1 DEF RunStep, PollFails, Reject, Save, SaveFails, EndGate, Embed, Score, Match, Rank,
                  RankFails, Raises, Close
    <3>2. ASSUME NEW r \in Runs, NEW until, NEW since, NEW readable, Plan(r, until, since, readable)
          PROVE  watermark' = watermark
      BY <3>2 DEF Plan
    <3>3. (UNCHANGED vars \/ Tick \/ \E r \in Runs : Crash(r)) => watermark' = watermark
      BY DEF vars, Tick, Crash
    <3> QED BY <1>1, <3>1, <3>2, <3>3 DEF Next, PlanDay, PlanOpen
  <2> QED BY <2>2, <2>4, <2>5, <2>6
<1>2. [Next]_vars /\ IInv => [\A s \in Sources : watermark'[s] >= watermark[s] /\ watermark'[s] <= now']_vars
  BY <1>1
<1> QED BY <1>2, Invariance, PTL DEF Spec, CursorNeverFalls

=============================================================================
