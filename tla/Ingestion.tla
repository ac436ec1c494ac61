----------------------------- MODULE Ingestion ------------------------------
(***************************************************************************)
(* Ingestion: the pipeline that takes a window of the sources into the     *)
(* corpus (services/ingestion.py), the source cursors it starts from       *)
(* (services/cursors.py) and the journal of gate decisions                 *)
(* (services/decisions.py).  Several runs may overlap: the scheduled one,  *)
(* one by hand, the command line.  A run polls its sources, moves each     *)
(* cursor, passes the records through the keyword gate, saves them one by  *)
(* one, embeds the ones worth it, stores vectors and scores, asks the      *)
(* meaning of the borderline ones and ranks the rest.                      *)
(*                                                                         *)
(* Time is counted in days; Never (-1) is an absent time.                  *)
(***************************************************************************)
EXTENDS Integers, FiniteSets

CONSTANTS
  Runs,          \* runs of the pipeline that may overlap
  Sources,       \* collectors
  Records,       \* what the sources will publish
  Overlap,       \* DEFAULT_OVERLAP
  MaxCatchup,    \* MAX_CATCHUP
  Lookback,      \* COLLECTION_LOOKBACK_HOURS
  PageLimit,     \* the ceiling of one answer
  BatchSize,     \* batch_size of the decision sink
  SemanticThreshold, BorderlineThreshold,
  MaxTime,       \* bound on the clock
  MaxWindows,    \* bound on the windows started
  MaxFailures    \* bound on failures of any kind

Never == -1

\* A record: its source, publication date, the day from which the source shows
\* it (later than its date, or before it: Crossref announces the issues to
\* come), the canonical item it resolves to (module Corpus), the verdict of the
\* keyword gate, the similarity to the profile and the length of its text.
ASSUME IngestionAssumption ==
  /\ \A rec \in Records :
       /\ rec.source \in Sources /\ rec.date \in Nat /\ rec.shown \in Nat
       /\ rec.gate \in {"accepted", "borderline", "rejected"}
       /\ rec.sem \in Int /\ rec.size \in Nat
  /\ Overlap \in Nat /\ MaxCatchup \in Nat /\ Lookback \in Nat
  /\ PageLimit \in Nat \ {0} /\ BatchSize \in Nat \ {0}
  /\ SemanticThreshold \in Int /\ BorderlineThreshold \in Int
  /\ MaxTime \in Nat /\ MaxWindows \in Nat /\ MaxFailures \in Nat

VARIABLES
  now,        \* the clock
  watermark,  \* source_cursors: source -> watermark, or Never
  run,        \* the runs
  stored,     \* items in the corpus
  scored,     \* items with a semantic score
  vectors,    \* items in the vector store
  ranked,     \* items with a rank
  journal,    \* harvest_decisions: <<record, stage, decision>>
  windows, failures,  \* what is left of the bounds
  \* history
  handled,    \* records a gate has rejected or the repository has saved
  dropped,    \* records cut off by a page limit or given up with a failure
  passed,     \* records in the gap before a window that does not join up
  lost,       \* decisions lost with a buffer
  stuck       \* items whose ranking failed or died with its run

tables == <<stored, scored, vectors, ranked>>
history == <<handled, dropped, passed, lost, stuck>>
vars == <<now, watermark, run, stored, scored, vectors, ranked,
          journal, windows, failures, handled, dropped, passed, lost, stuck>>

Smaller(a, b) == IF a <= b THEN a ELSE b
Larger(a, b) == IF a >= b THEN a ELSE b

-----------------------------------------------------------------------------
(* Slips: plausible mistakes, to see that the properties notice.           *)

SlipLastWins(old, new) == IF new = Never THEN old ELSE new
SlipNoOverlap(mark, since, t) ==
  IF mark = Never THEN since ELSE Smaller(Larger(mark, t - MaxCatchup), t)
SlipOnlyCreated(item) == item \notin stored
SlipNoFlush(r) == {}

-----------------------------------------------------------------------------
(* Windows and cursors.                                                    *)

\* Cursor.resume_from: the watermark less the overlap, but not further back
\* than MAX_CATCHUP and not after now; without a watermark the window given.
ResumeFrom(mark, since, t) ==
  IF mark = Never THEN since
  ELSE Smaller(Larger(mark - Overlap, t - MaxCatchup), t)

\* An open window joins up with what earlier runs have taken, unless the gap is
\* longer than MAX_CATCHUP.
JoinsUp(mark, until, t) == until = Never /\ mark # Never /\ mark - Overlap >= t - MaxCatchup

\* What a source shows of a window.  Dates before `until` only.
Shown(s, start, until) ==
  {rec \in Records : /\ rec.source = s /\ rec.shown <= now
                     /\ rec.date >= start
                     /\ until = Never \/ rec.date < until}

\* A source answers with the newest records up to its page limit.
Answers(W) ==
  {got \in SUBSET W :
     /\ Cardinality(got) = Smaller(PageLimit, Cardinality(W))
     /\ \A new \in got, old \in W \ got : new.date >= old.date}

\* The watermark a poll proposes: the newest date, but a date in the future
\* is no watermark (_advance_cursor, newest).
Newest(got) ==
  IF got = {} \/ \E rec \in got : rec.date > now THEN Never
  ELSE CHOOSE d \in {rec.date : rec \in got} : \A rec \in got : rec.date <= d

\* The upsert of source_cursors: the watermark only grows.
Advanced(old, new) ==
  IF new = Never THEN old ELSE IF old = Never THEN new ELSE Larger(old, new)

-----------------------------------------------------------------------------
(* The stages of a run.                                                    *)

Resting == [pc |-> "idle", until |-> Never, start |-> [s \in Sources |-> 0],
            joined |-> [s \in Sources |-> FALSE], todo |-> {}, queue |-> {},
            picks |-> {}, pend |-> {}, buffer |-> {}]

Busy(r) == run[r].pc # "idle"

\* A record is worth the models if its item is new or was never ranked.
WorthRanking(item) == item \notin stored \/ item \notin ranked

\* Of the records of one item the longest represents it; the first one stays
\* on equal length.
Represent(picks, rec) ==
  LET rivals == {p \in picks : p.item = rec.item}
  IN IF \A p \in rivals : rec.size > p.size THEN (picks \ rivals) \cup {rec} ELSE picks

Passes(rec) ==
  /\ rec.sem >= SemanticThreshold
  /\ rec.gate = "borderline" => rec.sem >= BorderlineThreshold

\* The gate has judged every record, be there some left or none.
Judged(r) == run[r].pc = "gate" /\ \A rec \in run[r].queue : rec.gate # "rejected"

\* What _embed turns into vectors: everything, the last incomplete batch too.
Embedded(r) == run[r].picks

\* What the last flush writes.
LastBatch(r) == run[r].buffer

\* The next of several whose order does not matter.
First(S) == CHOOSE x \in S : TRUE

Items(recs) == {rec.item : rec \in recs}
Stage(r) == IF run[r].picks = {} THEN "done" ELSE "embed"

-----------------------------------------------------------------------------
Init ==
  /\ now = 0
  /\ watermark = [s \in Sources |-> Never]
  /\ run = [r \in Runs |-> Resting]
  /\ stored = {} /\ scored = {} /\ vectors = {} /\ ranked = {}
  /\ journal = {} /\ windows = MaxWindows /\ failures = MaxFailures
  /\ handled = {} /\ dropped = {} /\ passed = {} /\ lost = {} /\ stuck = {}

Tick ==
  /\ now < MaxTime /\ now' = now + 1
  /\ UNCHANGED <<watermark, run, tables, journal, windows, failures, history>>

Fail == failures > 0 /\ failures' = failures - 1

\* ingest begins, for the first time or for the next day of the same flow, and
\* _collection_plan reads the cursors: a given day is taken
\* as it is, an open window starts where each cursor says; an unreadable
\* cursor is the same as none.
Plan(r, until, since, readable) ==
  /\ run[r].pc = "done" \/ (~Busy(r) /\ r = First({q \in Runs : ~Busy(q)}))
  /\ windows > 0
  /\ windows' = windows - 1
  /\ IF readable THEN UNCHANGED failures ELSE Fail
  /\ LET start == [s \in Sources |->
           IF until = Never /\ readable THEN ResumeFrom(watermark[s], since, now) ELSE since]
         joined == [s \in Sources |-> readable /\ JoinsUp(watermark[s], until, now)]
     IN run' = [run EXCEPT ![r] =
          [Resting EXCEPT !.pc = "poll", !.until = until, !.start = start, !.joined = joined,
                          !.todo = Sources, !.buffer = run[r].buffer]]
  /\ UNCHANGED <<now, watermark, tables, journal, history>>

PlanDay(r, day) == Plan(r, day + 1, day, TRUE)
PlanOpen(r, readable) == Plan(r, Never, Larger(0, now - Lookback), readable)

\* The run after one answer; the plan is needed no more after the last.
Polled(r, s, got) ==
  IF run[r].todo = {s}
  THEN [Resting EXCEPT !.pc = "gate", !.queue = run[r].queue \cup got, !.buffer = run[r].buffer]
  ELSE [run[r] EXCEPT !.todo = @ \ {s}, !.queue = @ \cup got]

\* What lies in the gap between the old watermark, less the overlap, and a
\* window that starts after it, once the watermark moves over it: no open window
\* will ever start early enough.
Gap(s, old, start, new) ==
  {rec \in Records : /\ rec.source = s /\ rec.shown <= now
                     /\ rec.date < start /\ rec.date < new - Overlap
                     /\ old = Never \/ rec.date >= old - Overlap}

\* _collect_one and _advance_cursor: as soon as the cursor moves, what the page
\* limit cut off is left behind, and so is the gap before a window that does not
\* join up with it.  A cursor that cannot be written is passed over in silence.
Poll(r, s) ==
  /\ run[r].pc = "poll" /\ s \in run[r].todo
  /\ LET shown == Shown(s, run[r].start[s], run[r].until)
     IN \E got \in Answers(shown) :
          /\ run' = [run EXCEPT ![r] = Polled(r, s, got)]
          /\ \/ /\ watermark' = [watermark EXCEPT ![s] = Advanced(@, Newest(got))]
                /\ IF watermark'[s] = watermark[s] THEN UNCHANGED <<dropped, passed>>
                   ELSE /\ dropped' = dropped \cup (shown \ got)
                        /\ passed' = IF run[r].joined[s] THEN passed
                             ELSE passed \cup
                                  Gap(s, watermark[s], run[r].start[s], watermark'[s])
                /\ UNCHANGED failures
             \/ Fail /\ UNCHANGED <<watermark, dropped, passed>>
  /\ UNCHANGED <<now, tables, journal, windows, handled, lost, stuck>>

\* The source answers with an error: it is named in the report, the cursor
\* stays.
PollFails(r, s) ==
  /\ run[r].pc = "poll" /\ s \in run[r].todo /\ Fail
  /\ run' = [run EXCEPT ![r] = Polled(r, s, {})]
  /\ UNCHANGED <<now, watermark, tables, journal, windows, history>>

\* PostgresDecisionSink.record, at the end of a step that leaves the run at
\* `pc` and gives the items of `again` a new chance: a full buffer is flushed; a
\* flush that fails has already swapped its batch out, and its exception ends
\* the run.
Record(r, decision, after, pc, again) ==
  LET batch == run[r].buffer \cup {decision}
      full == Cardinality(batch) >= BatchSize
  IN \/ /\ run' = [run EXCEPT ![r] =
                     [after EXCEPT !.pc = pc, !.buffer = IF full THEN {} ELSE batch]]
        /\ journal' = IF full THEN journal \cup batch ELSE journal
        /\ UNCHANGED <<failures, lost>>
        /\ dropped' = dropped /\ stuck' = stuck \ again
     \/ /\ full /\ Fail
        /\ run' = [run EXCEPT ![r] = [Resting EXCEPT !.pc = "over"]]
        /\ lost' = lost \cup batch
        /\ dropped' = dropped \cup after.queue
        /\ stuck' = stuck \cup Items(after.picks \cup after.pend)
        /\ UNCHANGED journal

\* _apply_gate writes down a record it rejects.
Reject(r, rec) ==
  /\ run[r].pc = "gate" /\ (\E x \in run[r].queue : x.gate = "rejected")
  /\ rec = First({x \in run[r].queue : x.gate = "rejected"})
  /\ handled' = handled \cup {rec}
  /\ Record(r, <<rec, "keyword", "rejected">>, [run[r] EXCEPT !.queue = @ \ {rec}], "gate", {})
  /\ UNCHANGED <<now, watermark, tables, windows, passed>>

EndGate(r) ==
  /\ Judged(r)
  /\ run' = [run EXCEPT ![r].pc = IF run[r].queue = {} THEN "done" ELSE "save"]
  /\ UNCHANGED <<now, watermark, tables, journal, windows, failures, history>>

\* One record is saved, may come to represent its item, and its verdict is
\* written down.
Save(r, rec) ==
  /\ run[r].pc = "save" /\ rec \in run[r].queue
  /\ stored' = stored \cup {rec.item}
  /\ handled' = handled \cup {rec}
  /\ LET after == [run[r] EXCEPT !.queue = @ \ {rec},
                                 !.picks = IF WorthRanking(rec.item) THEN Represent(@, rec) ELSE @]
     IN Record(r, <<rec, "keyword", rec.gate>>, after,
               IF after.queue # {} THEN "save"
               ELSE IF after.picks = {} THEN "done" ELSE "embed", {rec.item})
  /\ UNCHANGED <<now, watermark, scored, vectors, ranked, windows, passed>>

\* The repository refuses a record: a line in the report, and on to the next.
SaveFails(r, rec) ==
  /\ run[r].pc = "save" /\ rec \in run[r].queue /\ Fail
  /\ dropped' = dropped \cup {rec}
  /\ run' = [run EXCEPT ![r].queue = @ \ {rec},
                        ![r].pc = IF run[r].queue = {rec} THEN Stage(r) ELSE "save"]
  /\ UNCHANGED <<now, watermark, tables, journal, windows, handled, passed, lost, stuck>>

\* _embed and _upsert_vectors: all or nothing.
Embed(r) ==
  /\ run[r].pc = "embed"
  /\ vectors' = vectors \cup Items(Embedded(r))
  /\ run' = [run EXCEPT ![r].pc = "score"]
  /\ UNCHANGED <<now, watermark, stored, scored, ranked, journal, windows, failures, history>>

Score(r) ==
  /\ run[r].pc = "score"
  /\ scored' = scored \cup Items(run[r].picks)
  /\ run' = [run EXCEPT ![r].pc = "rescue"]
  /\ UNCHANGED <<now, watermark, stored, vectors, ranked, journal, windows, failures, history>>

\* A representative is matched against the profile; the meaning of a
\* borderline one decides, and the decision is written down.
Match(r, rec) ==
  /\ run[r].pc = "rescue" /\ rec = First(run[r].picks)
  /\ LET after == [run[r] EXCEPT !.picks = @ \ {rec},
                                 !.pend = IF Passes(rec) THEN @ \cup {rec} ELSE @]
         verdict == IF rec.sem >= BorderlineThreshold THEN "accepted" ELSE "rejected"
         pc == IF after.picks # {} THEN "rescue" ELSE IF after.pend = {} THEN "done" ELSE "rank"
     IN IF rec.gate = "borderline"
        THEN Record(r, <<rec, "semantic", verdict>>, after, pc, {})
        ELSE /\ run' = [run EXCEPT ![r] = [after EXCEPT !.pc = pc]]
             /\ UNCHANGED <<journal, failures, dropped, lost, stuck>>
  /\ UNCHANGED <<now, watermark, tables, windows, handled, passed>>

Rank(r, rec) ==
  /\ run[r].pc = "rank" /\ rec \in run[r].pend
  /\ ranked' = ranked \cup {rec.item}
  /\ scored' = scored \cup {rec.item}
  /\ run' = [run EXCEPT ![r].pend = @ \ {rec},
                        ![r].pc = IF run[r].pend = {rec} THEN "done" ELSE "rank"]
  /\ UNCHANGED <<now, watermark, stored, vectors, journal, windows, failures, history>>

\* The model fails for one item: a line in the report.  (When it is the
\* analyzer that fails the rank is already stored, and nothing else changes.)
RankFails(r, rec) ==
  /\ run[r].pc = "rank" /\ rec \in run[r].pend /\ Fail
  /\ stuck' = stuck \cup {rec.item}
  /\ run' = [run EXCEPT ![r].pend = @ \ {rec},
                        ![r].pc = IF run[r].pend = {rec} THEN "done" ELSE "rank"]
  /\ UNCHANGED <<now, watermark, tables, journal, windows, handled, dropped, passed, lost>>

\* An embedder, the vector store, the pool or the reranker raises: ingest
\* ends with an exception, some of the scores are written, and the flow still
\* flushes the journal.
Raises(r) ==
  /\ run[r].pc \in {"embed", "score", "rescue", "rank"} /\ Fail
  /\ \E written \in SUBSET (IF run[r].pc = "score" THEN Items(run[r].picks) ELSE {}) :
       scored' = scored \cup written
  /\ stuck' = stuck \cup Items(run[r].picks \cup run[r].pend)
  /\ dropped' = dropped \cup run[r].queue
  /\ run' = [run EXCEPT ![r] = [Resting EXCEPT !.pc = "over", !.buffer = run[r].buffer]]
  /\ UNCHANGED <<now, watermark, stored, vectors, ranked, journal, windows, handled, passed,
                 lost>>

\* flush_journals, then the run is closed.
Close(r) ==
  /\ run[r].pc \in {"done", "over"}
  /\ run' = [run EXCEPT ![r] = Resting]
  /\ \/ /\ journal' = journal \cup LastBatch(r) /\ UNCHANGED <<failures, lost>>
     \/ /\ run[r].buffer # {} /\ Fail
        /\ lost' = lost \cup run[r].buffer /\ UNCHANGED journal
  /\ UNCHANGED <<now, watermark, tables, windows, handled, dropped, passed, stuck>>

\* The process dies with everything it held in memory.
Crash(r) ==
  /\ Busy(r) /\ Fail
  /\ lost' = lost \cup run[r].buffer
  /\ dropped' = dropped \cup run[r].queue
  /\ stuck' = stuck \cup Items(run[r].picks \cup run[r].pend)
  /\ run' = [run EXCEPT ![r] = Resting]
  /\ UNCHANGED <<now, watermark, tables, journal, windows, handled, passed>>

RunStep(r) ==
  \/ \E s \in Sources : Poll(r, s) \/ PollFails(r, s)
  \/ \E rec \in Records : Reject(r, rec) \/ Save(r, rec) \/ SaveFails(r, rec)
  \/ EndGate(r) \/ Embed(r) \/ Score(r)
  \/ \E rec \in Records : Match(r, rec) \/ Rank(r, rec) \/ RankFails(r, rec)
  \/ Raises(r) \/ Close(r)

Next ==
  \/ Tick
  \/ \E r \in Runs :
       \/ \E day \in 0..now : PlanDay(r, day)
       \/ \E readable \in BOOLEAN : PlanOpen(r, readable)
       \/ RunStep(r) \/ Crash(r)

Spec == Init /\ [][Next]_vars

-----------------------------------------------------------------------------
(* Properties.                                                             *)

Times == -1..MaxTime
RunState ==
  [pc : {"idle", "poll", "gate", "save", "embed", "score", "rescue", "rank", "done", "over"},
   until : Int, start : [Sources -> Int], joined : [Sources -> BOOLEAN],
   todo : SUBSET Sources, queue : SUBSET Records, picks : SUBSET Records,
   pend : SUBSET Records,
   buffer : SUBSET (Records \X {"keyword", "semantic"} \X {"accepted", "borderline", "rejected"})]

\* The shape of the state; a run past the poll stage works on records that
\* passed the gate.
TypeOK ==
  /\ now \in 0..MaxTime 
  /\ watermark \in [Sources -> Times]
  /\ run \in [Runs -> RunState]
  /\ handled \subseteq Records /\ dropped \subseteq Records /\ passed \subseteq Records
  /\ \A r \in Runs : run[r].pc \in {"save", "embed", "score", "rescue", "rank"} =>
       \A rec \in run[r].queue \cup run[r].picks \cup run[r].pend : rec.gate # "rejected"

\* A cursor never goes back, in whatever order overlapping runs finish, and
\* never passes the present, whatever date a source gives
\* (cursors.py:173, ingestion.py _advance_cursor).
CursorNeverFalls ==
  [][\A s \in Sources : watermark'[s] >= watermark[s] /\ watermark'[s] <= now']_vars

\* What an open window will not look at again is accounted for.  A record that
\* its source showed within the overlap of its date is handled, in the hands of
\* a run, still ahead of the next open window, or left behind for one of three
\* causes: the page limit cut it off, a failure gave it up, or it lies in the gap
\* before a window that does not join up with the cursor and has moved it - the
\* first window of a source, one longer than MAX_CATCHUP after the last or planned
\* while the cursor could not be read, and any closed day: the scheduled runs poll
\* nothing else, and so pass over a day their source failed on (ingestion.py
\* _collection_plan, _advance_cursor).  An open window that joins up leaves no gap.
NoSilentGap ==
  \A rec \in Records :
    (rec.shown <= now /\ rec.shown <= rec.date + Overlap) =>
      \/ rec \in handled \cup dropped \cup passed
      \/ \E r \in Runs : rec \in run[r].queue
      \/ watermark[rec.source] = Never
      \/ watermark[rec.source] - Overlap <= rec.date

\* The journal knows the verdict on every record dealt with, unless the
\* buffer that held it is known to be lost (decisions.py:123).
JournalComplete ==
  \A rec \in handled :
    \/ <<rec, "keyword", rec.gate>> \in journal \cup lost
    \/ \E r \in Runs : <<rec, "keyword", rec.gate>> \in run[r].buffer

\* A rank tells what happened to an item.  A ranked item can be found: it is
\* stored and has a vector and a score, although runs fail between these steps
\* (dispatch joins all of them).  One that is stored stays without a rank only
\* for a cause: a run has it in hand, its last run failed it, or the record
\* that represented it was not close enough to the profile.  Seen again after a
\* failure, it gets another chance.
RankIsHonest ==
  /\ ranked \subseteq stored \cap vectors \cap scored
  /\ \A item \in stored \ ranked :
       \/ item \in stuck
       \/ \E r \in Runs : item \in Items(run[r].picks \cup run[r].pend)
       \/ \E rec \in handled : rec.item = item /\ ~Passes(rec)
=============================================================================
