------------------------------ MODULE Bootstrap -----------------------------
(***************************************************************************)
(* How a process of the platform comes up (bootstrap/entrypoint.py,        *)
(* schema.py, seed.py): it waits for the database, takes an advisory lock, *)
(* brings the schema to the head of its image, seeds the rows the platform *)
(* needs, and reports ready or what went wrong.  `cli db upgrade' does the *)
(* same without waiting and without the lock, and an operator may run      *)
(* alembic by hand.                                                        *)
(*                                                                         *)
(* A migration is one transaction over all the revisions it applies.  An   *)
(* image is [command, head, migrate, env]; the revisions are those of      *)
(* Revisions, the seeded rows those of Registry.                           *)
(***************************************************************************)
EXTENDS DeclaredModels, Registry

\* A scenario bounds what may happen: the revision it starts `from', the numbers of starts,
\* moves by hand, edits, writes and outages, and whether the extension has halfvec.
CONSTANTS Processes, Images, Writes, Attempts, Scenarios

VARIABLES db, registry, up, holder, proc, left

vars == <<db, registry, up, holder, proc, left>>

NoOne == "no one"

(***************************************************************************)
(* Revisions.                                                              *)
(***************************************************************************)
Empty(halfvec) ==
  [revision |-> 0, tables |-> <<>>, checks |-> {}, rows |-> {}, halfvec |-> halfvec,
   refused |-> FALSE]

\* A revision up, under the settings of vectors given, or down; with what it does to the
\* seeded rows.
Raised(d, reg, vectors) ==
  LET r == d.revision + 1 IN
  [db |-> [Run(Upgrade(vectors)[r], d) EXCEPT !.revision = r],
   registry |-> IF r = 8 THEN Reschedule(reg) ELSE reg]

Lowered(d, reg) ==
  LET r == d.revision IN
  [db |-> [Run(Downgrade[r], d) EXCEPT !.revision = r - 1],
   registry |-> IF r = 8 THEN Unschedule(reg) ELSE IF r = 3 THEN NoRows ELSE reg]

\* The revisions up to `head', one after the other.
RECURSIVE RaisedTo(_, _, _, _)
RaisedTo(head, d, reg, vectors) ==
  IF d.revision >= head THEN [db |-> d, registry |-> reg]
  ELSE CHOOSE last \in {RaisedTo(head, next.db, next.registry, vectors) :
                          next \in {Raised(d, reg, vectors)}} : TRUE

(***************************************************************************)
(* Processes.                                                              *)
(***************************************************************************)
Working == {"waiting", "locking", "inspecting", "upgrading", "migrating", "seeding"}
Inside  == {"inspecting", "upgrading", "migrating", "seeding"}

Idle == [step |-> "down", image |-> None, tries |-> 0, base |-> 0, why |-> None,
         moved |-> FALSE]

Spend(what) == left[what] > 0 /\ left' = [left EXCEPT ![what] = @ - 1]

Goto(p, step) == proc' = [proc EXCEPT ![p].step = step]

\* The end of a start: the work is dropped and the lock, if it is p's, released.
Leave(p, step, why) ==
  /\ proc' = [proc EXCEPT ![p].step = step, ![p].why = why, ![p].base = 0]
  /\ holder' = IF holder = p THEN NoOne ELSE holder

Start(p, image) ==
  /\ proc[p].step \in {"down", "failed"}
  /\ Spend("starts")
  /\ proc' = [proc EXCEPT ![p] =
       [Idle EXCEPT !.image = image, !.tries = Attempts,
          !.step = IF image.command = "api" THEN "waiting"
                   ELSE IF up THEN "inspecting" ELSE "failed",
          !.why  = IF image.command # "api" /\ ~up THEN "database" ELSE None]]
  /\ UNCHANGED <<db, registry, up, holder>>

SlipNoAnswer(p) ==
  /\ proc[p].step = "waiting" /\ ~up
  /\ UNCHANGED vars

wait_for_database_fails(p) ==
  /\ proc[p].step = "waiting" /\ ~up
  /\ proc' = [proc EXCEPT ![p].tries = @ - 1,
                          ![p].step = IF proc[p].tries = 1 THEN "failed" ELSE @,
                          ![p].why  = IF proc[p].tries = 1 THEN "database" ELSE @]
  /\ UNCHANGED <<db, registry, up, holder, left>>

wait_for_database(p) ==
  /\ proc[p].step = "waiting" /\ up
  /\ Goto(p, "locking")
  /\ UNCHANGED <<db, registry, up, holder, left>>

SlipNoLock(p) ==
  /\ proc[p].step = "locking"
  /\ Goto(p, "inspecting")
  /\ UNCHANGED <<db, registry, up, holder, left>>

pg_advisory_lock(p) ==
  /\ proc[p].step = "locking" /\ holder = NoOne
  /\ holder' = p
  /\ Goto(p, "inspecting")
  /\ UNCHANGED <<db, registry, up, left>>

\* The wait for the lock is a statement like any other: statement_timeout ends it.
LockTimesOut(p) ==
  /\ proc[p].step = "locking" /\ holder # NoOne
  /\ Leave(p, "failed", "lock")
  /\ UNCHANGED <<db, registry, up, left>>

\* inspect_schema, then ensure_schema or the refusal of a service that may not migrate.
inspect_schema(p) ==
  /\ proc[p].step = "inspecting"
  /\ IF db.revision = proc[p].image.head THEN Goto(p, "seeding") /\ UNCHANGED holder
     ELSE IF proc[p].image.migrate THEN Goto(p, "upgrading") /\ UNCHANGED holder
     ELSE Leave(p, "failed", "schema")
  /\ UNCHANGED <<db, registry, up, left>>

\* Alembic reads the revision in its transaction; an older image does not know a newer one.
upgrade_to_head(p) ==
  /\ proc[p].step = "upgrading"
  /\ IF db.revision > proc[p].image.head THEN Leave(p, "failed", "newer")
     ELSE /\ proc' = [proc EXCEPT ![p].step = "migrating", ![p].base = db.revision]
          /\ UNCHANGED holder
  /\ UNCHANGED <<db, registry, up, left>>

\* Whoever is inside when somebody migrates; two services exclude each other.
Moved(q, p) ==
  /\ q # p /\ proc[q].step \in Inside
  /\ ~(proc[q].image.command = "api" /\ proc[p].image.command = "api")

\* The revisions up to the head of the image, in one transaction.  Of two that began at
\* the same revision the later finds its version row gone.
CommitUpgrade(p) ==
  /\ proc[p].step = "migrating"
  /\ IF db.revision # proc[p].base
     THEN Leave(p, "failed", "raced") /\ UNCHANGED <<db, registry>>
     ELSE \E next \in {RaisedTo(proc[p].image.head, db, registry,
                                  proc[p].image.env.vectors)} :
          IF next.db.refused
          THEN Leave(p, "failed", "refused") /\ UNCHANGED <<db, registry>>
          ELSE /\ db' = next.db
               /\ registry' = next.registry
               /\ proc' = [q \in Processes |->
                    IF q = p THEN [proc[p] EXCEPT !.step = "seeding", !.base = 0]
                    ELSE [proc[q] EXCEPT !.moved = @ \/ Moved(q, p)]]
               /\ UNCHANGED holder
  /\ UNCHANGED <<up, left>>

\* seed_all in a transaction of its own; its tables are those of revision 0003.
Seed(p) ==
  /\ proc[p].step = "seeding"
  /\ LET seeded == seed_all(registry, proc[p].image.env) IN
     IF db.revision < 3 THEN Leave(p, "failed", "tables") /\ UNCHANGED registry
     ELSE IF seeded.refused THEN Leave(p, "failed", "seed") /\ UNCHANGED registry
     ELSE Leave(p, "ready", None) /\ registry' = seeded
  /\ UNCHANGED <<db, up, left>>

Crash(p) ==
  /\ proc[p].step \in Working \union {"ready"}
  /\ Leave(p, "down", None)
  /\ UNCHANGED <<db, registry, up, left>>

(***************************************************************************)
(* What goes on around the starts.                                         *)
(***************************************************************************)
\* Every session is gone, with its locks and transactions.
Outage ==
  /\ up
  /\ Spend("outages")
  /\ up' = FALSE
  /\ holder' = NoOne
  /\ proc' = [p \in Processes |->
       IF proc[p].step \in Inside \union {"locking"}
       THEN [proc[p] EXCEPT !.step = "failed", !.why = "database", !.base = 0]
       ELSE proc[p]]
  /\ UNCHANGED <<db, registry>>

Recover ==
  /\ ~up
  /\ up' = TRUE
  /\ UNCHANGED <<db, registry, holder, proc, left>>

\* By hand; a migration under way holds the locks a second one needs.
Quiet == \A p \in Processes : proc[p].step # "migrating"

MoveBy(next) ==
  /\ db' = next.db
  /\ registry' = next.registry
  /\ proc' = [q \in Processes |-> [proc[q] EXCEPT !.moved = @ \/ proc[q].step \in Inside]]
  /\ UNCHANGED <<up, holder>>

AlembicUpgrade ==
  /\ up /\ Quiet /\ db.revision < HeadRevision
  /\ Spend("moves")
  /\ \E i \in Images : \E next \in {Raised(db, registry, i.env.vectors)} :
       ~next.db.refused /\ MoveBy(next)

AlembicDowngrade ==
  /\ up /\ Quiet /\ db.revision > 0
  /\ Spend("moves")
  /\ \E next \in {Lowered(db, registry)} : ~next.db.refused /\ MoveBy(next)

\* The application writes rows the CHECKs and columns of its revision allow.
Allowed(r) ==
  /\ r.on \in DOMAIN db.tables
  /\ \A c \in db.checks : c.on = r.on /\ c.column = r.column => r.value \in c.allowed
  /\ r.column = "status" => \E c \in db.checks : c.on = r.on /\ c.column = "status"
  /\ r.column = "facet" /\ r.value # "0" => "facet" \in db.tables[r.on].columns

WriteRows(rows) ==
  /\ up /\ Quiet
  /\ \A r \in rows : Allowed(r)
  /\ Spend("writes")
  /\ db' = [db EXCEPT !.rows = @ \union rows]
  /\ UNCHANGED <<registry, up, holder, proc>>

AdminEdits ==
  /\ up /\ Quiet /\ \E p \in Processes : proc[p].step = "ready"
  /\ db.revision >= 3
  /\ Spend("edits")
  /\ registry' \in Edited(registry) \ {registry}
  /\ UNCHANGED <<db, up, holder, proc>>

\* The button of the admin panel and `cli db sync-harvest': an error changes nothing.
Resync(p) ==
  /\ up /\ Quiet /\ proc[p].step = "ready"
  /\ db.revision >= 3
  /\ Spend("edits")
  /\ LET synced == sync_harvest_profile(registry, proc[p].image.env) IN
     ~synced.refused /\ registry' = synced
  /\ UNCHANGED <<db, up, holder, proc>>

(***************************************************************************)
(* Specification.                                                          *)
(***************************************************************************)
Proceed(p) ==
  \/ wait_for_database(p) \/ wait_for_database_fails(p) \/ pg_advisory_lock(p)
  \/ LockTimesOut(p) \/ inspect_schema(p) \/ upgrade_to_head(p) \/ CommitUpgrade(p)
  \/ Seed(p)

Operate ==
  \/ Outage \/ Recover \/ AlembicUpgrade \/ AlembicDowngrade
  \/ \E rows \in Writes : WriteRows(rows)
  \/ AdminEdits \/ \E p \in Processes : Resync(p)

Next ==
  \/ \E p \in Processes : Proceed(p) \/ Crash(p) \/ \E i \in Images : Start(p, i)
  \/ Operate

Init ==
  /\ left \in Scenarios
  /\ db = RaisedTo(left.from, Empty(left.halfvec), NoRows, "vector").db
  /\ registry = NoRows
  /\ up = TRUE
  /\ holder = NoOne
  /\ proc = [p \in Processes |-> Idle]

Spec == Init /\ [][Next]_vars /\ \A p \in Processes : WF_vars(Proceed(p))

(***************************************************************************)
(* Properties.                                                             *)
(***************************************************************************)
Contents(d) == {[on |-> c.on, column |-> c.column, allowed |-> c.allowed] : c \in d.checks}

Same(d, e) == d.refused \/ (d.tables = e.tables /\ Contents(d) = Contents(e))

Reversible(d) ==
  /\ d.revision < HeadRevision => Same(Lowered(Raised(d, NoRows, "vector").db, NoRows).db, d)
  /\ d.revision > 0 => LET lowered == Lowered(d, NoRows).db IN
                       lowered.refused \/ Same(Raised(lowered, NoRows, "vector").db, d)

\* Whatever way up and down led to a revision, going up and back or down and back from it
\* restores the tables, columns, foreign keys, unique keys and rebuilt CHECKs, so they
\* depend on the revision alone; and at the head they are those the ORM declares.
TablesFollowRevision ==
  [][db' # db => /\ Reversible(db')
                 /\ db'.revision = HeadRevision =>
                      db'.tables = Declared /\ DeclaredStatuses \subseteq Contents(db')]_vars

\* The vectors these settings ask for cannot be had in this database.
Unfit(d, vectors) == vectors = "unindexable" \/ (vectors = "halfvec" /\ ~d.halfvec)

\* Whatever rows there are, the next revision can be applied, but 0005 where the database
\* cannot have the vectors that the settings ask for; and a revision can be rolled back
\* unless it is 0003 and a digest has a status that came with it.
MigrationsRefusedWithCause ==
  [][db' # db =>
       /\ db'.revision < HeadRevision =>
            \A i \in Images : Raised(db', NoRows, i.env.vectors).db.refused =>
                              db'.revision = 4 /\ Unfit(db', i.env.vectors)
       /\ db'.revision > 0 /\ Lowered(db', NoRows).db.refused =>
            /\ db'.revision = 3
            /\ \E r \in db'.rows : r.on = "digests"
                                  /\ r.value \in {"queued", "partial", "skipped"}]_vars

\* Why a start fails, with what must be so when it does: the database is down, another
\* start is at work under the lock, the image may not or cannot bring the schema to its
\* head, somebody without the lock migrated meanwhile, revision 0005 is to be applied where
\* its vectors cannot be had, the profile is to be seeded and its file is not there, or the
\* environment names another default plan or profile than the one in the database.
Excused(p, why) ==
  CASE why = "database" -> ~up \/ ~up'
    [] why = "lock"     -> holder # NoOne /\ proc[holder].step \in Inside
    [] why = "schema"   -> db.revision # proc[p].image.head
    [] why = "newer"    -> db.revision > proc[p].image.head
    [] why \in {"raced", "tables"} -> proc[p].moved
    [] why = "refused"  -> /\ db.revision < 5 /\ proc[p].image.head >= 5
                           /\ Unfit(db, proc[p].image.env.vectors)
    [] why = "seed"     -> \/ \E x \in registry.plans :
                                x.isDefault /\ x.key # proc[p].image.env.plan
                           \/ \E x \in registry.profiles : x.key # proc[p].image.env.profile
                           \/ ~proc[p].image.env.file /\ registry.profiles = {}
    [] OTHER -> FALSE

\* A start ends in readiness only with the schema at the head of its own image, or moved
\* by somebody without the lock; and it fails only with one of the excuses.
OutcomeHasCause ==
  [][\A p \in Processes :
       /\ proc'[p].step = "ready" /\ proc[p].step # "ready" =>
            db.revision = proc[p].image.head \/ proc[p].moved
       /\ proc'[p].step = "failed" /\ proc[p].step \in Working =>
            Excused(p, proc'[p].why)]_vars

\* What an administrator set in the seeded rows stays through every restart and every
\* upgrade; only he, a resync from the file, a rollback or revision 0008 takes it away, and
\* the revision nothing but the switch of a schedule whose time is still the old default.
AdminsWorkIsKept ==
  [][LET overruled == IF db.revision < 8 /\ db'.revision >= 8 THEN Overruled(registry) ELSE {}
     IN  \/ Mine(registry) \ overruled \subseteq Mine(registry')
         \/ left'.edits # left.edits
         \/ db'.revision < db.revision]_vars

\* Every start comes to an end: ready or failed, unless it is killed.
StartsEnd ==
  \A p \in Processes : proc[p].step \in Working ~> proc[p].step \notin Working

=============================================================================
