------------------------------- MODULE Corpus -------------------------------
(***************************************************************************)
(* The corpus of items and the transaction that saves one collected record *)
(* (db/repository.py, SQLAlchemyItemRepository.save_collected).  Several   *)
(* harvests save at once.  A transaction takes advisory locks on every     *)
(* identity of its record in sorted order, looks for the canonical row,    *)
(* inserts or enriches it, attaches the authors and topics - each author   *)
(* under a lock of its own, each topic under the lock of its row, both in  *)
(* the order of the record - and commits.  The session does not autoflush: *)
(* what an existing row gets is written at the end, from what was read at  *)
(* the beginning.                                                          *)
(***************************************************************************)
EXTENDS Naturals, Sequences, FiniteSets

CONSTANTS
  Savers,    \* transactions that may be open at once: harvests, the CLI
  Records,   \* collected records: source key, title, DOI, arXiv id, ...
  Rows,      \* identifiers of canonical rows
  MaxSaves,  \* bound on the saves of one saver
  MaxErrors  \* bound on database errors

None == 0

\* A collected record as save_collected sees it after normalisation.  Keys
\* are numbers; None is an absent DOI, arXiv id or citation count.  `shared`
\* lists the authors in order, then the topics.
ASSUME RecordsAssumption ==
  /\ Savers # {} /\ Rows \subseteq Nat \ {None}
  /\ \A r \in Records :
       /\ r.source \in Nat \ {None} /\ r.title \in Nat \ {None}
       /\ r.doi \in Nat /\ r.arxiv \in Nat /\ r.cites \in Nat
       /\ r.authors \in Seq(Nat) /\ r.topics \in Seq(Nat)
  /\ MaxSaves \in Nat /\ MaxErrors \in Nat

VARIABLES
  items,    \* committed rows of `items`: row -> title, doi, arxiv, cites
  sources,  \* committed `item_sources`: source key -> row
  authors,  \* committed `item_authors`: row -> set of <<position, author>>
  tx,       \* the open transaction of each saver: locks, row found, row to be
  links,    \* and the authors it attaches: the ones read, the ones to come
  saves,    \* saves each saver has left
  errors    \* database errors left

vars == <<items, sources, authors, tx, links, saves, errors>>

-----------------------------------------------------------------------------
(* Slips: plausible mistakes, to see that the properties notice.           *)

SlipKeysNoTitle(r) ==
  {<<3, r.source>>} \cup (IF r.doi # None THEN {<<2, r.doi>>} ELSE {})
                    \cup (IF r.arxiv # None THEN {<<1, r.arxiv>>} ELSE {})
SlipAnyOrder(k, l) == TRUE  \* iterating over set(keys)
SlipLastCites(row, r) ==
  [row EXCEPT !.cites = IF r.cites # None THEN r.cites ELSE row.cites]

-----------------------------------------------------------------------------
(* Identities and locks.                                                   *)

\* The prefixes of the lock keys in the order of sorted(): "arxiv:", "doi:",
\* "source:", "title:".
LockKeys(r) ==
  {<<3, r.source>>, <<4, r.title>>}
    \cup (IF r.doi # None THEN {<<2, r.doi>>} ELSE {})
    \cup (IF r.arxiv # None THEN {<<1, r.arxiv>>} ELSE {})

Before(k, l) == k[1] < l[1] \/ (k[1] = l[1] /\ k[2] < l[2])

\* What save_collected waits for after its identities: author locks
\* ("author:" taken one at a time) and rows of `topics`.
Shared(r) == [i \in 1..Len(r.authors) |-> <<5, r.authors[i]>>]
               \o [i \in 1..Len(r.topics) |-> <<6, r.topics[i]>>]

Positions(row) == {link[1] : link \in authors[row]}
Attached(row) == {link[2] : link \in authors[row]}

\* coalesce(max(position), -1) + 1
NextPosition(row) ==
  IF authors[row] = {} THEN 0
  ELSE 1 + CHOOSE p \in Positions(row) : \A q \in Positions(row) : q <= p

Idle == [pc |-> "idle"]
NoLinks == [at |-> 1, next |-> 0, before |-> {}, known |-> {}, added |-> {}]
Open == {s \in Savers : tx[s].pc # "idle"}
Held(s) == IF s \in Open THEN tx[s].held ELSE {}

\* The lock a transaction asks for next, if it is at a lock.
Wanted(s) ==
  CASE tx[s].pc = "lock" ->
         {k \in tx[s].todo : \A l \in tx[s].todo \ {k} : Before(k, l)}
    [] tx[s].pc = "shared" ->
         {Shared(tx[s].rec)[i] : i \in {links[s].at} \cap 1..Len(Shared(tx[s].rec))}
    [] OTHER -> {}

\* The slot (item_id, position) an INSERT of a link must wait for: the same
\* slot inserted by a transaction that has not ended.
SlotTaken(s, t) ==
  /\ tx[s].pc = "attach" /\ t \in Open
  /\ tx[t].row = tx[s].row
  /\ \E link \in links[t].added : link[1] = links[s].next

WaitsFor(s, t) ==
  /\ s # t /\ s \in Open
  /\ Wanted(s) \cap Held(t) # {} \/ SlotTaken(s, t)

\* Everybody in D waits for somebody in D: PostgreSQL aborts one of them.
Deadlocked(D) == D # {} /\ \A s \in D : \E t \in D : WaitsFor(s, t)

-----------------------------------------------------------------------------
(* Reading the corpus.                                                     *)

ByDoi(r) == {i \in DOMAIN items : r.doi # None /\ items[i].doi = r.doi}
ByArxiv(r) == {i \in DOMAIN items : r.arxiv # None /\ items[i].arxiv = r.arxiv}
ByTitle(r) == {i \in DOMAIN items : items[i].title = r.title}
BySource(r) == IF r.source \in DOMAIN sources THEN {sources[r.source]} ELSE {}

\* _find_canonical: by DOI, then arXiv id, then title, then the source key.
\* Every key asked for is locked, so the four SELECTs are one step.
Candidates(r) ==
  IF ByDoi(r) # {} THEN ByDoi(r)
  ELSE IF ByArxiv(r) # {} THEN ByArxiv(r)
  ELSE IF ByTitle(r) # {} THEN ByTitle(r)
  ELSE BySource(r)

Larger(a, b) == IF a >= b THEN a ELSE b

\* _enrich_canonical: empty identities are filled in unless another row owns
\* them, the citation count only grows.
Enriched(row, r) ==
  [title |-> row.title,
   doi   |-> IF row.doi = None /\ r.doi # None /\ ByDoi(r) = {}
             THEN r.doi ELSE row.doi,
   arxiv |-> IF row.arxiv = None /\ r.arxiv # None /\ ByArxiv(r) = {}
             THEN r.arxiv ELSE row.arxiv,
   cites |-> Larger(row.cites, r.cites)]

NewRow(r) ==
  [title |-> r.title, doi |-> r.doi, arxiv |-> r.arxiv, cites |-> r.cites]

\* An UPDATE names only the columns that were changed in memory.
Written(row, seen, new) ==
  [c \in {"title", "doi", "arxiv", "cites"} |->
     IF new[c] # seen[c] THEN new[c] ELSE row[c]]

\* Rows nobody has inserted, committed or not (uuid4 never repeats).
FreeRows == Rows \ (DOMAIN items \cup {tx[s].row : s \in {u \in Open : tx[u].pc \notin {"lock", "find"}}})

-----------------------------------------------------------------------------
(* The transaction.                                                        *)

Init ==
  /\ items = <<>> /\ sources = <<>>
  /\ authors = [row \in Rows |-> {}]
  /\ tx = [s \in Savers |-> Idle]
  /\ links = [s \in Savers |-> NoLinks]
  /\ saves = [s \in Savers |-> MaxSaves]
  /\ errors = MaxErrors

\* save_collected begins; the keys are computed from the record alone.
Begin(s, r) ==
  /\ s \notin Open /\ saves[s] > 0
  /\ saves' = [saves EXCEPT ![s] = @ - 1]
  /\ tx' = [tx EXCEPT ![s] =
       [pc |-> "lock", rec |-> r, todo |-> LockKeys(r), held |-> {},
        row |-> None, seen |-> NewRow(r), new |-> NewRow(r),
        created |-> FALSE]]
  /\ UNCHANGED <<items, sources, authors, links, errors>>

\* pg_advisory_xact_lock on the least key that is left.
LockIdentity(s) ==
  /\ s \in Open /\ tx[s].pc = "lock"
  /\ \E k \in Wanted(s) :
       /\ \A t \in Savers \ {s} : k \notin Held(t)
       /\ tx' = [tx EXCEPT ![s].held = @ \cup {k}, ![s].todo = @ \ {k},
                           ![s].pc = IF tx[s].todo = {k} THEN "find" ELSE "lock"]
  /\ UNCHANGED <<items, sources, authors, links, saves, errors>>

AfterAttach(r, at) == IF at > Len(Shared(r)) THEN "commit" ELSE "shared"

\* The row is found or inserted (the INSERT is flushed at once), the source
\* record is upserted, the links and the last position are read.
FindOrInsert(s) ==
  /\ s \in Open /\ tx[s].pc = "find"
  /\ LET r == tx[s].rec
         found == Candidates(r)
     IN \/ \E row \in found :
             /\ tx' = [tx EXCEPT ![s].row = row, ![s].seen = items[row],
                                 ![s].new = Enriched(items[row], r),
                                 ![s].pc = AfterAttach(r, 1)]
             /\ links' = [links EXCEPT ![s] =
                            [NoLinks EXCEPT !.before = authors[row],
                                            !.known = Attached(row),
                                            !.next = NextPosition(row)]]
        \/ /\ found = {}
           /\ \E row \in FreeRows :
                tx' = [tx EXCEPT ![s].row = row, ![s].created = TRUE,
                                 ![s].pc = AfterAttach(r, 1)]
           /\ links' = [links EXCEPT ![s] = NoLinks]
  /\ UNCHANGED <<items, sources, authors, saves, errors>>

\* The lock of the next author, or the row of the next topic.
LockShared(s) ==
  /\ s \in Open /\ tx[s].pc = "shared"
  /\ \E k \in Wanted(s) :
       /\ \A t \in Savers \ {s} : k \notin Held(t)
       /\ tx' = [tx EXCEPT ![s].held = @ \cup {k},
                           ![s].pc = IF k[1] = 5 THEN "attach"
                                     ELSE AfterAttach(tx[s].rec, links[s].at + 1)]
       /\ links' = [links EXCEPT ![s].at = IF k[1] = 5 THEN @ ELSE @ + 1]
  /\ UNCHANGED <<items, sources, authors, saves, errors>>

\* INSERT INTO item_authors ... ON CONFLICT DO NOTHING: an author not yet
\* known takes the next position; a position somebody else has filled in the
\* meantime swallows the link, and the position advances all the same.
AttachAuthor(s) ==
  /\ s \in Open /\ tx[s].pc = "attach"
  /\ LET author == Shared(tx[s].rec)[links[s].at][2]
         next == links[s].next
         repeated == author \in links[s].known
         conflict == next \in Positions(tx[s].row) \/ author \in Attached(tx[s].row)
     IN /\ repeated \/ \A t \in Savers \ {s} : ~SlotTaken(s, t)
        /\ links' = [links EXCEPT
             ![s].added = IF repeated \/ conflict THEN @ ELSE @ \cup {<<next, author>>},
             ![s].next = IF repeated THEN @ ELSE @ + 1,
             ![s].known = @ \cup {author},
             ![s].at = @ + 1]
        /\ tx' = [tx EXCEPT ![s].pc = AfterAttach(tx[s].rec, links[s].at + 1)]
  /\ UNCHANGED <<items, sources, authors, saves, errors>>

RowAfter(s) ==
  IF tx[s].created THEN tx[s].new
  ELSE Written(items[tx[s].row], tx[s].seen, tx[s].new)

\* The last flush and COMMIT; the locks go with the transaction.
Commit(s) ==
  /\ s \in Open /\ tx[s].pc = "commit"
  /\ items' = [row \in DOMAIN items \cup {tx[s].row} |->
                 IF row = tx[s].row THEN RowAfter(s) ELSE items[row]]
  /\ sources' = [key \in DOMAIN sources \cup {tx[s].rec.source} |->
                   IF key = tx[s].rec.source THEN tx[s].row ELSE sources[key]]
  /\ authors' = [authors EXCEPT ![tx[s].row] = @ \cup links[s].added]
  /\ tx' = [tx EXCEPT ![s] = Idle]
  /\ links' = [links EXCEPT ![s] = NoLinks]
  /\ UNCHANGED <<saves, errors>>

\* ROLLBACK: nothing is written, every lock is released; ingest notes the
\* failure and goes on with the next record.
Rollback(s) ==
  /\ tx' = [tx EXCEPT ![s] = Idle]
  /\ links' = [links EXCEPT ![s] = NoLinks]
  /\ UNCHANGED <<items, sources, authors, saves>>

\* The deadlock detector of PostgreSQL.
DeadlockAbort(s) ==
  /\ \E D \in SUBSET Savers : s \in D /\ Deadlocked(D)
  /\ Rollback(s)
  /\ UNCHANGED errors

DatabaseError(s) ==
  /\ s \in Open /\ errors > 0
  /\ errors' = errors - 1
  /\ Rollback(s)

Next ==
  \E s \in Savers :
    \/ \E r \in Records : Begin(s, r)
    \/ LockIdentity(s) \/ FindOrInsert(s) \/ LockShared(s)
    \/ AttachAuthor(s) \/ Commit(s)
    \/ DeadlockAbort(s) \/ DatabaseError(s)

Spec == Init /\ [][Next]_vars

-----------------------------------------------------------------------------
(* Properties.                                                             *)

RowType == [title : Nat \ {None}, doi : Nat, arxiv : Nat, cites : Nat]

LockType == (1..6) \X Nat

Transaction ==
  [pc : {"lock", "find", "shared", "attach", "commit"}, rec : Records,
   todo : SUBSET LockType, held : SUBSET LockType,
   row : Rows \cup {None}, seen : RowType, new : RowType, created : BOOLEAN]

TypeOK ==
  /\ DOMAIN items \subseteq Rows
  /\ \A row \in DOMAIN items : items[row] \in RowType
  /\ \A key \in DOMAIN sources : sources[key] \in DOMAIN items
  /\ tx \in [Savers -> {Idle} \cup Transaction]
  /\ saves \in [Savers -> 0..MaxSaves] /\ errors \in 0..MaxErrors

\* What a transaction that has passed its SELECTs will leave in the table.
Pending == {s \in Open : tx[s].pc \notin {"lock", "find"}}
Same(a, b) == a # None /\ a = b

\* The unique indexes uq_items_normalized_title, uq_items_doi and
\* uq_items_arxiv_id never fire: the row a transaction inserts or enriches
\* clashes neither with a committed row nor with what another open
\* transaction is about to write, although between SELECT and INSERT nothing
\* but advisory locks stands.
UniqueKeys ==
  \A s \in Pending :
    LET new == RowAfter(s)
        others == {items[i] : i \in DOMAIN items \ {tx[s].row}}
                    \cup {RowAfter(t) : t \in {u \in Pending \ {s} : tx[u].row # tx[s].row}}
    IN \A row \in others :
         ~Same(new.title, row.title) /\ ~Same(new.doi, row.doi) /\ ~Same(new.arxiv, row.arxiv)

\* "Sorted locks avoid deadlocks when records share more than one identity":
\* savers that all wait for one another include one that waits for an author,
\* a topic or a link, never for identities alone.
IdentitiesNeverDeadlock ==
  \A D \in SUBSET Savers :
    Deadlocked(D) => \E s \in D : tx[s].pc # "lock"

Commits(s) == s \in Open /\ tx[s].pc = "commit" /\ tx'[s] = Idle /\ errors' = errors

\* A row only gains: its citation count never falls, an identity is never
\* replaced, and the authors of a saved record are attached, unless another
\* transaction changed the row, or its authors, between the SELECT and the
\* write: two records of one row may share no lock, and ON CONFLICT DO NOTHING
\* may hide that an author's position was taken.
RowsOnlyGain ==
  [][/\ \A row \in DOMAIN items :
          \/ /\ items'[row].cites >= items[row].cites
             /\ items[row].doi # None => items'[row].doi = items[row].doi
             /\ items[row].arxiv # None => items'[row].arxiv = items[row].arxiv
          \/ \E s \in Savers :
               Commits(s) /\ tx[s].row = row /\ tx[s].seen # items[row]
     /\ \A s \in Savers :
          Commits(s) /\ authors[tx[s].row] = links[s].before =>
            \A i \in 1..Len(tx[s].rec.authors) :
              \E link \in authors'[tx[s].row] : link[2] = tx[s].rec.authors[i]]_vars
=============================================================================
