---------------------------- MODULE CorpusProofs ----------------------------
(***************************************************************************)
(* That the unique indexes of `items` never fire: between the SELECTs and  *)
(* the write of a transaction the advisory locks keep every key it is      *)
(* about to write out of the committed table and out of everybody else's   *)
(* hands.                                                                  *)
(***************************************************************************)
EXTENDS Corpus, FiniteSetTheorems, TLAPS

Columns == {"title", "doi", "arxiv"}
Kind == [c \in Columns |-> IF c = "title" THEN 4 ELSE IF c = "doi" THEN 2 ELSE 1]

\* The transaction is about to put a key of its own into column c.
Writes(s, c) ==
  /\ tx[s].new[c] # None
  /\ tx[s].created \/ tx[s].new[c] # tx[s].seen[c]

\* No lock has two holders.
OneHolder == \A s, t \in Savers : s # t => Held(s) \cap Held(t) = {}

\* A transaction past its lock loop holds every identity of its record; up to
\* its SELECTs it has decided nothing.
LocksTaken ==
  \A s \in Open :
    /\ LockKeys(tx[s].rec) \subseteq tx[s].held \cup tx[s].todo
    /\ tx[s].pc # "lock" => tx[s].todo = {}
    /\ tx[s].pc \in {"lock", "find"} =>
         ~tx[s].created /\ tx[s].new = NewRow(tx[s].rec)

\* What it will write: a row of its own, or a row that is there.
RowFound ==
  \A s \in Pending :
    /\ tx[s].row \in Rows
    /\ tx[s].created => /\ tx[s].row \notin DOMAIN items
                        /\ \A t \in Pending \ {s} : tx[t].row # tx[s].row
    /\ ~tx[s].created => /\ tx[s].row \in DOMAIN items
                         /\ tx[s].new.title = tx[s].seen.title
    /\ \A c \in Columns :
         ~tx[s].created /\ tx[s].new[c] # tx[s].seen[c] => tx[s].new[c] # None

\* The keys it will write are locked, and nobody has them.
KeysReserved ==
  \A s \in Pending : \A c \in Columns :
    Writes(s, c) => /\ <<Kind[c], tx[s].new[c]>> \in tx[s].held
                    /\ \A i \in DOMAIN items : items[i][c] # tx[s].new[c]

\* The committed table obeys the unique indexes.
Unique ==
  \A i, j \in DOMAIN items : \A c \in Columns :
    i # j => ~Same(items[i][c], items[j][c])

IInv == TypeOK /\ OneHolder /\ LocksTaken /\ RowFound /\ KeysReserved /\ Unique
-----------------------------------------------------------------------------
(* What the helpers return.                                                *)

LEMMA LockKeysType ==
  ASSUME NEW r \in Records
  PROVE  /\ LockKeys(r) \subseteq LockType
         /\ <<3, r.source>> \in LockKeys(r) /\ <<4, r.title>> \in LockKeys(r)
         /\ r.doi # None => <<2, r.doi>> \in LockKeys(r)
         /\ r.arxiv # None => <<1, r.arxiv>> \in LockKeys(r)
BY RecordsAssumption DEF LockKeys, LockType, None

LEMMA NewRowType == ASSUME NEW r \in Records PROVE NewRow(r) \in RowType
BY RecordsAssumption DEF NewRow, RowType

LEMMA EnrichedType ==
  ASSUME NEW r \in Records, NEW row \in RowType
  PROVE  /\ Enriched(row, r) \in RowType
         /\ Enriched(row, r).title = row.title
         /\ Enriched(row, r).doi # row.doi =>
              Enriched(row, r).doi = r.doi /\ r.doi # None /\ ByDoi(r) = {}
         /\ Enriched(row, r).arxiv # row.arxiv =>
              Enriched(row, r).arxiv = r.arxiv /\ r.arxiv # None /\ ByArxiv(r) = {}
BY RecordsAssumption DEF Enriched, RowType, Larger
LEMMA RowColumns ==
  ASSUME NEW row \in RowType, NEW c \in Columns PROVE row[c] \in Nat
BY DEF RowType, Columns, None

LEMMA OpenType ==
  ASSUME TypeOK, NEW s \in Open
  PROVE  s \in Savers /\ tx[s] \in Transaction /\ Held(s) = tx[s].held
<1>1. s \in Savers /\ tx[s].pc # "idle" BY DEF Open
<1>2. tx[s] # Idle BY <1>1 DEF Idle
<1> QED BY <1>1, <1>2 DEF TypeOK, Held

LEMMA WrittenColumns ==
  ASSUME NEW row \in RowType, NEW seen \in RowType, NEW new \in RowType
  PROVE  /\ Written(row, seen, new) \in RowType
         /\ \A c \in Columns : Written(row, seen, new)[c] =
              IF new[c] # seen[c] THEN new[c] ELSE row[c]
<1> DEFINE w == Written(row, seen, new)
<1>1. w = [title |-> IF new.title # seen.title THEN new.title ELSE row.title,
           doi |-> IF new.doi # seen.doi THEN new.doi ELSE row.doi,
           arxiv |-> IF new.arxiv # seen.arxiv THEN new.arxiv ELSE row.arxiv,
           cites |-> IF new.cites # seen.cites THEN new.cites ELSE row.cites]
  BY DEF Written
<1>2. w \in RowType BY <1>1 DEF RowType
<1>3. \A c \in Columns : w[c] = IF new[c] # seen[c] THEN new[c] ELSE row[c]
  BY DEF Written, Columns
<1> QED BY <1>2, <1>3

-----------------------------------------------------------------------------
(* The steps.                                                              *)

\* The relation between a transaction and the table does not see a step that
\* only moves a transaction along and lets it take a free lock.
Moved(t, k, pc) ==
  [pc |-> pc, rec |-> t.rec, todo |-> t.todo \ k, held |-> t.held \cup k,
   row |-> t.row, seen |-> t.seen, new |-> t.new, created |-> t.created]

Moves(s) ==
  /\ s \in Open
  /\ \E k \in SUBSET LockType, pc \in {"lock", "find", "shared", "attach", "commit"} :
       /\ \A t \in Savers \ {s} : k \cap Held(t) = {}
       /\ tx'[s] = Moved(tx[s], k, pc) /\ tx' = [tx EXCEPT ![s] = tx'[s]]
       /\ pc \notin {"lock", "find"} => tx[s].pc \notin {"lock", "find"}
       /\ pc \in {"lock", "find"} => tx[s].pc \in {"lock", "find"}
       /\ pc # "lock" => tx[s].todo \subseteq k
  /\ UNCHANGED <<items, sources, errors, saves>>

LEMMA MovedFields ==
  ASSUME NEW t \in Transaction, NEW k \in SUBSET LockType,
         NEW pc \in {"lock", "find", "shared", "attach", "commit"}
  PROVE  Moved(t, k, pc) \in Transaction
<1>1. /\ t.rec \in Records /\ t.todo \subseteq LockType /\ t.held \subseteq LockType
      /\ t.row \in Rows \cup {None} /\ t.seen \in RowType /\ t.new \in RowType
      /\ t.created \in BOOLEAN
  BY DEF Transaction
<1> QED BY <1>1 DEF Moved, Transaction

LEMMA MoveKeeps ==
  ASSUME IInv, NEW s \in Savers, Moves(s)
  PROVE  IInv'
<1>1. PICK k \in SUBSET LockType, pc \in {"lock", "find", "shared", "attach", "commit"} :
        /\ \A t \in Savers \ {s} : k \cap Held(t) = {}
        /\ tx'[s] = Moved(tx[s], k, pc) /\ tx' = [tx EXCEPT ![s] = tx'[s]]
        /\ pc \notin {"lock", "find"} => tx[s].pc \notin {"lock", "find"}
        /\ pc \in {"lock", "find"} => tx[s].pc \in {"lock", "find"}
        /\ pc # "lock" => tx[s].todo \subseteq k
  BY DEF Moves
<1>2. s \in Open /\ items' = items /\ sources' = sources /\ errors' = errors /\ saves' = saves
  BY DEF Moves
<1>3. tx[s] \in Transaction /\ Held(s) = tx[s].held BY <1>2, OpenType DEF IInv
<1>4. tx \in [Savers -> {Idle} \cup Transaction] BY DEF IInv, TypeOK
<1>5. /\ \A t \in Savers \ {s} : tx'[t] = tx[t]
      /\ tx'[s] = Moved(tx[s], k, pc)
  BY <1>1, <1>4
<1>6. /\ tx'[s].pc = pc /\ tx'[s].rec = tx[s].rec /\ tx'[s].todo = tx[s].todo \ k
      /\ tx'[s].held = tx[s].held \cup k /\ tx'[s].row = tx[s].row
      /\ tx'[s].seen = tx[s].seen /\ tx'[s].new = tx[s].new
      /\ tx'[s].created = tx[s].created /\ tx'[s] \in Transaction
  <2>1. k \in SUBSET LockType /\ pc \in {"lock", "find", "shared", "attach", "commit"}
    BY <1>1
  <2>2. Moved(tx[s], k, pc) \in Transaction BY <2>1, <1>3, MovedFields
  <2> QED BY <2>2, <1>5 DEF Moved
<1>7. Open' = Open BY <1>2, <1>5, <1>6 DEF Open
<1>8. Pending' \subseteq Pending
  <2>1. \A t \in Open : tx'[t].pc \notin {"lock", "find"} => tx[t].pc \notin {"lock", "find"}
    BY <1>1, <1>5, <1>6 DEF Open
  <2> QED BY <1>7, <2>1 DEF Pending
<1>9. Held(s)' = tx[s].held \cup k /\ \A t \in Savers \ {s} : Held(t)' = Held(t)
  BY <1>2, <1>5, <1>6, <1>7 DEF Held
<1>10. TypeOK'
  <2>1. tx' \in [Savers -> {Idle} \cup Transaction] BY <1>1, <1>4, <1>5, <1>6
  <2> QED BY <2>1, <1>2 DEF IInv, TypeOK
<1>11. OneHolder' BY <1>1, <1>3, <1>9 DEF IInv, OneHolder
<1>12. LocksTaken'
  <2>1. \A t \in Open \ {s} : tx'[t] = tx[t] BY <1>5 DEF Open
  <2> QED BY <1>1, <1>2, <1>6, <1>7, <2>1 DEF IInv, LocksTaken
<1>13. RowFound'
  <2>1. \A t \in Pending : /\ tx'[t].row = tx[t].row /\ tx'[t].created = tx[t].created
                           /\ tx'[t].new = tx[t].new /\ tx'[t].seen = tx[t].seen
    BY <1>5, <1>6 DEF Pending, Open
  <2> QED BY <1>2, <1>8, <2>1 DEF IInv, RowFound
<1>14. KeysReserved'
  <2>1. \A t \in Pending : /\ tx'[t].created = tx[t].created /\ tx[t].held \subseteq tx'[t].held
                           /\ tx'[t].new = tx[t].new /\ tx'[t].seen = tx[t].seen
    BY <1>5, <1>6 DEF Pending, Open
  <2>2. \A t \in Pending, c \in Columns : Writes(t, c)' = Writes(t, c)
    BY <2>1 DEF Writes
  <2> QED BY <1>2, <1>8, <2>1, <2>2 DEF IInv, KeysReserved
<1>15. Unique' BY <1>2 DEF IInv, Unique
<1> QED BY <1>10, <1>11, <1>12, <1>13, <1>14, <1>15 DEF IInv
LEMMA LockIdentityMoves ==
  ASSUME IInv, NEW s \in Savers, LockIdentity(s) PROVE Moves(s)
<1>1. s \in Open /\ tx[s].pc = "lock" BY DEF LockIdentity
<1>2. PICK k \in Wanted(s) :
        /\ \A t \in Savers \ {s} : k \notin Held(t)
        /\ tx' = [tx EXCEPT ![s].held = @ \cup {k}, ![s].todo = @ \ {k},
                            ![s].pc = IF tx[s].todo = {k} THEN "find" ELSE "lock"]
  BY DEF LockIdentity
<1>3. tx[s] \in Transaction /\ tx \in [Savers -> {Idle} \cup Transaction]
  BY <1>1, OpenType DEF IInv, TypeOK
<1>4. k \in tx[s].todo BY <1>1, <1>2 DEF Wanted
<1>5. tx[s].todo \subseteq LockType BY <1>3 DEF Transaction
<1> DEFINE pc == IF tx[s].todo = {k} THEN "find" ELSE "lock"
<1>6. tx'[s] = [tx[s] EXCEPT !.held = @ \cup {k}, !.todo = @ \ {k}, !.pc = pc]
  BY <1>2, <1>3
<1>7. tx'[s] = Moved(tx[s], {k}, pc) /\ tx' = [tx EXCEPT ![s] = tx'[s]]
  <2> HIDE DEF pc
  <2>1. tx'[s] = Moved(tx[s], {k}, pc) BY <1>3, <1>6 DEF Transaction, Moved
  <2> QED BY <2>1, <1>2
<1>8. {k} \in SUBSET LockType /\ pc \in {"lock", "find", "shared", "attach", "commit"}
  BY <1>4, <1>5
<1>9. \A t \in Savers \ {s} : {k} \cap Held(t) = {} BY <1>2
<1>10. /\ pc \notin {"lock", "find"} => tx[s].pc \notin {"lock", "find"}
       /\ pc \in {"lock", "find"} => tx[s].pc \in {"lock", "find"}
       /\ pc # "lock" => tx[s].todo \subseteq {k}
  BY <1>1
<1>11. UNCHANGED <<items, sources, errors, saves>> BY DEF LockIdentity
<1> HIDE DEF pc
<1> QED BY <1>1, <1>7, <1>8, <1>9, <1>10, <1>11 DEF Moves

LEMMA SharedType ==
  ASSUME NEW r \in Records
  PROVE  \A i \in 1..Len(Shared(r)) : Shared(r)[i] \in LockType
<1>1. r.authors \in Seq(Nat) /\ r.topics \in Seq(Nat) BY RecordsAssumption
<1> DEFINE a == [i \in 1..Len(r.authors) |-> <<5, r.authors[i]>>]
           b == [i \in 1..Len(r.topics) |-> <<6, r.topics[i]>>]
<1>2. a \in Seq(LockType)
  <2>1. \A i \in 1..Len(r.authors) : <<5, r.authors[i]>> \in LockType BY <1>1 DEF LockType
  <2>2. Len(r.authors) \in Nat BY <1>1
  <2> QED BY <2>1, <2>2
<1>3. b \in Seq(LockType)
  <2>1. \A i \in 1..Len(r.topics) : <<6, r.topics[i]>> \in LockType BY <1>1 DEF LockType
  <2>2. Len(r.topics) \in Nat BY <1>1
  <2> QED BY <2>1, <2>2
<1> HIDE DEF a, b
<1>4. a \o b \in Seq(LockType) BY <1>2, <1>3
<1>5. Shared(r) = a \o b BY DEF Shared, a, b
<1> QED BY <1>4, <1>5

\* The row that is found or made, with what is read of it and of its authors.
LEMMA RowOutcome ==
  ASSUME IInv, NEW s \in Savers, FindOrInsert(s)
  PROVE  /\ tx'[s] \in Transaction /\ tx'[s].pc = AfterAttach(tx[s].rec, 1)
         /\ tx'[s].rec = tx[s].rec /\ tx'[s].todo = {} /\ tx'[s].held = tx[s].held
         /\ \/ /\ tx'[s].row \in DOMAIN items /\ tx'[s].created = tx[s].created
               /\ tx'[s].seen = items[tx'[s].row]
               /\ tx'[s].new = Enriched(tx'[s].seen, tx[s].rec)
               /\ links' = [links EXCEPT ![s] =
                              [NoLinks EXCEPT !.before = authors[tx'[s].row],
                                              !.known = Attached(tx'[s].row),
                                              !.next = NextPosition(tx'[s].row)]]
            \/ /\ tx'[s].row \in FreeRows /\ tx'[s].created = TRUE
               /\ Candidates(tx[s].rec) = {} /\ tx'[s].new = tx[s].new
               /\ links' = [links EXCEPT ![s] = NoLinks]
<1> DEFINE r == tx[s].rec
           pc == AfterAttach(r, 1)
           t == tx'[s]
           Read(row) == [NoLinks EXCEPT !.before = authors[row], !.known = Attached(row),
                                        !.next = NextPosition(row)]
<1>1. s \in Open /\ tx[s].pc = "find" /\ items' = items /\ sources' = sources
  BY DEF FindOrInsert
<1>2. tx[s] \in Transaction /\ tx \in [Savers -> {Idle} \cup Transaction]
  BY <1>1, OpenType DEF IInv, TypeOK
<1>3. /\ r \in Records /\ tx[s].todo \subseteq LockType /\ tx[s].held \subseteq LockType
      /\ tx[s].seen \in RowType /\ tx[s].new \in RowType /\ tx[s].created \in BOOLEAN
  BY <1>2 DEF Transaction
<1>4. tx[s].todo = {} BY <1>1 DEF IInv, LocksTaken
<1>5. pc \in {"shared", "commit"} BY DEF AfterAttach
<1> HIDE DEF pc
<1>6. ASSUME NEW row \in Candidates(r),
             tx' = [tx EXCEPT ![s].row = row, ![s].seen = items[row],
                              ![s].new = Enriched(items[row], r), ![s].pc = pc]
      PROVE  /\ t \in Transaction /\ t.pc = pc /\ t.rec = r /\ t.todo = {} /\ t.held = tx[s].held
             /\ t.row = row /\ row \in DOMAIN items /\ t.created = tx[s].created
             /\ t.seen = items[row] /\ t.new = Enriched(items[row], r)
  <2>1. row \in DOMAIN items
    BY <1>1 DEF IInv, TypeOK, Candidates, ByDoi, ByArxiv, ByTitle, BySource
  <2>2. items[row] \in RowType /\ row \in Rows BY <2>1 DEF IInv, TypeOK
  <2>3. Enriched(items[row], r) \in RowType BY <1>3, <2>2, EnrichedType
  <2>4. t = [pc |-> pc, rec |-> r, todo |-> tx[s].todo, held |-> tx[s].held, row |-> row,
             seen |-> items[row], new |-> Enriched(items[row], r), created |-> tx[s].created]
    <3> HIDE DEF r
    <3>1. t = [tx[s] EXCEPT !.row = row, !.seen = items[row],
                            !.new = Enriched(items[row], r), !.pc = pc]
      BY <1>2, <1>6
    <3> QED BY <3>1, <1>2 DEF Transaction, r
  <2>5. t \in Transaction BY <1>3, <1>5, <2>2, <2>3, <2>4 DEF Transaction
  <2> QED BY <1>4, <2>1, <2>4, <2>5
<1>7. ASSUME NEW row \in FreeRows,
             tx' = [tx EXCEPT ![s].row = row, ![s].created = TRUE, ![s].pc = pc]
      PROVE  /\ t \in Transaction /\ t.pc = pc /\ t.rec = r /\ t.todo = {} /\ t.held = tx[s].held
             /\ t.row = row /\ t.created = TRUE /\ t.new = tx[s].new
  <2>1. row \in Rows BY DEF FreeRows
  <2>2. t = [pc |-> pc, rec |-> r, todo |-> tx[s].todo, held |-> tx[s].held, row |-> row,
             seen |-> tx[s].seen, new |-> tx[s].new, created |-> TRUE]
    <3> HIDE DEF r
    <3>1. t = [tx[s] EXCEPT !.row = row, !.created = TRUE, !.pc = pc] BY <1>2, <1>7
    <3> QED BY <3>1, <1>2 DEF Transaction, r
  <2>3. t \in Transaction BY <1>3, <1>5, <2>1, <2>2 DEF Transaction
  <2> QED BY <1>4, <2>2, <2>3
<1>8. CASE \E row \in Candidates(r) :
             /\ tx' = [tx EXCEPT ![s].row = row, ![s].seen = items[row],
                                 ![s].new = Enriched(items[row], r), ![s].pc = pc]
             /\ links' = [links EXCEPT ![s] = Read(row)]
  <2>1. PICK row \in Candidates(r) :
             /\ tx' = [tx EXCEPT ![s].row = row, ![s].seen = items[row],
                                 ![s].new = Enriched(items[row], r), ![s].pc = pc]
             /\ links' = [links EXCEPT ![s] = Read(row)]
    BY <1>8
  <2>2. /\ t \in Transaction /\ t.pc = pc /\ t.rec = r /\ t.todo = {} /\ t.held = tx[s].held
        /\ t.row = row /\ row \in DOMAIN items /\ t.created = tx[s].created
        /\ t.seen = items[row] /\ t.new = Enriched(items[row], r)
    BY <1>6, <2>1
  <2> HIDE DEF Read, t, r
  <2>3. links' = [links EXCEPT ![s] = Read(t.row)] BY <2>1, <2>2
  <2> QED BY <2>2, <2>3 DEF Read, t, r, pc
<1>9. CASE /\ Candidates(r) = {}
           /\ \E row \in FreeRows :
                tx' = [tx EXCEPT ![s].row = row, ![s].created = TRUE, ![s].pc = pc]
           /\ links' = [links EXCEPT ![s] = NoLinks]
  <2>1. PICK row \in FreeRows :
             tx' = [tx EXCEPT ![s].row = row, ![s].created = TRUE, ![s].pc = pc]
    BY <1>9
  <2>2. /\ t \in Transaction /\ t.pc = pc /\ t.rec = r /\ t.todo = {} /\ t.held = tx[s].held
        /\ t.row = row /\ t.created = TRUE /\ t.new = tx[s].new
    BY <1>7, <2>1
  <2> HIDE DEF t, r
  <2> QED BY <1>9, <2>1, <2>2 DEF t, r, pc
<1> QED BY <1>8, <1>9 DEF FindOrInsert, pc

LEMMA FindOrInsertKeeps ==
  ASSUME IInv, NEW s \in Savers, FindOrInsert(s) PROVE IInv'
<1> DEFINE r == tx[s].rec
           t == tx'[s]
<1>1. /\ s \in Open /\ tx[s].pc = "find" /\ items' = items /\ sources' = sources
      /\ saves' = saves /\ errors' = errors
  BY DEF FindOrInsert
<1>2. tx[s] \in Transaction /\ tx \in [Savers -> {Idle} \cup Transaction]
  BY <1>1, OpenType DEF IInv, TypeOK
<1>3. /\ r \in Records /\ tx[s].todo \subseteq LockType /\ tx[s].held \subseteq LockType
      /\ tx[s].row \in Rows \cup {None} /\ tx[s].seen \in RowType /\ tx[s].new \in RowType
      /\ tx[s].created \in BOOLEAN
  BY <1>2 DEF Transaction
<1>4. LockKeys(r) \subseteq tx[s].held /\ tx[s].todo = {}
  BY <1>1 DEF IInv, LocksTaken
<1>6. \A u \in Savers \ {s} : tx'[u] = tx[u] BY <1>2 DEF FindOrInsert
<1>7. /\ t \in Transaction /\ t.pc \in {"shared", "commit"} /\ t.rec = r
      /\ t.todo = {} /\ t.held = tx[s].held
      /\ \/ /\ t.row \in DOMAIN items /\ t.created = tx[s].created
            /\ t.seen = items[t.row] /\ t.new = Enriched(t.seen, r)
         \/ /\ t.row \in FreeRows /\ t.created = TRUE /\ Candidates(r) = {}
            /\ t.new = tx[s].new
  BY RowOutcome DEF AfterAttach
<1>8. Open' = Open BY <1>1, <1>6, <1>7 DEF Open
<1>9. Pending' = Pending \cup {s} BY <1>1, <1>6, <1>7, <1>8 DEF Pending, Open
<1>10. s \notin Pending BY <1>1 DEF Pending
<1>11. \A u \in Savers : Held(u)' = Held(u)
  BY <1>1, <1>6, <1>7, <1>8 DEF Held
<1>12. TypeOK'
  <2>1. DOMAIN tx' = Savers BY <1>2 DEF FindOrInsert
  <2>2. tx' = [u \in Savers |-> tx'[u]] BY <1>2, <2>1 DEF FindOrInsert
  <2>3. tx' \in [Savers -> {Idle} \cup Transaction]
    <3> HIDE DEF t
    <3>1. \A u \in Savers \ {s} : tx'[u] \in {Idle} \cup Transaction BY <1>2, <1>6
    <3>2. tx'[s] \in Transaction BY <1>7 DEF t
    <3> QED BY <2>2, <3>1, <3>2
  <2> QED BY <1>1, <2>3 DEF IInv, TypeOK
<1>13. OneHolder' BY <1>11 DEF IInv, OneHolder
<1>14. LocksTaken'
  <2>1. \A u \in Open \ {s} : tx'[u] = tx[u] BY <1>6 DEF Open
  <2>2. /\ LockKeys(t.rec) \subseteq t.held \cup t.todo /\ t.todo = {}
        /\ t.pc \notin {"lock", "find"}
    BY <1>4, <1>7
  <2> HIDE DEF t
  <2> QED BY <1>8, <2>1, <2>2 DEF IInv, LocksTaken, t
<1>15. tx[s].created = FALSE /\ tx[s].new = NewRow(r)
  BY <1>1, <1>3 DEF IInv, LocksTaken
<1>16. RowFound'
  <2>1. \A u \in Pending : tx'[u] = tx[u] /\ u # s BY <1>6, <1>10 DEF Pending, Open
  <2>2. CASE t.created
    <3>1. t.row \in FreeRows /\ t.new = NewRow(r) BY <1>7, <1>15, <2>2
    <3>2. t.row \in Rows /\ t.row \notin DOMAIN items /\ \A u \in Pending : tx[u].row # t.row
      BY <3>1 DEF FreeRows, Pending
    <3> HIDE DEF t
    <3> QED BY <1>1, <1>9, <2>1, <2>2, <3>2 DEF IInv, RowFound, t
  <2>3. CASE ~t.created
    <3>1. t.row \in DOMAIN items /\ t.seen = items[t.row] /\ t.new = Enriched(t.seen, r)
      BY <1>7, <2>3
    <3>2. t.row \in Rows /\ t.seen \in RowType BY <3>1 DEF IInv, TypeOK
    <3>3. t.new.title = t.seen.title BY <1>3, <3>1, <3>2, EnrichedType
    <3>4. \A c \in Columns : t.new[c] # t.seen[c] => t.new[c] # None
      <4> HIDE DEF t, r
      <4> QED BY <1>3, <3>1, <3>2, EnrichedType DEF Columns, r
    <3>5. \A u \in Pending : tx[u].created => tx[u].row # t.row
      BY <3>1 DEF IInv, RowFound
    <3> HIDE DEF t
    <3> QED BY <1>1, <1>9, <2>1, <2>3, <3>1, <3>2, <3>3, <3>4, <3>5 DEF IInv, RowFound, t
  <2> QED BY <2>2, <2>3
<1>17. KeysReserved'
  <2>1. \A u \in Pending : tx'[u] = tx[u] /\ u # s BY <1>6, <1>10 DEF Pending, Open
  <2>2. \A u \in Pending, c \in Columns : Writes(u, c)' = Writes(u, c) BY <2>1 DEF Writes
  <2>3. ASSUME NEW c \in Columns, t.new[c] # None, t.created \/ t.new[c] # t.seen[c]
        PROVE  /\ <<Kind[c], t.new[c]>> \in t.held
               /\ \A i \in DOMAIN items : items[i][c] # t.new[c]
    <3>1. CASE t.created
      <4>1. Candidates(r) = {} /\ t.new = NewRow(r) BY <1>7, <1>15, <3>1
      <4>2. ByDoi(r) = {} /\ ByArxiv(r) = {} /\ ByTitle(r) = {}
        BY <4>1 DEF Candidates
      <4>3. /\ t.new.title = r.title /\ t.new.doi = r.doi /\ t.new.arxiv = r.arxiv
        BY <4>1 DEF NewRow
      <4>4. /\ Kind["title"] = 4 /\ Kind["doi"] = 2 /\ Kind["arxiv"] = 1
        BY DEF Kind, Columns
      <4>5. LockKeys(r) \subseteq t.held BY <1>4, <1>7
      <4> HIDE DEF t, r
      <4>6. CASE c = "title" BY <1>3, <2>3, <4>2, <4>3, <4>4, <4>5, <4>6, LockKeysType DEF ByTitle
      <4>7. CASE c = "doi" BY <1>3, <2>3, <4>2, <4>3, <4>4, <4>5, <4>7, LockKeysType DEF ByDoi
      <4>8. CASE c = "arxiv" BY <1>3, <2>3, <4>2, <4>3, <4>4, <4>5, <4>8, LockKeysType DEF ByArxiv
      <4> QED BY <4>6, <4>7, <4>8 DEF Columns
    <3>2. CASE ~t.created
      <4>1. t.row \in DOMAIN items /\ t.seen = items[t.row] /\ t.new = Enriched(t.seen, r)
        BY <1>7, <3>2
      <4>2. t.seen \in RowType BY <4>1 DEF IInv, TypeOK
      <4>3. /\ t.new.title = t.seen.title
            /\ t.new.doi # t.seen.doi => t.new.doi = r.doi /\ r.doi # None /\ ByDoi(r) = {}
            /\ t.new.arxiv # t.seen.arxiv =>
                 t.new.arxiv = r.arxiv /\ r.arxiv # None /\ ByArxiv(r) = {}
        <5> HIDE DEF t, r
        <5> QED BY <1>3, <4>1, <4>2, EnrichedType DEF r
      <4>4. /\ Kind["doi"] = 2 /\ Kind["arxiv"] = 1
        BY DEF Kind, Columns
      <4>5. LockKeys(r) \subseteq t.held BY <1>4, <1>7
      <4> HIDE DEF t, r
      <4>6. CASE c = "title" BY <2>3, <3>2, <4>3, <4>6
      <4>7. CASE c = "doi" BY <1>3, <2>3, <3>2, <4>3, <4>4, <4>5, <4>7, LockKeysType DEF ByDoi
      <4>8. CASE c = "arxiv" BY <1>3, <2>3, <3>2, <4>3, <4>4, <4>5, <4>8, LockKeysType DEF ByArxiv
      <4> QED BY <4>6, <4>7, <4>8 DEF Columns
    <3> QED BY <3>1, <3>2
  <2>4. \A c \in Columns : Writes(s, c)' => t.new[c] # None /\ (t.created \/ t.new[c] # t.seen[c])
    BY DEF Writes
  <2> HIDE DEF t
  <2> QED BY <1>1, <1>9, <2>1, <2>2, <2>3, <2>4 DEF IInv, KeysReserved, t
<1>18. Unique' BY <1>1 DEF IInv, Unique
<1> QED BY <1>12, <1>13, <1>14, <1>16, <1>17, <1>18 DEF IInv
LEMMA LockSharedMoves ==
  ASSUME IInv, NEW s \in Savers, LockShared(s) PROVE Moves(s)
<1>1. s \in Open /\ tx[s].pc = "shared" BY DEF LockShared
<1>2. PICK k \in Wanted(s) :
        /\ \A t \in Savers \ {s} : k \notin Held(t)
        /\ tx' = [tx EXCEPT ![s].held = @ \cup {k},
                            ![s].pc = IF k[1] = 5 THEN "attach"
                                      ELSE AfterAttach(tx[s].rec, links[s].at + 1)]
  BY DEF LockShared
<1>3. tx[s] \in Transaction /\ tx \in [Savers -> {Idle} \cup Transaction] /\ tx[s].rec \in Records
  BY <1>1, OpenType DEF IInv, TypeOK, Transaction
<1>4. k \in LockType BY <1>1, <1>2, <1>3, SharedType DEF Wanted
<1>5. tx[s].todo = {} BY <1>1 DEF IInv, LocksTaken
<1> DEFINE pc == IF k[1] = 5 THEN "attach" ELSE AfterAttach(tx[s].rec, links[s].at + 1)
<1>6. pc \in {"shared", "attach", "commit"} BY DEF AfterAttach
<1>7. tx'[s] = [tx[s] EXCEPT !.held = @ \cup {k}, !.pc = pc] BY <1>2, <1>3
<1>8. tx'[s] = Moved(tx[s], {k}, pc) /\ tx' = [tx EXCEPT ![s] = tx'[s]]
  <2> HIDE DEF pc
  <2>1. tx[s].todo \ {k} = tx[s].todo BY <1>5
  <2>2. tx'[s] = Moved(tx[s], {k}, pc) BY <1>3, <1>7, <2>1 DEF Transaction, Moved
  <2> QED BY <2>2, <1>2
<1>9. \A t \in Savers \ {s} : {k} \cap Held(t) = {} BY <1>2
<1>10. UNCHANGED <<items, sources, errors, saves>> BY DEF LockShared
<1>11. {k} \in SUBSET LockType BY <1>4
<1> HIDE DEF pc
<1> QED BY <1>1, <1>5, <1>6, <1>8, <1>9, <1>10, <1>11 DEF Moves

LEMMA AttachAuthorMoves ==
  ASSUME IInv, NEW s \in Savers, AttachAuthor(s) PROVE Moves(s)
<1>1. s \in Open /\ tx[s].pc = "attach" BY DEF AttachAuthor
<1> DEFINE pc == AfterAttach(tx[s].rec, links[s].at + 1)
<1>2. tx' = [tx EXCEPT ![s].pc = pc] BY DEF AttachAuthor
<1>3. tx[s] \in Transaction /\ tx \in [Savers -> {Idle} \cup Transaction]
  BY <1>1, OpenType DEF IInv, TypeOK
<1>4. tx[s].todo = {} BY <1>1 DEF IInv, LocksTaken
<1>5. pc \in {"shared", "commit"} BY DEF AfterAttach
<1>6. tx'[s] = [tx[s] EXCEPT !.pc = pc] BY <1>2, <1>3
<1>7. tx'[s] = Moved(tx[s], {}, pc) /\ tx' = [tx EXCEPT ![s] = tx'[s]]
  <2> HIDE DEF pc
  <2>1. tx[s].todo \ {} = tx[s].todo /\ tx[s].held \cup {} = tx[s].held OBVIOUS
  <2>2. tx'[s] = Moved(tx[s], {}, pc) BY <1>3, <1>6, <2>1 DEF Transaction, Moved
  <2> QED BY <2>2, <1>2
<1>8. UNCHANGED <<items, sources, errors, saves>> BY DEF AttachAuthor
<1>9. {} \in SUBSET LockType /\ \A t \in Savers \ {s} : {} \cap Held(t) = {} OBVIOUS
<1> HIDE DEF pc
<1> QED BY <1>1, <1>4, <1>5, <1>7, <1>8, <1>9 DEF Moves

LEMMA BeginKeeps ==
  ASSUME IInv, NEW s \in Savers, NEW r \in Records, Begin(s, r) PROVE IInv'
<1> DEFINE t == [pc |-> "lock", rec |-> r, todo |-> LockKeys(r), held |-> {},
                 row |-> None, seen |-> NewRow(r), new |-> NewRow(r), created |-> FALSE]
<1>1. /\ s \notin Open /\ saves[s] > 0 /\ saves' = [saves EXCEPT ![s] = @ - 1]
      /\ tx' = [tx EXCEPT ![s] = t]
      /\ items' = items /\ sources' = sources /\ errors' = errors
  BY DEF Begin
<1>2. tx \in [Savers -> {Idle} \cup Transaction] /\ saves \in [Savers -> 0..MaxSaves]
  BY DEF IInv, TypeOK
<1>3. NewRow(r) \in RowType /\ LockKeys(r) \subseteq LockType BY NewRowType, LockKeysType
<1>4. t \in Transaction BY <1>3 DEF Transaction
<1>5. tx'[s] = t /\ \A u \in Savers \ {s} : tx'[u] = tx[u] BY <1>1, <1>2
<1>6. Open' = Open \cup {s}
  <2>1. t.pc # "idle" OBVIOUS
  <2> HIDE DEF t
  <2> QED BY <1>5, <2>1 DEF Open
<1>7. Pending' = Pending /\ \A u \in Pending : tx'[u] = tx[u]
  <2>1. t.pc = "lock" OBVIOUS
  <2> HIDE DEF t
  <2> QED BY <1>1, <1>5, <1>6, <2>1 DEF Pending, Open
<1>8. Held(s)' = {} /\ \A u \in Savers \ {s} : Held(u)' = Held(u)
  <2>1. t.held = {} OBVIOUS
  <2> HIDE DEF t
  <2> QED BY <1>5, <1>6, <2>1 DEF Held
<1>9. TypeOK'
  <2>1. tx' \in [Savers -> {Idle} \cup Transaction]
    <3> HIDE DEF t
    <3> QED BY <1>1, <1>2, <1>4
  <2>2. saves' \in [Savers -> 0..MaxSaves] BY <1>1, <1>2, RecordsAssumption
  <2> QED BY <1>1, <2>1, <2>2 DEF IInv, TypeOK
<1>10. OneHolder' BY <1>8 DEF IInv, OneHolder
<1>11. LocksTaken'
  <2>1. \A u \in Open : tx'[u] = tx[u] BY <1>1, <1>5 DEF Open
  <2>2. /\ LockKeys(t.rec) \subseteq t.held \cup t.todo /\ t.pc = "lock"
        /\ ~t.created /\ t.new = NewRow(t.rec)
    OBVIOUS
  <2> HIDE DEF t
  <2> QED BY <1>5, <1>6, <2>1, <2>2 DEF IInv, LocksTaken
<1> HIDE DEF t
<1>12. RowFound' BY <1>1, <1>7 DEF IInv, RowFound
<1>13. \A u \in Pending, c \in Columns : Writes(u, c)' = Writes(u, c) BY <1>7 DEF Writes
<1>14. KeysReserved' BY <1>1, <1>7, <1>13 DEF IInv, KeysReserved
<1>15. Unique' BY <1>1 DEF IInv, Unique
<1> QED BY <1>9, <1>10, <1>11, <1>12, <1>14, <1>15 DEF IInv

\* What remains when a transaction is gone.
LEMMA Gone ==
  ASSUME IInv, NEW s \in Savers, tx' = [tx EXCEPT ![s] = Idle]
  PROVE  /\ Open' = Open \ {s} /\ Pending' = Pending \ {s}
         /\ tx' \in [Savers -> {Idle} \cup Transaction]
         /\ \A u \in Savers \ {s} : tx'[u] = tx[u] /\ Held(u)' = Held(u)
         /\ OneHolder' /\ LocksTaken'
<1>1. tx \in [Savers -> {Idle} \cup Transaction] BY DEF IInv, TypeOK
<1>2. tx'[s] = Idle /\ \A u \in Savers \ {s} : tx'[u] = tx[u] BY <1>1
<1>3. Open' = Open \ {s} BY <1>2 DEF Open, Idle
<1>4. Pending' = Pending \ {s} BY <1>2, <1>3 DEF Pending, Open
<1>5. tx' \in [Savers -> {Idle} \cup Transaction] BY <1>1
<1>6. Held(s)' = {} /\ \A u \in Savers \ {s} : Held(u)' = Held(u) BY <1>2, <1>3 DEF Held
<1>7. OneHolder' BY <1>6 DEF IInv, OneHolder
<1>8. LocksTaken'
  <2>1. \A u \in Open \ {s} : tx'[u] = tx[u] BY <1>2 DEF Open
  <2> QED BY <1>3, <2>1 DEF IInv, LocksTaken
<1> QED BY <1>2, <1>3, <1>4, <1>5, <1>6, <1>7, <1>8

LEMMA RollbackKeeps ==
  ASSUME IInv, NEW s \in Savers, Rollback(s), errors' \in 0..MaxErrors PROVE IInv'
<1>1. /\ tx' = [tx EXCEPT ![s] = Idle]
      /\ items' = items /\ sources' = sources /\ saves' = saves
  BY DEF Rollback
<1>2. TypeOK' BY <1>1, Gone DEF IInv, TypeOK
<1>3. \A u \in Pending' : u \in Pending /\ tx'[u] = tx[u]
  BY <1>1, Gone DEF Pending, Open
<1>4. RowFound' BY <1>1, <1>3 DEF IInv, RowFound
<1>5. \A u \in Pending', c \in Columns : Writes(u, c)' = Writes(u, c) BY <1>3 DEF Writes
<1>6. KeysReserved' BY <1>1, <1>3, <1>5 DEF IInv, KeysReserved
<1>7. Unique' BY <1>1 DEF IInv, Unique
<1> QED BY <1>1, <1>2, <1>4, <1>6, <1>7, Gone DEF IInv
\* What a pending transaction leaves in a column: its own key, or what is in
\* the row already.
LEMMA ColumnAfter ==
  ASSUME IInv, NEW s \in Pending
  PROVE  /\ RowAfter(s) \in RowType
         /\ \A c \in Columns : RowAfter(s)[c] =
              IF Writes(s, c) THEN tx[s].new[c]
              ELSE IF tx[s].created THEN None ELSE items[tx[s].row][c]
<1>1. s \in Open BY DEF Pending
<1>2. tx[s] \in Transaction BY <1>1, OpenType DEF IInv
<1>3. tx[s].new \in RowType /\ tx[s].seen \in RowType BY <1>2 DEF Transaction
<1>4. CASE tx[s].created
  <2>1. RowAfter(s) = tx[s].new BY <1>4 DEF RowAfter
  <2> QED BY <1>3, <1>4, <2>1 DEF Writes
<1>5. CASE ~tx[s].created
  <2>1. tx[s].row \in DOMAIN items BY <1>5 DEF IInv, RowFound
  <2>2. items[tx[s].row] \in RowType BY <2>1 DEF IInv, TypeOK
  <2>3. RowAfter(s) = Written(items[tx[s].row], tx[s].seen, tx[s].new) BY <1>5 DEF RowAfter
  <2>4. \A c \in Columns : tx[s].new[c] # tx[s].seen[c] => tx[s].new[c] # None
    BY <1>5 DEF IInv, RowFound
  <2> QED BY <1>3, <1>5, <2>2, <2>3, <2>4, WrittenColumns DEF Writes
<1> QED BY <1>4, <1>5

\* Two transactions never write the same key.
LEMMA WritersDiffer ==
  ASSUME IInv, NEW s \in Pending, NEW t \in Pending, s # t, NEW c \in Columns,
         Writes(s, c), Writes(t, c)
  PROVE  tx[s].new[c] # tx[t].new[c]
<1>1. s \in Open /\ t \in Open BY DEF Pending
<1>2. Held(s) = tx[s].held /\ Held(t) = tx[t].held /\ s \in Savers /\ t \in Savers
  BY <1>1, OpenType DEF IInv
<1>3. /\ <<Kind[c], tx[s].new[c]>> \in tx[s].held /\ <<Kind[c], tx[t].new[c]>> \in tx[t].held
  BY DEF IInv, KeysReserved
<1>4. tx[s].held \cap tx[t].held = {} BY <1>2 DEF IInv, OneHolder
<1> QED BY <1>3, <1>4

\* A row about to be written clashes with no other committed row.
LEMMA AfterIsNew ==
  ASSUME IInv, NEW s \in Pending, NEW i \in DOMAIN items, i # tx[s].row, NEW c \in Columns
  PROVE  ~Same(RowAfter(s)[c], items[i][c])
<1>1. CASE Writes(s, c)
  <2>1. RowAfter(s)[c] = tx[s].new[c] BY <1>1, ColumnAfter
  <2>2. items[i][c] # tx[s].new[c] BY <1>1 DEF IInv, KeysReserved
  <2> QED BY <2>1, <2>2 DEF Same
<1>2. CASE ~Writes(s, c) /\ tx[s].created BY <1>2, ColumnAfter DEF Same
<1>3. CASE ~Writes(s, c) /\ ~tx[s].created
  <2>1. tx[s].row \in DOMAIN items BY <1>3 DEF IInv, RowFound
  <2>2. RowAfter(s)[c] = items[tx[s].row][c] BY <1>3, ColumnAfter
  <2> QED BY <2>1, <2>2 DEF IInv, Unique, Same
<1> QED BY <1>1, <1>2, <1>3

LEMMA CommitKeeps ==
  ASSUME IInv, NEW s \in Savers, Commit(s) PROVE IInv'
<1> DEFINE row == tx[s].row
           after == RowAfter(s)
<1>1. /\ s \in Open /\ tx[s].pc = "commit"
      /\ items' = [i \in DOMAIN items \cup {row} |-> IF i = row THEN after ELSE items[i]]
      /\ sources' = [key \in DOMAIN sources \cup {tx[s].rec.source} |->
                       IF key = tx[s].rec.source THEN row ELSE sources[key]]
      /\ tx' = [tx EXCEPT ![s] = Idle] /\ saves' = saves /\ errors' = errors
  BY DEF Commit
<1>2. s \in Pending BY <1>1 DEF Pending
<1>3. row \in Rows /\ after \in RowType BY <1>2, ColumnAfter DEF IInv, RowFound
<1> HIDE DEF row, after
<1>4. /\ DOMAIN items' = DOMAIN items \cup {row} /\ items'[row] = after
      /\ \A i \in DOMAIN items \ {row} : items'[i] = items[i]
  BY <1>1
<1>5. TypeOK'
  <2>1. \A i \in DOMAIN items' : items'[i] \in RowType BY <1>3, <1>4 DEF IInv, TypeOK
  <2>2. DOMAIN items' \subseteq Rows BY <1>3, <1>4 DEF IInv, TypeOK
  <2>3. \A key \in DOMAIN sources' : sources'[key] \in DOMAIN items'
    BY <1>1, <1>4 DEF IInv, TypeOK
  <2> QED BY <1>1, <2>1, <2>2, <2>3, Gone DEF IInv, TypeOK
<1>6. \A u \in Pending' : u \in Pending /\ u # s /\ tx'[u] = tx[u]
  BY <1>1, Gone DEF Pending, Open
<1>7. \A u \in Pending', c \in Columns : Writes(u, c)' = Writes(u, c) BY <1>6 DEF Writes
<1>8. RowFound'
  <2>1. ASSUME NEW u \in Pending', tx[u].created PROVE tx[u].row \notin DOMAIN items'
    <3>1. tx[u].row \notin DOMAIN items /\ tx[u].row # row
      BY <1>2, <1>6, <2>1 DEF IInv, RowFound, row
    <3> QED BY <1>4, <3>1
  <2>2. Pending' \subseteq Pending BY <1>6
  <2> QED BY <1>4, <1>6, <2>1, <2>2 DEF IInv, RowFound
<1>9. KeysReserved'
  <2>1. ASSUME NEW u \in Pending', NEW c \in Columns, Writes(u, c)
        PROVE  \A i \in DOMAIN items' : items'[i][c] # tx[u].new[c]
    <3>1. \A i \in DOMAIN items : items[i][c] # tx[u].new[c]
      BY <1>6, <2>1 DEF IInv, KeysReserved
    <3>2. after[c] # tx[u].new[c]
      <4>1. CASE Writes(s, c)
        BY <1>2, <1>6, <2>1, <4>1, ColumnAfter, WritersDiffer DEF after
      <4>2. CASE ~Writes(s, c) /\ tx[s].created
        <5>1. after[c] = None BY <1>2, <4>2, ColumnAfter DEF after
        <5> QED BY <2>1, <5>1 DEF Writes
      <4>3. CASE ~Writes(s, c) /\ ~tx[s].created
        <5>1. after[c] = items[row][c] BY <1>2, <4>3, ColumnAfter DEF after, row
        <5>2. row \in DOMAIN items BY <1>2, <4>3 DEF IInv, RowFound, row
        <5> QED BY <3>1, <5>1, <5>2
      <4> QED BY <4>1, <4>2, <4>3
    <3> QED BY <1>4, <3>1, <3>2
  <2>2. \A u \in Pending', c \in Columns : Writes(u, c) =>
            <<Kind[c], tx[u].new[c]>> \in tx[u].held
    BY <1>6 DEF IInv, KeysReserved
  <2> QED BY <1>6, <1>7, <2>1, <2>2 DEF KeysReserved
<1>10. Unique'
  <2>1. ASSUME NEW i \in DOMAIN items', NEW j \in DOMAIN items', NEW c \in Columns, i # j
        PROVE  ~Same(items'[i][c], items'[j][c])
    <3>1. CASE i = row BY <1>2, <1>4, <2>1, <3>1, AfterIsNew DEF after, row, Same
    <3>2. CASE j = row BY <1>2, <1>4, <2>1, <3>2, AfterIsNew DEF after, row, Same
    <3>3. CASE i # row /\ j # row BY <1>4, <2>1, <3>3 DEF IInv, Unique
    <3> QED BY <3>1, <3>2, <3>3
  <2> QED BY <2>1 DEF Unique, Same
<1> QED BY <1>1, <1>5, <1>8, <1>9, <1>10, Gone DEF IInv

-----------------------------------------------------------------------------
(* The theorems.                                                           *)

LEMMA InitIInv == ASSUME Init PROVE IInv
<1>1. Open = {} /\ Pending = {} BY DEF Init, Open, Pending, Idle
<1>2. \A s \in Savers : Held(s) = {} BY <1>1 DEF Held
<1>3. TypeOK BY RecordsAssumption DEF Init, TypeOK
<1>4. OneHolder BY <1>2 DEF OneHolder
<1>5. LocksTaken /\ RowFound /\ KeysReserved BY <1>1 DEF LocksTaken, RowFound, KeysReserved
<1>6. Unique BY DEF Init, Unique
<1> QED BY <1>3, <1>4, <1>5, <1>6 DEF IInv

LEMMA StutterKeeps == ASSUME IInv, UNCHANGED vars PROVE IInv'
<1>1. /\ items' = items /\ sources' = sources /\ tx' = tx /\ saves' = saves /\ errors' = errors
  BY DEF vars
<1>2. Open' = Open /\ Pending' = Pending BY <1>1 DEF Open, Pending
<1>3. \A s \in Savers : Held(s)' = Held(s) BY <1>1, <1>2 DEF Held
<1>4. TypeOK' BY <1>1 DEF IInv, TypeOK
<1>5. OneHolder' BY <1>3 DEF IInv, OneHolder
<1>6. LocksTaken' BY <1>1, <1>2 DEF IInv, LocksTaken
<1>7. RowFound' BY <1>1, <1>2 DEF IInv, RowFound
<1>8. \A s \in Pending, c \in Columns : Writes(s, c)' = Writes(s, c) BY <1>1 DEF Writes
<1>9. KeysReserved' BY <1>1, <1>2, <1>8 DEF IInv, KeysReserved
<1>10. Unique' BY <1>1 DEF IInv, Unique
<1> QED BY <1>4, <1>5, <1>6, <1>7, <1>9, <1>10 DEF IInv

LEMMA StepKeeps == ASSUME IInv, [Next]_vars PROVE IInv'
<1>1. ASSUME NEW s \in Savers, NEW r \in Records, Begin(s, r) PROVE IInv'
  BY <1>1, BeginKeeps
<1>2. ASSUME NEW s \in Savers, LockIdentity(s) \/ LockShared(s) \/ AttachAuthor(s) PROVE IInv'
  BY <1>2, LockIdentityMoves, LockSharedMoves, AttachAuthorMoves, MoveKeeps
<1>3. ASSUME NEW s \in Savers, FindOrInsert(s) PROVE IInv' BY <1>3, FindOrInsertKeeps
<1>4. ASSUME NEW s \in Savers, Commit(s) PROVE IInv' BY <1>4, CommitKeeps
<1>5. ASSUME NEW s \in Savers, DeadlockAbort(s) PROVE IInv'
  <2>1. Rollback(s) /\ errors' = errors BY <1>5 DEF DeadlockAbort
  <2> QED BY <2>1, RollbackKeeps DEF IInv, TypeOK
<1>6. ASSUME NEW s \in Savers, DatabaseError(s) PROVE IInv'
  <2>1. Rollback(s) /\ errors' = errors - 1 /\ errors > 0 BY <1>6 DEF DatabaseError
  <2>2. errors' \in 0..MaxErrors BY <2>1, RecordsAssumption DEF IInv, TypeOK
  <2> QED BY <2>1, <2>2, RollbackKeeps
<1>7. CASE UNCHANGED vars BY <1>7, StutterKeeps
<1> QED BY <1>1, <1>2, <1>3, <1>4, <1>5, <1>6, <1>7 DEF Next

\* The table, the open transactions and the counters are what their columns
\* and statements allow.
THEOREM CorpusTypeCorrect == Spec => []TypeOK
<1>1. IInv => TypeOK BY DEF IInv
<1> QED BY <1>1, InitIInv, StepKeeps, PTL DEF Spec

LEMMA PendingNeverClash ==
  ASSUME IInv PROVE UniqueKeys
<1> SUFFICES ASSUME NEW s \in Pending, NEW c \in Columns,
                    NEW other \in {items[i] : i \in DOMAIN items \ {tx[s].row}}
                      \cup {RowAfter(t) : t \in {u \in Pending \ {s} : tx[u].row # tx[s].row}}
             PROVE  ~Same(RowAfter(s)[c], other[c])
  BY DEF UniqueKeys, Columns
<1>1. CASE other \in {items[i] : i \in DOMAIN items \ {tx[s].row}}
  <2>1. PICK i \in DOMAIN items \ {tx[s].row} : other = items[i] BY <1>1
  <2> QED BY <2>1, AfterIsNew
<1>2. CASE other \in {RowAfter(t) : t \in {u \in Pending \ {s} : tx[u].row # tx[s].row}}
  <2>1. PICK t \in Pending \ {s} : tx[t].row # tx[s].row /\ other = RowAfter(t) BY <1>2
  <2>2. CASE Writes(s, c) /\ Writes(t, c)
    BY <2>1, <2>2, ColumnAfter, WritersDiffer DEF Same
  <2>3. CASE ~Writes(t, c)
    <3>1. CASE tx[t].created
      <4>1. other[c] = None BY <2>1, <2>3, <3>1, ColumnAfter
      <4> QED BY <4>1 DEF Same
    <3>2. CASE ~tx[t].created
      <4>1. tx[t].row \in DOMAIN items BY <2>1, <3>2 DEF IInv, RowFound
      <4>2. other[c] = items[tx[t].row][c] BY <2>1, <2>3, <3>2, ColumnAfter
      <4> QED BY <2>1, <4>1, <4>2, AfterIsNew
    <3> QED BY <3>1, <3>2
  <2>4. CASE ~Writes(s, c)
    <3>1. CASE tx[s].created
      <4>1. RowAfter(s)[c] = None BY <2>4, <3>1, ColumnAfter
      <4> QED BY <4>1 DEF Same
    <3>2. CASE ~tx[s].created
      <4>1. tx[s].row \in DOMAIN items BY <3>2 DEF IInv, RowFound
      <4>2. RowAfter(s)[c] = items[tx[s].row][c] BY <2>4, <3>2, ColumnAfter
      <4>3. ~Same(RowAfter(t)[c], items[tx[s].row][c]) BY <2>1, <4>1, AfterIsNew
      <4> QED BY <2>1, <4>2, <4>3 DEF Same
    <3> QED BY <3>1, <3>2
  <2> QED BY <2>2, <2>3, <2>4
<1> QED BY <1>1, <1>2

\* No transaction ever meets a unique index: what it leaves clashes with no
\* committed row and with nothing another open transaction is about to leave,
\* whatever the records, however many savers.
THEOREM IndexesNeverFire == Spec => []UniqueKeys
<1>1. IInv => UniqueKeys BY PendingNeverClash
<1> QED BY <1>1, InitIInv, StepKeeps, PTL DEF Spec

-----------------------------------------------------------------------------
(* The locks on identities are taken in order.                             *)

\* Whoever still wants identities holds only lesser ones.
InOrder ==
  \A s \in Open :
    tx[s].pc = "lock" => \A k \in tx[s].held, l \in tx[s].todo : Before(k, l)

\* Transactions begin one by one: finitely many are open.
FewOpen == IsFiniteSet(Open)

OrderInv == InOrder /\ FewOpen

Turn(s) ==
  \/ \E r \in Records : Begin(s, r)
  \/ LockIdentity(s) \/ FindOrInsert(s) \/ LockShared(s)
  \/ AttachAuthor(s) \/ Commit(s)
  \/ DeadlockAbort(s) \/ DatabaseError(s)

LEMMA NextTurn == Next <=> \E s \in Savers : Turn(s)
BY DEF Next, Turn

LEMMA BeforeOrders ==
  ASSUME NEW k \in LockType, NEW l \in LockType, NEW m \in LockType
  PROVE  ~Before(k, k) /\ (Before(k, l) /\ Before(l, m) => Before(k, m))
BY DEF Before, LockType

\* A step is one transaction's.
LEMMA OneMoves ==
  ASSUME IInv, NEW s \in Savers, Turn(s), NEW u \in Savers \ {s}
  PROVE  tx'[u] = tx[u]
BY DEF Turn, Begin, LockIdentity, FindOrInsert, LockShared, AttachAuthor, Commit, DeadlockAbort,
       DatabaseError, Rollback, IInv, TypeOK

LEMMA TurnInOrder ==
  ASSUME IInv, OrderInv, NEW s \in Savers, Turn(s), tx'[s].pc = "lock",
         NEW k \in tx'[s].held, NEW l \in tx'[s].todo
  PROVE  Before(k, l)
<1>1. tx \in [Savers -> {Idle} \cup Transaction] BY DEF IInv, TypeOK
<1>2. CASE \E r \in Records : Begin(s, r)
  <2>1. tx'[s].held = {} BY <1>1, <1>2 DEF Begin
  <2> QED BY <2>1
<1>3. CASE LockIdentity(s)
  <2>1. s \in Open /\ tx[s] \in Transaction /\ tx[s].pc = "lock"
    BY <1>3, OpenType DEF IInv, LockIdentity
  <2>2. PICK w \in Wanted(s) : tx'[s].held = tx[s].held \cup {w} /\ tx'[s].todo = tx[s].todo \ {w}
    BY <1>1, <1>3, <2>1 DEF LockIdentity, Transaction
  <2>3. w \in tx[s].todo /\ \A m \in tx[s].todo \ {w} : Before(w, m) BY <2>1, <2>2 DEF Wanted
  <2> QED BY <2>1, <2>2, <2>3 DEF OrderInv, InOrder
<1>4. CASE FindOrInsert(s)
  <2>1. tx[s] \in Transaction BY <1>4, OpenType DEF IInv, FindOrInsert
  <2>2. "pc" \in DOMAIN tx[s] BY <2>1 DEF Transaction
  <2>3. tx'[s].pc = AfterAttach(tx[s].rec, 1) BY <1>1, <1>4, <2>2 DEF FindOrInsert
  <2> QED BY <2>3 DEF AfterAttach
<1>5. CASE LockShared(s) \/ AttachAuthor(s)
  <2>1. Moves(s) BY <1>5, LockSharedMoves, AttachAuthorMoves
  <2>2. tx[s].pc \in {"shared", "attach"} BY <1>5 DEF LockShared, AttachAuthor
  <2> QED BY <2>1, <2>2 DEF Moves, Moved
<1>6. CASE Commit(s) \/ DeadlockAbort(s) \/ DatabaseError(s)
  BY <1>1, <1>6 DEF Commit, DeadlockAbort, DatabaseError, Rollback, Idle
<1> QED BY <1>2, <1>3, <1>4, <1>5, <1>6 DEF Turn

LEMMA OrderStep == ASSUME IInv, OrderInv, [Next]_vars PROVE OrderInv'
<1>1. CASE UNCHANGED vars BY <1>1 DEF vars, OrderInv, InOrder, FewOpen, Open
<1>2. ASSUME NEW s \in Savers, Turn(s) PROVE OrderInv'
  <2>1. \A u \in Savers \ {s} : tx'[u] = tx[u] BY <1>2, OneMoves
  <2>2. InOrder'
    <3> SUFFICES ASSUME NEW u \in Open', tx'[u].pc = "lock",
                        NEW k \in tx'[u].held, NEW l \in tx'[u].todo
                 PROVE  Before(k, l)
      BY DEF InOrder, Before
    <3>1. CASE u = s BY <1>2, <3>1, TurnInOrder
    <3>2. CASE u # s
      <4>1. u \in Open /\ tx'[u] = tx[u] BY <2>1, <3>2 DEF Open
      <4> QED BY <4>1 DEF OrderInv, InOrder
    <3> QED BY <3>1, <3>2
  <2>3. FewOpen'
    <3>1. Open' \subseteq Open \cup {s} BY <2>1 DEF Open
    <3>2. IsFiniteSet(Open \cup {s}) BY FS_AddElement DEF OrderInv, FewOpen
    <3> QED BY <3>1, <3>2, FS_Subset DEF FewOpen
  <2> QED BY <2>2, <2>3 DEF OrderInv
<1> QED BY <1>1, <1>2, NextTurn

LEMMA OrderHolds == Spec => []OrderInv
<1>1. Init => OrderInv
  <2> SUFFICES ASSUME Init PROVE OrderInv OBVIOUS
  <2>1. Open = {} BY DEF Init, Open, Idle
  <2> QED BY <2>1, FS_EmptySet DEF OrderInv, InOrder, FewOpen
<1> QED BY <1>1, InitIInv, StepKeeps, OrderStep, PTL DEF Spec

\* In a finite set one element is below no other, under any strict order.
LEMMA FiniteHasTop ==
  ASSUME NEW D, IsFiniteSet(D), D # {}, NEW R,
         \A x \in D : <<x, x>> \notin R,
         \A x, y, z \in D : <<x, y>> \in R /\ <<y, z>> \in R => <<x, z>> \in R
  PROVE  \E x \in D : \A y \in D : <<x, y>> \notin R
<1> DEFINE over(x) == {y \in D : <<x, y>> \in R}
           T == {over(x) : x \in D}
<1>1. T # {} /\ T \subseteq FiniteSubsetsOf(D)
  <2>1. \A x \in D : over(x) \in SUBSET D OBVIOUS
  <2>2. \A x \in D : over(x) \in FiniteSubsetsOf(D) BY <2>1, FS_Subset DEF FiniteSubsetsOf
  <2> HIDE DEF over
  <2> QED BY <2>2
<1>2. IsWellFoundedOn(StrictSubsetOrdering(D), FiniteSubsetsOf(D))
  BY FS_StrictSubsetOrderingWellFounded
<1>3. PICK z \in T : \A y \in T : ~(<<y, z>> \in StrictSubsetOrdering(D)) BY <1>1, <1>2, WFMin
<1>4. PICK x \in D : z = over(x) BY <1>3
<1>5. ASSUME NEW y \in D, <<x, y>> \in R PROVE FALSE
  <2>1. y \in over(x) /\ y \notin over(y) /\ over(y) \subseteq over(x) BY <1>4, <1>5
  <2>2. over(y) \in T /\ over(y) \subseteq D /\ over(x) \subseteq D BY <1>5
  <2> HIDE DEF over, T
  <2>3. <<over(y), z>> \in StrictSubsetOrdering(D) BY <1>4, <2>1, <2>2 DEF StrictSubsetOrdering
  <2> QED BY <1>3, <2>2, <2>3
<1> QED BY <1>5

\* Who waits for a lock wants less than the one who has it, so the one of a
\* group that wants the most waits for nobody in it.
LEMMA GreatestGoesOn ==
  ASSUME IInv, OrderInv, NEW D \in SUBSET Savers, Deadlocked(D)
  PROVE  \E s \in D : tx[s].pc # "lock"
<1> SUFFICES ASSUME \A s \in D : tx[s].pc = "lock" PROVE FALSE OBVIOUS
<1> DEFINE R == {st \in D \X D : \E k \in Wanted(st[1]), l \in Wanted(st[2]) : Before(k, l)}
<1>1. ASSUME NEW s \in D PROVE s \in Open /\ \E t \in D : Wanted(s) \cap Held(t) # {}
  BY <1>1 DEF Deadlocked, WaitsFor, SlotTaken
<1>2. ASSUME NEW s \in D
      PROVE  /\ Held(s) = tx[s].held /\ Held(s) \subseteq LockType /\ Wanted(s) # {}
             /\ \A k \in Wanted(s) : k \in LockType /\ k \in tx[s].todo
             /\ \A k, l \in Wanted(s) : k = l
  <2>1. s \in Open /\ Wanted(s) # {} BY <1>1
  <2>2. tx[s] \in Transaction /\ Held(s) = tx[s].held BY <2>1, OpenType DEF IInv
  <2>3. tx[s].todo \subseteq LockType /\ tx[s].held \subseteq LockType BY <2>2 DEF Transaction
  <2>4. Wanted(s) = {k \in tx[s].todo : \A l \in tx[s].todo \ {k} : Before(k, l)} BY DEF Wanted
  <2>5. ASSUME NEW k \in Wanted(s), NEW l \in Wanted(s), k # l PROVE FALSE
    <3>1. Before(k, l) /\ Before(l, k) BY <2>4, <2>5
    <3> QED BY <2>3, <2>4, <3>1, BeforeOrders
  <2> QED BY <2>1, <2>2, <2>3, <2>4, <2>5
<1>3. \A s \in D : <<s, s>> \notin R BY <1>2, BeforeOrders
<1>4. ASSUME NEW s \in D, NEW t \in D, NEW u \in D, <<s, t>> \in R, <<t, u>> \in R
      PROVE  <<s, u>> \in R
  <2>1. PICK k \in Wanted(s), l \in Wanted(t) : Before(k, l) BY <1>4
  <2>2. PICK m \in Wanted(u) : Before(l, m) BY <1>2, <1>4, <2>1
  <2>3. Before(k, m) BY <1>2, <2>1, <2>2, BeforeOrders
  <2> QED BY <2>1, <2>2, <2>3
<1>5. IsFiniteSet(D) /\ D # {} BY <1>1, FS_Subset DEF OrderInv, FewOpen, Deadlocked
<1> HIDE DEF R
<1>6. PICK s \in D : \A t \in D : <<s, t>> \notin R BY <1>3, <1>4, <1>5, FiniteHasTop
<1>7. PICK t \in D, k \in Wanted(s) : k \in Held(t) BY <1>1
<1>8. PICK l \in Wanted(t) : TRUE BY <1>2
<1>9. Before(k, l) BY <1>1, <1>2, <1>7, <1>8 DEF OrderInv, InOrder
<1>10. <<s, t>> \in R BY <1>7, <1>8, <1>9 DEF R
<1> QED BY <1>6, <1>10

\* Savers that all wait for one another include one that waits for an author, a
\* topic or a link: sorted identities alone never deadlock
\* (repository.py save_collected), for any number of savers and records.
THEOREM IdentitiesAreSafe == Spec => []IdentitiesNeverDeadlock
<1>1. IInv /\ OrderInv => IdentitiesNeverDeadlock
  BY GreatestGoesOn DEF IdentitiesNeverDeadlock
<1> QED BY <1>1, InitIInv, StepKeeps, OrderHolds, PTL DEF Spec

-----------------------------------------------------------------------------
(* Rows gain.                                                              *)

Link == Nat \X Nat
LinkState ==
  [at : Nat \ {0}, next : Nat, before : SUBSET Link, known : SUBSET Nat, added : SUBSET Link]

LinksOK ==
  /\ authors \in [Rows -> SUBSET Link] /\ \A row \in Rows : IsFiniteSet(authors[row])
  /\ links \in [Savers -> LinkState] /\ \A s \in Savers : IsFiniteSet(links[s].added)

\* The new contents of a row that was found improve on what was read of it.
Improves(new, seen) ==
  /\ new.cites >= seen.cites
  /\ seen.doi # None => new.doi = seen.doi
  /\ seen.arxiv # None => new.arxiv = seen.arxiv

Improving == \A s \in Pending : ~tx[s].created => Improves(tx[s].new, tx[s].seen)

\* Where a transaction is in its list.
Place(r, pc, at) ==
  /\ pc \in {"shared", "attach"} => at <= Len(Shared(r))
  /\ pc = "attach" => at <= Len(r.authors)
  /\ pc = "commit" => at > Len(Shared(r))

\* Positions from `next` on are free, an author that is known has a link, read
\* or added, and those the transaction has come to are known.
Linked(r, l) ==
  /\ \A link \in l.before \cup l.added : link[1] < l.next
  /\ \A link \in l.before : link[2] \in l.known
  /\ \A a \in l.known : \E link \in l.before \cup l.added : link[2] = a
  /\ \A i \in 1..Len(r.authors) : i < l.at => r.authors[i] \in l.known

\* So it is while the authors of the row are those that were read.
Attaches(t, l, there) ==
  /\ Place(t.rec, t.pc, l.at) /\ l.before \subseteq there
  /\ there = l.before => Linked(t.rec, l)

Attaching == \A s \in Pending : Attaches(tx[s], links[s], authors[tx[s].row])

GainInv == LinksOK /\ Improving /\ Attaching

LEMMA SharedAt ==
  ASSUME NEW r \in Records
  PROVE  /\ Len(r.authors) \in Nat /\ Len(Shared(r)) \in Nat /\ Len(r.authors) <= Len(Shared(r))
         /\ \A i \in 1..Len(r.authors) : r.authors[i] \in Nat /\ Shared(r)[i] = <<5, r.authors[i]>>
         /\ \A i \in 1..Len(Shared(r)) : Shared(r)[i][1] = 5 => i <= Len(r.authors)
<1>1. r.authors \in Seq(Nat) /\ r.topics \in Seq(Nat) BY RecordsAssumption
<1> DEFINE a == [i \in 1..Len(r.authors) |-> <<5, r.authors[i]>>]
           b == [i \in 1..Len(r.topics) |-> <<6, r.topics[i]>>]
<1>2. Len(r.authors) \in Nat /\ Len(r.topics) \in Nat BY <1>1
<1>3. a \in Seq(LockType) /\ Len(a) = Len(r.authors)
  <2>1. \A i \in 1..Len(r.authors) : <<5, r.authors[i]>> \in LockType BY <1>1 DEF LockType
  <2>2. a \in Seq(LockType) BY <1>2, <2>1
  <2>3. Len(a) = Len(r.authors) BY <1>2
  <2> QED BY <2>2, <2>3
<1>4. b \in Seq(LockType) /\ Len(b) = Len(r.topics)
  <2>1. \A i \in 1..Len(r.topics) : <<6, r.topics[i]>> \in LockType BY <1>1 DEF LockType
  <2>2. b \in Seq(LockType) BY <1>2, <2>1
  <2>3. Len(b) = Len(r.topics) BY <1>2
  <2> QED BY <2>2, <2>3
<1>5. /\ \A i \in 1..Len(a) : a[i] = <<5, r.authors[i]>>
      /\ \A i \in 1..Len(b) : b[i] = <<6, r.topics[i]>>
  BY <1>3, <1>4
<1>6. Shared(r) = a \o b BY DEF Shared
<1> HIDE DEF a, b
<1>7. /\ Len(Shared(r)) = Len(a) + Len(b)
      /\ \A i \in 1..Len(a) : Shared(r)[i] = a[i]
      /\ \A i \in 1..Len(Shared(r)) :
           i > Len(a) => i - Len(a) \in 1..Len(b) /\ Shared(r)[i] = b[i - Len(a)]
  <2>1. a \in Seq(LockType) /\ b \in Seq(LockType) BY <1>3, <1>4
  <2>2. Len(a \o b) = Len(a) + Len(b) BY <2>1
  <2>3. \A i \in 1..(Len(a) + Len(b)) :
          (a \o b)[i] = IF i <= Len(a) THEN a[i] ELSE b[i - Len(a)]
    BY <2>1
  <2>4. Len(a) \in Nat /\ Len(b) \in Nat BY <2>1
  <2> QED BY <1>6, <2>2, <2>3, <2>4
<1>8. \A i \in 1..Len(Shared(r)) : i > Len(r.authors) => Shared(r)[i][1] = 6
  BY <1>3, <1>5, <1>7
<1>9. \A i \in 1..Len(r.authors) : r.authors[i] \in Nat BY <1>1
<1>10. Len(Shared(r)) = Len(r.authors) + Len(r.topics) BY <1>3, <1>4, <1>7
<1>11. \A i \in 1..Len(r.authors) : Shared(r)[i] = <<5, r.authors[i]>> BY <1>3, <1>5, <1>7
<1>12. ASSUME NEW i \in 1..Len(Shared(r)), Shared(r)[i][1] = 5 PROVE i <= Len(r.authors)
  <2>1. ~(i > Len(r.authors)) BY <1>8, <1>12
  <2>2. i \in Nat BY <1>2, <1>10
  <2> QED BY <1>2, <2>1, <2>2
<1>13. Len(Shared(r)) \in Nat /\ Len(r.authors) <= Len(Shared(r))
  <2>1. \A m, n \in Nat : m + n \in Nat /\ m <= m + n OBVIOUS
  <2> QED BY <1>2, <1>10, <2>1
<1> QED BY <1>13, <1>2, <1>9, <1>10, <1>11, <1>12

\* coalesce(max(position), -1) + 1 is above every position that is taken.
LEMMA NextIsFree ==
  ASSUME LinksOK, NEW row \in Rows
  PROVE  /\ NextPosition(row) \in Nat /\ Attached(row) \subseteq Nat
         /\ \A link \in authors[row] : link[1] < NextPosition(row)
<1> DEFINE D == authors[row]
           R == {kl \in D \X D : kl[1][1] < kl[2][1]}
<1>1. D \subseteq Link /\ IsFiniteSet(D) BY DEF LinksOK
<1>2. \A k \in D : k[1] \in Nat /\ k[2] \in Nat BY <1>1 DEF Link
<1>3. CASE D = {} BY <1>3 DEF NextPosition, Attached
<1>4. CASE D # {}
  <2>1. \A k, l \in D : <<k, l>> \in R <=> k[1] < l[1] OBVIOUS
  <2> HIDE DEF R, D
  <2>2. \A k \in D : <<k, k>> \notin R BY <1>2, <2>1
  <2>3. \A k, l, m \in D : <<k, l>> \in R /\ <<l, m>> \in R => <<k, m>> \in R BY <1>2, <2>1
  <2>4. PICK k \in D : \A l \in D : <<k, l>> \notin R
    BY <1>1, <1>4, <2>2, <2>3, FiniteHasTop
  <2>5. \A l \in D : l[1] <= k[1]
    <3>1. \A l \in D : ~(k[1] < l[1]) BY <2>1, <2>4
    <3>2. k[1] \in Nat /\ \A l \in D : l[1] \in Nat BY <1>2, <2>4
    <3> QED BY <3>1, <3>2
  <2>6. k[1] \in Positions(row) /\ \A q \in Positions(row) : q <= k[1]
    BY <2>5 DEF Positions, D
  <2> DEFINE p == CHOOSE p \in Positions(row) : \A q \in Positions(row) : q <= p
  <2>7. p \in Positions(row) /\ \A q \in Positions(row) : q <= p BY <2>6
  <2>8. NextPosition(row) = 1 + p BY <1>4 DEF NextPosition, D
  <2> HIDE DEF p
  <2>9. \A q \in Positions(row) : q \in Nat BY <1>2 DEF Positions, D
  <2>10. \A l \in D : l[1] \in Positions(row) BY DEF Positions, D
  <2> QED BY <1>2, <2>7, <2>8, <2>9, <2>10 DEF Attached, D
<1> QED BY <1>3, <1>4

LEMMA LinksRead ==
  ASSUME IInv, GainInv, NEW s \in Savers, FindOrInsert(s)
  PROVE  /\ LinksOK' /\ Attaches(tx'[s], links'[s], authors[tx'[s].row])
         /\ ~tx'[s].created => Improves(tx'[s].new, tx'[s].seen)
<1> DEFINE r == tx[s].rec
           row == tx'[s].row
           Read == [NoLinks EXCEPT !.before = authors[row], !.known = Attached(row),
                                   !.next = NextPosition(row)]
<1>1. s \in Open /\ tx[s].pc = "find" /\ authors' = authors BY DEF FindOrInsert
<1>2. r \in Records /\ tx[s].created = FALSE
  BY <1>1, OpenType DEF IInv, Transaction, LocksTaken
<1>3. tx'[s].pc = AfterAttach(r, 1) /\ tx'[s].rec = r BY RowOutcome
<1>4. Len(Shared(r)) \in Nat /\ Len(r.authors) \in Nat BY <1>2, SharedAt
<1>5. Place(r, tx'[s].pc, 1) BY <1>3, <1>4 DEF Place, AfterAttach
<1>6. links \in [Savers -> LinkState] /\ \A u \in Savers : IsFiniteSet(links[u].added)
  BY DEF GainInv, LinksOK
<1>7. CASE /\ row \in DOMAIN items /\ tx'[s].seen = items[row]
           /\ tx'[s].new = Enriched(tx'[s].seen, r) /\ links' = [links EXCEPT ![s] = Read]
  <2>1. row \in Rows /\ items[row] \in RowType BY <1>7 DEF IInv, TypeOK
  <2>2. /\ NextPosition(row) \in Nat /\ Attached(row) \subseteq Nat
        /\ \A link \in authors[row] : link[1] < NextPosition(row)
    BY <2>1, NextIsFree DEF GainInv
  <2>3. authors[row] \subseteq Link BY <2>1 DEF GainInv, LinksOK
  <2> HIDE DEF row, r
  <2>4. /\ Read.at = 1 /\ Read.next = NextPosition(row) /\ Read.before = authors[row]
        /\ Read.known = Attached(row) /\ Read.added = {} /\ Read \in LinkState
    <3>1. NoLinks \in LinkState /\ NoLinks.at = 1 /\ NoLinks.added = {} BY DEF NoLinks, LinkState
    <3> QED BY <2>2, <2>3, <3>1 DEF LinkState
  <2> HIDE DEF Read
  <2>5. links'[s] = Read /\ \A u \in Savers \ {s} : links'[u] = links[u] BY <1>6, <1>7
  <2>6. LinksOK'
    <3>1. links' \in [Savers -> LinkState] BY <1>6, <1>7, <2>4
    <3>2. \A u \in Savers : IsFiniteSet(links'[u].added) BY <1>6, <2>4, <2>5, FS_EmptySet
    <3> QED BY <1>1, <3>1, <3>2 DEF GainInv, LinksOK
  <2>7. Linked(r, Read)
    <3>1. \A i \in 1..Len(r.authors) : ~(i < 1) BY <1>4
    <3> QED BY <2>2, <2>4, <3>1 DEF Linked, Attached
  <2>8. Attaches(tx'[s], links'[s], authors[row]) BY <1>3, <1>5, <2>4, <2>5, <2>7 DEF Attaches
  <2>9. Improves(tx'[s].new, tx'[s].seen)
    <3>1. /\ Enriched(items[row], r).cites = Larger(items[row].cites, r.cites)
          /\ items[row].doi # None => Enriched(items[row], r).doi = items[row].doi
          /\ items[row].arxiv # None => Enriched(items[row], r).arxiv = items[row].arxiv
      BY DEF Enriched
    <3>2. items[row].cites \in Nat /\ r.cites \in Nat BY <1>2, <2>1, RecordsAssumption DEF RowType, r
    <3>3. Larger(items[row].cites, r.cites) >= items[row].cites BY <3>2 DEF Larger
    <3> QED BY <1>7, <3>1, <3>3 DEF Improves
  <2> QED BY <2>6, <2>8, <2>9 DEF row
<1>8. CASE tx'[s].created = TRUE /\ links' = [links EXCEPT ![s] = NoLinks]
  <2>1. /\ NoLinks.at = 1 /\ NoLinks.next = 0 /\ NoLinks.before = {} /\ NoLinks.known = {}
        /\ NoLinks.added = {} /\ NoLinks \in LinkState
    BY DEF NoLinks, LinkState
  <2>2. links'[s] = NoLinks /\ \A u \in Savers \ {s} : links'[u] = links[u] BY <1>6, <1>8
  <2>3. LinksOK'
    <3>1. links' \in [Savers -> LinkState] BY <1>6, <1>8, <2>1
    <3>2. \A u \in Savers : IsFiniteSet(links'[u].added) BY <1>6, <2>1, <2>2, FS_EmptySet
    <3> QED BY <1>1, <3>1, <3>2 DEF GainInv, LinksOK
  <2>4. Linked(r, NoLinks)
    <3>1. \A i \in 1..Len(r.authors) : ~(i < 1) BY <1>4
    <3> QED BY <2>1, <3>1 DEF Linked
  <2> HIDE DEF row, r
  <2>5. Attaches(tx'[s], links'[s], authors[row]) BY <1>3, <1>5, <2>1, <2>2, <2>4 DEF Attaches
  <2> QED BY <1>8, <2>3, <2>5 DEF row
<1> QED BY <1>7, <1>8, RowOutcome

\* The list goes on with an author of the record, or past a topic.
LEMMA SharedTaken ==
  ASSUME IInv, GainInv, NEW s \in Savers, LockShared(s)
  PROVE  LinksOK' /\ Attaches(tx'[s], links'[s], authors[tx[s].row])
<1> DEFINE r == tx[s].rec
           l == links[s]
           m == links'[s]
           there == authors[tx[s].row]
<1>1. s \in Open /\ tx[s].pc = "shared" /\ authors' = authors BY DEF LockShared
<1>2. s \in Pending BY <1>1 DEF Pending
<1>3. /\ tx \in [Savers -> {Idle} \cup Transaction] /\ tx[s] \in Transaction /\ r \in Records
      /\ "pc" \in DOMAIN tx[s]
  BY <1>1, OpenType DEF IInv, TypeOK, Transaction
<1>4. /\ links \in [Savers -> LinkState] /\ l \in LinkState
      /\ \A u \in Savers : IsFiniteSet(links[u].added)
  BY DEF GainInv, LinksOK
<1>5. l.at \in Nat \ {0} BY <1>4 DEF LinkState
<1>6. /\ Len(Shared(r)) \in Nat /\ Len(r.authors) \in Nat
      /\ \A i \in 1..Len(r.authors) : Shared(r)[i] = <<5, r.authors[i]>>
      /\ \A i \in 1..Len(Shared(r)) : Shared(r)[i][1] = 5 => i <= Len(r.authors)
  BY <1>3, SharedAt
<1>7. /\ l.at <= Len(Shared(r)) /\ l.before \subseteq there
      /\ there = l.before => Linked(r, l)
  BY <1>1, <1>2 DEF GainInv, Attaching, Attaches, Place
<1> DEFINE k == Shared(r)[l.at]
<1>8. /\ tx'[s].pc = IF k[1] = 5 THEN "attach" ELSE AfterAttach(r, l.at + 1)
      /\ links' = [links EXCEPT ![s].at = IF k[1] = 5 THEN @ ELSE @ + 1]
  <2>1. Wanted(s) = {k} BY <1>1, <1>5, <1>6, <1>7 DEF Wanted
  <2> QED BY <1>3, <2>1 DEF LockShared
<1>9. tx'[s].rec = r
  <2>1. PICK j, pc : tx'[s] = Moved(tx[s], j, pc) BY LockSharedMoves DEF Moves
  <2> QED BY <2>1 DEF Moved
<1> DEFINE at == IF k[1] = 5 THEN l.at ELSE l.at + 1
<1>10. m = [l EXCEPT !.at = at] /\ \A u \in Savers \ {s} : links'[u] = links[u] BY <1>4, <1>8
<1>11. at \in Nat \ {0} BY <1>5
<1> HIDE DEF at
<1>12. /\ m.at = at /\ m.next = l.next /\ m.before = l.before /\ m.known = l.known
       /\ m.added = l.added /\ m \in LinkState
  BY <1>4, <1>10, <1>11 DEF LinkState
<1>13. LinksOK'
  <2>1. links' = [links EXCEPT ![s] = m] BY <1>4, <1>8
  <2>2. links' \in [Savers -> LinkState] BY <1>4, <1>12, <2>1
  <2>3. \A u \in Savers : IsFiniteSet(links'[u].added) BY <1>4, <1>10, <1>12
  <2> QED BY <1>1, <2>2, <2>3 DEF GainInv, LinksOK
<1>14. Place(r, tx'[s].pc, at)
  BY <1>5, <1>6, <1>7, <1>8 DEF Place, AfterAttach, at
<1>15. ASSUME there = l.before PROVE Linked(r, m)
  <2>1. Linked(r, l) BY <1>7, <1>15
  <2>2. ASSUME NEW i \in 1..Len(r.authors), i < at PROVE i < l.at
    <3>1. CASE k[1] = 5 BY <2>2, <3>1 DEF at
    <3>2. CASE k[1] # 5
      <4>1. i # l.at BY <1>6, <3>2
      <4> QED BY <1>5, <1>6, <2>2, <3>2, <4>1 DEF at
    <3> QED BY <3>1, <3>2
  <2> HIDE DEF r, l, m
  <2> QED BY <1>12, <2>1, <2>2 DEF Linked
<1> HIDE DEF r, l, m, there
<1>16. Attaches(tx'[s], m, there) BY <1>7, <1>9, <1>12, <1>14, <1>15 DEF Attaches
<1> QED BY <1>13, <1>16 DEF m, there

\* An author that is new takes a position nobody has, while the row's authors
\* are those that were read: nothing is swallowed.
LEMMA AuthorAttached ==
  ASSUME IInv, GainInv, NEW s \in Savers, AttachAuthor(s)
  PROVE  LinksOK' /\ Attaches(tx'[s], links'[s], authors[tx[s].row])
<1> DEFINE r == tx[s].rec
           l == links[s]
           m == links'[s]
           there == authors[tx[s].row]
           author == Shared(r)[l.at][2]
           repeated == author \in l.known
           conflict == l.next \in Positions(tx[s].row) \/ author \in Attached(tx[s].row)
           added == IF repeated \/ conflict THEN l.added ELSE l.added \cup {<<l.next, author>>}
           next == IF repeated THEN l.next ELSE l.next + 1
<1>1. s \in Open /\ tx[s].pc = "attach" /\ authors' = authors BY DEF AttachAuthor
<1>2. s \in Pending BY <1>1 DEF Pending
<1>3. /\ tx \in [Savers -> {Idle} \cup Transaction] /\ tx[s] \in Transaction /\ r \in Records
      /\ "pc" \in DOMAIN tx[s] /\ tx[s].row \in Rows
  BY <1>1, <1>2, OpenType DEF IInv, TypeOK, Transaction, RowFound
<1>4. /\ links \in [Savers -> LinkState] /\ l \in LinkState
      /\ \A u \in Savers : IsFiniteSet(links[u].added)
  BY DEF GainInv, LinksOK
<1>5. /\ l.at \in Nat \ {0} /\ l.next \in Nat /\ l.before \subseteq Link /\ l.known \subseteq Nat
      /\ l.added \subseteq Link
  BY <1>4 DEF LinkState
<1>6. /\ Len(Shared(r)) \in Nat /\ Len(r.authors) \in Nat
      /\ \A i \in 1..Len(r.authors) : r.authors[i] \in Nat /\ Shared(r)[i] = <<5, r.authors[i]>>
  BY <1>3, SharedAt
<1>7. /\ l.at <= Len(r.authors) /\ l.before \subseteq there
      /\ there = l.before => Linked(r, l)
  BY <1>1, <1>2 DEF GainInv, Attaching, Attaches, Place
<1>8. author = r.authors[l.at] /\ author \in Nat BY <1>5, <1>6, <1>7
<1>9. /\ tx'[s].pc = AfterAttach(r, l.at + 1)
      /\ links' = [links EXCEPT ![s].added = added, ![s].next = next,
                                ![s].known = @ \cup {author}, ![s].at = @ + 1]
  <2>1. tx'[s].pc = AfterAttach(r, l.at + 1) BY <1>3 DEF AttachAuthor
  <2>2. links' = [links EXCEPT
             ![s].added = IF repeated \/ conflict THEN @ ELSE @ \cup {<<l.next, author>>},
             ![s].next = IF repeated THEN @ ELSE @ + 1,
             ![s].known = @ \cup {author},
             ![s].at = @ + 1]
    BY DEF AttachAuthor
  <2> HIDE DEF repeated, conflict, author
  <2>3. links' = [links EXCEPT ![s].added = added, ![s].next = next,
                               ![s].known = @ \cup {author}, ![s].at = @ + 1]
    BY <1>4, <2>2
  <2> QED BY <2>1, <2>3
<1>10. tx'[s].rec = r
  <2>1. PICK k, pc : tx'[s] = Moved(tx[s], k, pc) BY AttachAuthorMoves DEF Moves
  <2> QED BY <2>1 DEF Moved
<1> HIDE DEF author, repeated, conflict
<1>11. added \subseteq Link /\ IsFiniteSet(added) /\ next \in Nat
  <2>1. <<l.next, author>> \in Link BY <1>5, <1>8 DEF Link
  <2>2. IsFiniteSet(l.added \cup {<<l.next, author>>}) BY <1>4, FS_AddElement
  <2> QED BY <1>4, <1>5, <2>1, <2>2
<1> HIDE DEF added, next
<1>12. /\ m = [l EXCEPT !.added = added, !.next = next, !.known = @ \cup {author}, !.at = @ + 1]
       /\ \A u \in Savers \ {s} : links'[u] = links[u]
  BY <1>4, <1>9
<1>13. /\ m.at = l.at + 1 /\ m.next = next /\ m.before = l.before
       /\ m.known = l.known \cup {author} /\ m.added = added /\ m \in LinkState
  <2> DEFINE known == l.known \cup {author}
             at == l.at + 1
  <2>1. known \in SUBSET Nat /\ at \in Nat \ {0} BY <1>5, <1>8
  <2>2. m = [l EXCEPT !.added = added, !.next = next, !.known = known, !.at = at] BY <1>12
  <2> HIDE DEF known, at, m
  <2>3. m \in LinkState BY <1>4, <1>11, <2>1, <2>2 DEF LinkState
  <2>4. m.at = at /\ m.next = next /\ m.before = l.before /\ m.known = known /\ m.added = added
    BY <1>4, <2>2 DEF LinkState
  <2> QED BY <2>3, <2>4 DEF known, at
<1>14. LinksOK'
  <2>1. links' = [links EXCEPT ![s] = m] BY <1>4, <1>9
  <2>2. links' \in [Savers -> LinkState] BY <1>4, <1>13, <2>1
  <2>3. \A u \in Savers : IsFiniteSet(links'[u].added) BY <1>4, <1>11, <1>12, <1>13
  <2> QED BY <1>1, <2>2, <2>3 DEF GainInv, LinksOK
<1>15. Place(r, tx'[s].pc, l.at + 1)
  BY <1>5, <1>6, <1>9 DEF Place, AfterAttach
<1>16. ASSUME there = l.before PROVE Linked(r, m)
  <2>1. Linked(r, l) BY <1>7, <1>16
  <2>2. CASE repeated
    <3>1. m.known = l.known /\ m.added = l.added /\ m.next = l.next
      BY <1>13, <2>2 DEF added, next, repeated
    <3>2. ASSUME NEW i \in 1..Len(r.authors), i < m.at PROVE r.authors[i] \in l.known
      <4>1. CASE i = l.at BY <1>8, <2>2, <4>1 DEF repeated
      <4>2. CASE i # l.at
        <5>1. i < l.at BY <1>5, <1>6, <1>13, <3>2, <4>2
        <5> QED BY <2>1, <5>1 DEF Linked
      <4> QED BY <4>1, <4>2
    <3> HIDE DEF r, l, m
    <3> QED BY <1>13, <2>1, <3>1, <3>2 DEF Linked
  <2>3. CASE ~repeated
    <3>1. \A link \in there : link[1] < l.next /\ link[2] \in l.known
      BY <1>16, <2>1 DEF Linked
    <3>2. \A link \in there : link[1] \in Nat BY <1>5, <1>16 DEF Link
    <3>3. ~conflict
      <4>1. l.next \notin Positions(tx[s].row) BY <1>5, <3>1, <3>2 DEF Positions
      <4>2. author \notin Attached(tx[s].row) BY <2>3, <3>1 DEF Attached, repeated
      <4> QED BY <4>1, <4>2 DEF conflict
    <3>4. m.added = l.added \cup {<<l.next, author>>} /\ m.next = l.next + 1
      BY <1>13, <2>3, <3>3 DEF added, next
    <3>5. \A link \in m.before \cup m.added : link[1] < m.next
      <4>1. \A link \in l.before \cup l.added : link[1] < l.next BY <2>1 DEF Linked
      <4>2. \A link \in l.before \cup l.added : link[1] \in Nat BY <1>5 DEF Link
      <4>3. \A link \in l.before \cup l.added : link[1] < l.next + 1 BY <1>5, <4>1, <4>2
      <4>4. l.next < l.next + 1 BY <1>5
      <4> QED BY <1>13, <3>4, <4>3, <4>4
    <3>6. \A link \in m.before : link[2] \in m.known BY <1>13, <2>1 DEF Linked
    <3>7. \A a \in m.known : \E link \in m.before \cup m.added : link[2] = a
      <4>1. \A a \in l.known : \E link \in l.before \cup l.added : link[2] = a
        BY <2>1 DEF Linked
      <4>2. <<l.next, author>>[2] = author OBVIOUS
      <4> QED BY <1>13, <3>4, <4>1, <4>2
    <3>8. ASSUME NEW i \in 1..Len(r.authors), i < m.at PROVE r.authors[i] \in m.known
      <4>1. CASE i = l.at BY <1>8, <1>13, <4>1
      <4>2. CASE i # l.at
        <5>1. i < l.at BY <1>5, <1>6, <1>13, <3>8, <4>2
        <5>2. r.authors[i] \in l.known BY <2>1, <5>1 DEF Linked
        <5> QED BY <1>13, <5>2
      <4> QED BY <4>1, <4>2
    <3> QED BY <3>5, <3>6, <3>7, <3>8 DEF Linked
  <2> QED BY <2>2, <2>3
<1> HIDE DEF r, l, m, there
<1>17. Attaches(tx'[s], m, there) BY <1>7, <1>10, <1>13, <1>15, <1>16 DEF Attaches
<1> QED BY <1>14, <1>17 DEF m, there

LEMMA LinksCommitted ==
  ASSUME IInv, GainInv, NEW s \in Savers, Commit(s)
  PROVE  LinksOK' /\ tx[s].row \in Rows /\ authors'[tx[s].row] = authors[tx[s].row] \cup links[s].added
<1>1. /\ s \in Pending /\ authors' = [authors EXCEPT ![tx[s].row] = @ \cup links[s].added]
      /\ links' = [links EXCEPT ![s] = NoLinks]
  BY DEF Commit, Pending
<1>2. tx[s].row \in Rows BY <1>1 DEF IInv, RowFound
<1>3. /\ authors \in [Rows -> SUBSET Link] /\ \A row \in Rows : IsFiniteSet(authors[row])
      /\ links \in [Savers -> LinkState] /\ \A u \in Savers : IsFiniteSet(links[u].added)
  BY DEF GainInv, LinksOK
<1>4. links[s].added \subseteq Link BY <1>3 DEF LinkState
<1>5. IsFiniteSet(authors[tx[s].row] \cup links[s].added) BY <1>2, <1>3, FS_Union
<1>6. authors' \in [Rows -> SUBSET Link] /\ \A row \in Rows : IsFiniteSet(authors'[row])
  BY <1>1, <1>2, <1>3, <1>4, <1>5
<1>7. NoLinks \in LinkState /\ IsFiniteSet(NoLinks.added) BY FS_EmptySet DEF NoLinks, LinkState
<1>8. links' \in [Savers -> LinkState] /\ \A u \in Savers : IsFiniteSet(links'[u].added)
  BY <1>1, <1>3, <1>7
<1> QED BY <1>1, <1>2, <1>3, <1>6, <1>8 DEF LinksOK

LEMMA LinksGone ==
  ASSUME IInv, GainInv, NEW s \in Savers, Rollback(s) PROVE LinksOK'
<1>1. authors' = authors /\ links' = [links EXCEPT ![s] = NoLinks] BY DEF Rollback
<1>2. NoLinks \in LinkState /\ IsFiniteSet(NoLinks.added) BY FS_EmptySet DEF NoLinks, LinkState
<1> QED BY <1>1, <1>2 DEF GainInv, LinksOK

\* A step of one transaction leaves the others their links, and the rows their
\* authors.
LEMMA OthersKeep ==
  ASSUME IInv, GainInv, NEW s \in Savers, Turn(s)
  PROVE  /\ \A u \in Savers \ {s} : tx'[u] = tx[u] /\ links'[u] = links[u]
         /\ \A row \in Rows : authors[row] \subseteq authors'[row]
<1>1. \A u \in Savers \ {s} : tx'[u] = tx[u] BY OneMoves
<1>2. links \in [Savers -> LinkState] BY DEF GainInv, LinksOK
<1>3. ASSUME NEW u \in Savers \ {s} PROVE links'[u] = links[u]
  BY <1>2 DEF Turn, Begin, LockIdentity, FindOrInsert, LockShared, AttachAuthor, Commit,
              DeadlockAbort, DatabaseError, Rollback
<1>4. ASSUME NEW row \in Rows PROVE authors[row] \subseteq authors'[row]
  <2>1. CASE Commit(s) BY <2>1 DEF Commit, GainInv, LinksOK
  <2>2. CASE ~Commit(s)
    BY <2>2 DEF Turn, Begin, LockIdentity, FindOrInsert, LockShared, AttachAuthor,
                DeadlockAbort, DatabaseError, Rollback
  <2> QED BY <2>1, <2>2
<1> QED BY <1>1, <1>3, <1>4

\* What the step makes of its own transaction, if that is still to write.
LEMMA OwnGains ==
  ASSUME IInv, GainInv, NEW s \in Savers, Turn(s)
  PROVE  /\ LinksOK'
         /\ s \in Pending' => /\ Attaches(tx'[s], links'[s], authors'[tx'[s].row])
                              /\ ~tx'[s].created => Improves(tx'[s].new, tx'[s].seen)
<1>1. tx \in [Savers -> {Idle} \cup Transaction] BY DEF IInv, TypeOK
<1>2. CASE (\E r \in Records : Begin(s, r)) \/ LockIdentity(s)
  <2>1. authors' = authors /\ links' = links BY <1>2 DEF Begin, LockIdentity
  <2>2. LinksOK' BY <2>1 DEF GainInv, LinksOK
  <2>3. tx'[s].pc \in {"lock", "find"}
    <3>1. CASE \E r \in Records : Begin(s, r) BY <1>1, <3>1 DEF Begin
    <3>2. CASE LockIdentity(s)
      <4>1. Moves(s) /\ tx[s].pc = "lock" /\ tx[s] \in Transaction
        BY <3>2, LockIdentityMoves, OpenType DEF LockIdentity, IInv
      <4>2. "pc" \in DOMAIN tx[s] BY <4>1 DEF Transaction
      <4> QED BY <1>1, <3>2, <4>2 DEF LockIdentity
    <3> QED BY <1>2, <3>1, <3>2
  <2> QED BY <2>2, <2>3 DEF Pending
<1>3. CASE FindOrInsert(s)
  <2>1. authors' = authors BY <1>3 DEF FindOrInsert
  <2> QED BY <1>3, <2>1, LinksRead
<1>4. CASE LockShared(s) \/ AttachAuthor(s)
  <2>1. authors' = authors /\ s \in Pending
    BY <1>4 DEF LockShared, AttachAuthor, Pending
  <2>2. /\ tx'[s].row = tx[s].row /\ tx'[s].created = tx[s].created
        /\ tx'[s].new = tx[s].new /\ tx'[s].seen = tx[s].seen
    <3>1. PICK k, pc : tx'[s] = Moved(tx[s], k, pc)
      BY <1>4, LockSharedMoves, AttachAuthorMoves DEF Moves
    <3> QED BY <3>1 DEF Moved
  <2>3. LinksOK' /\ Attaches(tx'[s], links'[s], authors[tx[s].row])
    BY <1>4, SharedTaken, AuthorAttached
  <2> QED BY <2>1, <2>2, <2>3 DEF GainInv, Improving
<1>5. CASE Commit(s) \/ DeadlockAbort(s) \/ DatabaseError(s)
  <2>1. LinksOK' BY <1>5, LinksCommitted, LinksGone DEF DeadlockAbort, DatabaseError
  <2>2. tx' = [tx EXCEPT ![s] = Idle]
    BY <1>5 DEF Commit, DeadlockAbort, DatabaseError, Rollback
  <2> QED BY <2>1, <2>2, Gone
<1> QED BY <1>2, <1>3, <1>4, <1>5 DEF Turn

LEMMA GainStep == ASSUME IInv, GainInv, [Next]_vars PROVE GainInv'
<1>1. CASE UNCHANGED vars
  BY <1>1 DEF vars, GainInv, LinksOK, Improving, Attaching, Pending, Open
<1>2. ASSUME NEW s \in Savers, Turn(s) PROVE GainInv'
  <2>1. /\ \A u \in Savers \ {s} : tx'[u] = tx[u] /\ links'[u] = links[u]
        /\ \A row \in Rows : authors[row] \subseteq authors'[row]
    BY <1>2, OthersKeep
  <2>2. \A u \in Pending' \ {s} : u \in Pending BY <2>1 DEF Pending, Open
  <2>3. Pending' \subseteq Savers BY DEF Pending, Open
  <2>4. Improving'
    <3> SUFFICES ASSUME NEW u \in Pending', ~tx'[u].created
                 PROVE  Improves(tx'[u].new, tx'[u].seen)
      BY DEF Improving, Improves
    <3>1. CASE u = s BY <1>2, <3>1, OwnGains
    <3>2. CASE u # s BY <2>1, <2>2, <2>3, <3>2 DEF GainInv, Improving
    <3> QED BY <3>1, <3>2
  <2>5. Attaching'
    <3> SUFFICES ASSUME NEW u \in Pending'
                 PROVE  Attaches(tx'[u], links'[u], authors'[tx'[u].row])
      BY DEF Attaching, Attaches
    <3>1. CASE u = s BY <1>2, <3>1, OwnGains
    <3>2. CASE u # s
      <4>1. u \in Pending /\ tx'[u] = tx[u] /\ links'[u] = links[u] BY <2>1, <2>2, <2>3, <3>2
      <4>2. tx[u].row \in Rows BY <4>1 DEF IInv, RowFound
      <4>3. authors[tx[u].row] \subseteq authors'[tx[u].row] BY <2>1, <4>2
      <4>4. Attaches(tx[u], links[u], authors[tx[u].row]) BY <4>1 DEF GainInv, Attaching
      <4>5. Attaches(tx[u], links[u], authors'[tx[u].row]) BY <4>3, <4>4 DEF Attaches
      <4> QED BY <4>1, <4>5
    <3> QED BY <3>1, <3>2
  <2> QED BY <1>2, <2>4, <2>5, OwnGains DEF GainInv
<1> QED BY <1>1, <1>2, NextTurn

LEMMA GainHolds == Spec => []GainInv
<1>1. Init => GainInv
  <2> SUFFICES ASSUME Init PROVE GainInv OBVIOUS
  <2>1. Pending = {} BY DEF Init, Pending, Open, Idle
  <2>2. NoLinks \in LinkState /\ NoLinks.added = {} BY DEF NoLinks, LinkState
  <2>3. LinksOK BY <2>2, FS_EmptySet DEF Init, LinksOK
  <2> QED BY <2>1, <2>3 DEF GainInv, Improving, Attaching
<1> QED BY <1>1, InitIInv, StepKeeps, GainStep, PTL DEF Spec

\* Only its COMMIT ends a transaction that is at its COMMIT, but for an error.
LEMMA CommitsCommit ==
  ASSUME IInv, NEW s \in Savers, [Next]_vars, Commits(s) PROVE Commit(s)
<1>1. tx[s].pc = "commit" /\ tx'[s] = Idle /\ errors' = errors BY DEF Commits
<1>2. tx'[s] # tx[s] BY <1>1 DEF Idle
<1>3. PICK u \in Savers : Turn(u) BY <1>2, NextTurn DEF vars
<1>4. u = s BY <1>2, <1>3, OneMoves
<1>5. ~DeadlockAbort(s)
  <2>1. Wanted(s) = {} BY <1>1 DEF Wanted
  <2>2. \A t : ~WaitsFor(s, t) BY <1>1, <2>1 DEF WaitsFor, SlotTaken
  <2> QED BY <2>2 DEF DeadlockAbort, Deadlocked
<1>6. ~DatabaseError(s) BY <1>1 DEF DatabaseError, IInv, TypeOK
<1> QED BY <1>1, <1>3, <1>4, <1>5, <1>6
        DEF Turn, Begin, Open, LockIdentity, FindOrInsert, LockShared, AttachAuthor

LEMMA RowGains ==
  ASSUME IInv, GainInv, NEW s \in Savers, Commit(s), NEW row \in DOMAIN items,
         ~(tx[s].row = row /\ tx[s].seen # items[row])
  PROVE  Improves(items'[row], items[row])
<1>1. /\ s \in Pending
      /\ items' = [i \in DOMAIN items \cup {tx[s].row} |->
                     IF i = tx[s].row THEN RowAfter(s) ELSE items[i]]
  BY DEF Commit, Pending
<1>2. items[row] \in RowType BY DEF IInv, TypeOK
<1>3. CASE tx[s].row # row BY <1>1, <1>2, <1>3 DEF Improves, RowType
<1>4. CASE tx[s].row = row
  <2>1. tx[s].seen = items[row] /\ ~tx[s].created BY <1>1, <1>4 DEF IInv, RowFound
  <2>2. items'[row] = Written(items[row], tx[s].seen, tx[s].new) BY <1>1, <1>4, <2>1 DEF RowAfter
  <2>3. Improves(tx[s].new, tx[s].seen) BY <1>1, <2>1 DEF GainInv, Improving
  <2>4. \A c \in {"title", "doi", "arxiv", "cites"} : items'[row][c] = tx[s].new[c]
    BY <2>1, <2>2 DEF Written
  <2> QED BY <2>1, <2>3, <2>4 DEF Improves
<1> QED BY <1>3, <1>4

LEMMA AuthorsGain ==
  ASSUME IInv, GainInv, NEW s \in Savers, Commit(s), authors[tx[s].row] = links[s].before,
         NEW i \in 1..Len(tx[s].rec.authors)
  PROVE  \E link \in authors'[tx[s].row] : link[2] = tx[s].rec.authors[i]
<1>1. s \in Pending /\ tx[s].pc = "commit" BY DEF Commit, Pending
<1>2. tx[s].rec \in Records BY <1>1, OpenType DEF IInv, Pending, Transaction
<1>3. Place(tx[s].rec, tx[s].pc, links[s].at) /\ Linked(tx[s].rec, links[s])
  BY <1>1 DEF GainInv, Attaching, Attaches
<1>4. links[s].at \in Nat BY DEF GainInv, LinksOK, LinkState
<1>5. i < links[s].at BY <1>1, <1>2, <1>3, <1>4, SharedAt DEF Place
<1>6. PICK link \in links[s].before \cup links[s].added : link[2] = tx[s].rec.authors[i]
  BY <1>3, <1>5 DEF Linked
<1> QED BY <1>6, LinksCommitted

\* A committed row only gains, unless another transaction wrote it between this
\* one's SELECT and its UPDATE: no citation count falls, no identity is
\* replaced, and the authors of what is saved are attached - for any records,
\* however many savers (repository.py _enrich_canonical, _attach_authors).
THEOREM RowsAreEnriched == Spec => RowsOnlyGain
<1> DEFINE Gains ==
      /\ \A row \in DOMAIN items :
          \/ /\ items'[row].cites >= items[row].cites
             /\ items[row].doi # None => items'[row].doi = items[row].doi
             /\ items[row].arxiv # None => items'[row].arxiv = items[row].arxiv
          \/ \E s \in Savers :
               Commits(s) /\ tx[s].row = row /\ tx[s].seen # items[row]
      /\ \A s \in Savers :
          Commits(s) /\ authors[tx[s].row] = links[s].before =>
            \A i \in 1..Len(tx[s].rec.authors) :
              \E link \in authors'[tx[s].row] : link[2] = tx[s].rec.authors[i]
<1>1. ASSUME IInv, GainInv, [Next]_vars PROVE Gains
  <2>1. ASSUME NEW row \in DOMAIN items,
               ~\E s \in Savers : Commits(s) /\ tx[s].row = row /\ tx[s].seen # items[row]
        PROVE  Improves(items'[row], items[row])
    <3>1. CASE \E s \in Savers : Commit(s)
      <4>1. PICK s \in Savers : Commit(s) BY <3>1
      <4>2. Commits(s)
        <5>1. /\ s \in Open /\ tx[s].pc = "commit" /\ tx' = [tx EXCEPT ![s] = Idle]
              /\ errors' = errors
          BY <4>1 DEF Commit
        <5>2. tx'[s] = Idle BY <1>1, <5>1 DEF IInv, TypeOK
        <5> QED BY <5>1, <5>2 DEF Commits
      <4> QED BY <1>1, <2>1, <4>1, <4>2, RowGains
    <3>2. CASE ~\E s \in Savers : Commit(s)
      <4>1. items' = items
        BY <1>1, <3>2 DEF vars, Next, Begin, LockIdentity, FindOrInsert, LockShared,
                          AttachAuthor, DeadlockAbort, DatabaseError, Rollback
      <4>2. items[row].cites \in Nat BY <1>1, <2>1 DEF IInv, TypeOK, RowType
      <4> QED BY <4>1, <4>2 DEF Improves
    <3> QED BY <3>1, <3>2
  <2>2. ASSUME NEW s \in Savers, Commits(s), authors[tx[s].row] = links[s].before,
               NEW i \in 1..Len(tx[s].rec.authors)
        PROVE  \E link \in authors'[tx[s].row] : link[2] = tx[s].rec.authors[i]
    BY <1>1, <2>2, CommitsCommit, AuthorsGain
  <2> QED BY <2>1, <2>2 DEF Improves
<1>2. Spec => [][Gains]_vars
  <2> HIDE DEF Gains
  <2> QED BY <1>1, InitIInv, StepKeeps, GainHolds, PTL DEF Spec
<1> QED BY <1>2 DEF RowsOnlyGain

=============================================================================
