-------------------------- MODULE EligibilityProofs --------------------------
(***************************************************************************)
(* Who gets a digest: the subscriber is active and some subscription of    *)
(* his is current.  Two components decide this that share no state.  First *)
(* the subscribers: what an administrator decided stands, and no approved  *)
(* chat falls silent without a cause, whatever the bot, Telegram, the      *)
(* monitor and other administrators do in between.  Then their             *)
(* subscriptions: time once granted is served, and a subscriber gets one   *)
(* trial unless two approvals race for it.  For any chats, people, updates,*)
(* failures, decisions, requests, rows and lengths of time.                *)
(***************************************************************************)
EXTENDS Subscribers, Subscriptions, FiniteSetTheorems, TLAPS

-----------------------------------------------------------------------------
(* Subscribers: the rows and what is on its way.                           *)


Verdicts == {"none", "admitted", "paused", "banned"}
Reasons == {"absent", "new", "admin"}

\* A row agrees with the verdict v on it and with whether the chat has been
\* written as absent since: DecisionHolds, and what it takes for a chat to come
\* back and for a row to be made anew.
Stands(row, v, left) ==
  /\ row.status = "none" => v = "none"
  /\ row.status = "left" => left
  /\ v = "banned" => row.status = "blocked"
  /\ v = "paused" => row.status = "paused" \/ left
  /\ row.status = "active" => v = "admitted" \/ (row.approved /\ left)

\* An approved row that is silent has a cause, whatever its status: a chat can
\* be active again without anybody looking at the flag.
Explained(row, reasons) == row.approved /\ row.digest = "off" => reasons # {}

Standing ==
  /\ \A s \in Subs : Stands(sub[s], verdict[s], s \in gone)
  /\ \A c \in Chats : Explained(sub[c], excuse[c])

IInv == TypeOK /\ Standing

\* TypeOK in two parts: the rows with their history, and all the rest.
RowsOK ==
  /\ sub \in [Subs -> Row] /\ verdict \in [Subs -> Verdicts] /\ gone \subseteq Subs
  /\ excuse \in [Chats -> SUBSET Reasons]

BotRow == [known : BOOLEAN, at : {"present", "restricted", "absent"}, post : BOOLEAN]

FlightOK ==
  /\ truth \in [Chats -> Rights]
  /\ bot \in [Chats -> BotRow] /\ older \in [Chats -> SUBSET Chats]
  /\ updates \subseteq [chat : Chats, seen : Rights]
  /\ handling \subseteq [up : [chat : Chats, seen : Rights], known : BOOLEAN]
  /\ round \subseteq Chats
  /\ poll \subseteq [by : {"monitor", "refresh"}, chat : Chats, seen : Rights]
  /\ desk \subseteq [who : Subs, op : {"approve", "silence", "leave"}]
  /\ asked \subseteq [who : Subs, cmd : Commands]
  /\ budget \in [{"turns", "mishaps", "admin"} -> Nat]

LEMMA TypeParts == TypeOK <=> RowsOK /\ FlightOK
BY DEF TypeOK, RowsOK, FlightOK, Verdicts, Reasons, BotRow

-----------------------------------------------------------------------------
(* Rows.                                                                   *)

\* One subscriber is written; if row, verdict and history still agree for it,
\* they agree for all.
LEMMA RowWritten ==
  ASSUME IInv, NEW s \in Subs, NEW row \in Row, NEW v \in Verdicts,
         sub' = [sub EXCEPT ![s] = row], verdict' = [verdict EXCEPT ![s] = v],
         gone' \in {gone, gone \cup {s}, gone \ {s}}, excuse' \in [Chats -> SUBSET Reasons],
         \A c \in Chats \ {s} : excuse'[c] = excuse[c],
         Stands(row, v, s \in gone'), s \in Chats => Explained(row, excuse'[s])
  PROVE  RowsOK' /\ Standing'
<1>1. RowsOK BY TypeParts DEF IInv
<1>2. RowsOK' BY <1>1 DEF RowsOK
<1>3. ASSUME NEW o \in Subs PROVE Stands(sub'[o], verdict'[o], o \in gone')
  <2>1. CASE o = s
    <3>1. sub'[o] = row /\ verdict'[o] = v BY <1>1, <2>1 DEF RowsOK
    <3> QED BY <2>1, <3>1 DEF Stands
  <2>2. CASE o # s
    <3>1. sub'[o] = sub[o] /\ verdict'[o] = verdict[o] /\ (o \in gone' <=> o \in gone)
      BY <1>1, <2>2 DEF RowsOK
    <3>2. Stands(sub[o], verdict[o], o \in gone) BY DEF IInv, Standing
    <3> QED BY <3>1, <3>2 DEF Stands
  <2> QED BY <2>1, <2>2
<1>4. ASSUME NEW c \in Chats PROVE Explained(sub'[c], excuse'[c])
  <2>1. c \in Subs BY DEF Subs
  <2>2. CASE c = s
    <3>1. sub'[c] = row BY <1>1, <2>2 DEF RowsOK
    <3> QED BY <2>2, <3>1
  <2>3. CASE c # s
    <3>1. sub'[c] = sub[c] /\ excuse'[c] = excuse[c] BY <1>1, <2>1, <2>3 DEF RowsOK
    <3> QED BY <3>1 DEF IInv, Standing
  <2> QED BY <2>2, <2>3
<1> QED BY <1>2, <1>3, <1>4 DEF Standing

LEMMA RowsStay ==
  ASSUME IInv, UNCHANGED <<sub, verdict, gone, excuse>>
  PROVE  RowsOK' /\ Standing'
<1>1. RowsOK BY TypeParts DEF IInv
<1>2. Standing BY DEF IInv
<1> QED BY <1>1, <1>2 DEF RowsOK, Standing

\* What is known of one subscriber.
LEMMA RowHas ==
  ASSUME IInv, NEW s \in Subs
  PROVE  /\ RowsOK /\ sub[s] \in Row /\ verdict[s] \in Verdicts
         /\ Stands(sub[s], verdict[s], s \in gone)
         /\ s \in Chats => excuse[s] \subseteq Reasons /\ Explained(sub[s], excuse[s])
BY TypeParts DEF IInv, Standing, RowsOK

LEMMA DigestRow ==
  ASSUME NEW row \in Row, NEW flag \in {"off", "on"}
  PROVE  /\ Digest(row, flag) \in Row
         /\ Digest(row, flag).status = row.status /\ Digest(row, flag).approved = row.approved
         /\ Digest(row, flag).digest \in {"none", flag}
<1>1. CASE row.digest = "none" BY <1>1 DEF Digest
<1>2. CASE row.digest # "none" BY <1>2 DEF Digest, Row
<1> QED BY <1>1, <1>2

LEMMA ExcusedAt ==
  ASSUME RowsOK, NEW s \in Subs, NEW why \in Reasons, Excused(s, why)
  PROVE  /\ excuse' \in [Chats -> SUBSET Reasons]
         /\ \A c \in Chats \ {s} : excuse'[c] = excuse[c]
         /\ s \in Chats => excuse'[s] # {}
BY DEF Excused, RowsOK

LEMMA UnexcusedAt ==
  ASSUME RowsOK, NEW s \in Subs, Unexcused(s)
  PROVE  /\ excuse' \in [Chats -> SUBSET Reasons]
         /\ \A c \in Chats \ {s} : excuse'[c] = excuse[c]
BY DEF Unexcused, RowsOK

\* A chat that comes back is active only if it was approved before it left.
LEMMA ReturnStands ==
  ASSUME NEW row \in Row, NEW v \in Verdicts, NEW s \in Subs, Stands(row, v, s \in gone)
  PROVE  /\ Returned(row) \in Row /\ Stands(Returned(row), v, s \in gone)
         /\ Returned(row).approved = row.approved /\ Returned(row).digest = row.digest
<1>1. CASE row.status # "left" BY <1>1 DEF Returned
<1>2. CASE row.status = "left"
  <2>1. PICK x : x = [row EXCEPT !.status = StatusAfterReturn(row)] OBVIOUS
  <2>2. /\ x \in Row /\ x.approved = row.approved /\ x.digest = row.digest
        /\ x.status = IF row.approved THEN "active" ELSE "pending"
    BY <2>1 DEF Row, Statuses, StatusAfterReturn
  <2>3. Stands(x, v, s \in gone) BY <1>2, <2>2 DEF Stands
  <2>4. Returned(row) = x BY <1>2, <2>1 DEF Returned
  <2> QED BY <2>2, <2>3, <2>4
<1> QED BY <1>1, <1>2

\* A chat that goes stays blocked if it was.
LEMMA DepartureStands ==
  ASSUME NEW row \in Row, NEW v \in Verdicts, NEW s \in Subs, Stands(row, v, s \in gone),
         row.status # "none"
  PROVE  Departed(row) \in Row /\ Stands(Departed(row), v, TRUE)
<1>1. PICK x : x = IF row.status = "blocked" THEN row ELSE [row EXCEPT !.status = "left"] OBVIOUS
<1>2. x \in Row /\ x.approved = row.approved /\ x.status = (IF row.status = "blocked" THEN "blocked" ELSE "left")
  BY <1>1 DEF Row, Statuses
<1>3. Departed(row) = Digest(x, "off") BY <1>1 DEF Departed
<1>4. /\ Departed(row) \in Row /\ Departed(row).status = x.status
      /\ Departed(row).approved = x.approved
  BY <1>2, <1>3, DigestRow
<1> QED BY <1>2, <1>4 DEF Stands

-----------------------------------------------------------------------------
(* Steps.                                                                  *)

LEMMA UpdateStands ==
  ASSUME IInv, NEW s \in Subs, NEW seen \in Rights, Exists(s), UpdateBotStatus(s, seen)
  PROVE  RowsOK' /\ Standing'
<1>1. /\ RowsOK /\ sub[s] \in Row /\ verdict[s] \in Verdicts
      /\ Stands(sub[s], verdict[s], s \in gone)
      /\ s \in Chats => excuse[s] \subseteq Reasons /\ Explained(sub[s], excuse[s])
  BY RowHas
<1>2. verdict' = [verdict EXCEPT ![s] = verdict[s]] BY <1>1 DEF UpdateBotStatus, RowsOK
<1>3. CASE seen.at # "absent"
  <2>1. /\ Returned(sub[s]) \in Row /\ Stands(Returned(sub[s]), verdict[s], s \in gone)
        /\ Returned(sub[s]).approved = sub[s].approved /\ Returned(sub[s]).digest = sub[s].digest
    BY <1>1, ReturnStands
  <2>2. sub' = [sub EXCEPT ![s] = Returned(sub[s])] /\ gone' = gone /\ excuse' = excuse
    BY <1>3 DEF UpdateBotStatus
  <2>3. s \in Chats => Explained(Returned(sub[s]), excuse'[s]) BY <1>1, <2>1, <2>2 DEF Explained
  <2>4. excuse' \in [Chats -> SUBSET Reasons] BY <1>1, <2>2 DEF RowsOK
  <2> QED BY <1>1, <1>2, <2>1, <2>2, <2>3, <2>4, RowWritten
<1>4. CASE seen.at = "absent"
  <2>1. Departed(sub[s]) \in Row /\ Stands(Departed(sub[s]), verdict[s], TRUE)
    BY <1>1, DepartureStands DEF Exists
  <2>2. sub' = [sub EXCEPT ![s] = Departed(sub[s])] /\ gone' = gone \cup {s} /\ Excused(s, "absent")
    BY <1>4 DEF UpdateBotStatus
  <2>3. /\ excuse' \in [Chats -> SUBSET Reasons] /\ \A c \in Chats \ {s} : excuse'[c] = excuse[c]
        /\ s \in Chats => excuse'[s] # {}
    BY <1>1, <2>2, ExcusedAt DEF Reasons
  <2>4. s \in Chats => Explained(Departed(sub[s]), excuse'[s]) BY <2>3 DEF Explained
  <2>5. Stands(Departed(sub[s]), verdict[s], s \in gone') BY <2>1, <2>2 DEF Stands
  <2> QED BY <1>1, <1>2, <2>1, <2>2, <2>3, <2>4, <2>5, RowWritten
<1> QED BY <1>3, <1>4

LEMMA RegisterStands ==
  ASSUME IInv, NEW h \in handling, RegisterChat(h)
  PROVE  RowsOK' /\ Standing'
<1> DEFINE c == h.up.chat
<1>1. c \in Chats /\ c \in Subs BY DEF IInv, TypeOK, Subs
<1>2. /\ RowsOK /\ sub[c] \in Row /\ verdict[c] \in Verdicts
      /\ Stands(sub[c], verdict[c], c \in gone)
      /\ excuse[c] \subseteq Reasons /\ Explained(sub[c], excuse[c])
  BY <1>1, RowHas
<1>3. PICK row : row = IF Exists(c) THEN Returned(sub[c]) ELSE [None EXCEPT !.status = "pending"]
  OBVIOUS
<1>4. UNCHANGED <<verdict, gone, excuse>> /\ sub' = [sub EXCEPT ![c] = row]
  BY <1>1, <1>2, <1>3 DEF RegisterChat, history, RowsOK
<1>5. row \in Row /\ Stands(row, verdict[c], c \in gone) /\ Explained(row, excuse[c])
  <2>1. CASE Exists(c)
    <3>1. /\ Returned(sub[c]) \in Row /\ Stands(Returned(sub[c]), verdict[c], c \in gone)
          /\ Returned(sub[c]).approved = sub[c].approved /\ Returned(sub[c]).digest = sub[c].digest
      BY <1>1, <1>2, ReturnStands
    <3> QED BY <1>2, <1>3, <2>1, <3>1 DEF Explained
  <2>2. CASE ~Exists(c)
    <3>1. row \in Row /\ row.status = "pending" /\ row.digest = "none"
      BY <1>3, <2>2 DEF None, Row, Statuses
    <3>2. verdict[c] = "none" BY <1>2, <2>2 DEF Stands, Exists
    <3> QED BY <3>1, <3>2 DEF Stands, Explained
  <2> QED BY <2>1, <2>2
<1>6. verdict' = [verdict EXCEPT ![c] = verdict[c]] /\ excuse' \in [Chats -> SUBSET Reasons]
  BY <1>2, <1>4 DEF RowsOK
<1> HIDE DEF c
<1> QED BY <1>1, <1>2, <1>4, <1>5, <1>6, RowWritten

\* The profile made late is silent, and that is its cause.
LEMMA EnsureStands ==
  ASSUME IInv, NEW s \in Subs, EnsureProfile(s), UNCHANGED <<verdict, gone>>
  PROVE  RowsOK' /\ Standing'
<1>1. CASE sub[s].digest # "none" BY <1>1, RowsStay DEF EnsureProfile
<1>2. CASE sub[s].digest = "none"
  <2>1. RowsOK /\ sub[s] \in Row /\ verdict[s] \in Verdicts /\ Stands(sub[s], verdict[s], s \in gone)
    BY RowHas
  <2>2. PICK row : row = [sub[s] EXCEPT !.digest = "off"] OBVIOUS
  <2>3. sub' = [sub EXCEPT ![s] = row] /\ Excused(s, "new") BY <1>2, <2>1, <2>2 DEF EnsureProfile, RowsOK
  <2>4. row \in Row /\ row.status = sub[s].status /\ row.approved = sub[s].approved BY <2>1, <2>2 DEF Row
  <2>5. Stands(row, verdict[s], s \in gone') BY <2>1, <2>4 DEF Stands
  <2>6. /\ excuse' \in [Chats -> SUBSET Reasons] /\ \A c \in Chats \ {s} : excuse'[c] = excuse[c]
        /\ s \in Chats => excuse'[s] # {}
    BY <2>1, <2>3, ExcusedAt DEF Reasons
  <2>7. verdict' = [verdict EXCEPT ![s] = verdict[s]] BY <2>1 DEF RowsOK
  <2> QED BY <2>1, <2>3, <2>4, <2>5, <2>6, <2>7, RowWritten DEF Explained
<1> QED BY <1>1, <1>2

LEMMA AnswerStands ==
  ASSUME IInv, NEW a \in asked, Answer(a)
  PROVE  RowsOK' /\ Standing'
<1>1. a.who \in Subs /\ UNCHANGED <<verdict, gone>> BY DEF IInv, TypeOK, Answer
<1>2. CASE AnswerChat(a.who, a.cmd) BY <1>1, <1>2, EnsureStands, RowsStay DEF AnswerChat
<1>3. CASE a.who \in People /\ AnswerPerson(a.who, a.cmd)
  <2> DEFINE p == a.who
             old == IF Exists(p) THEN sub[p] ELSE [None EXCEPT !.status = "pending"]
  <2>1. PICK flag \in {"off", "on"} : sub' = [sub EXCEPT ![p] = [old EXCEPT !.digest = flag]]
    BY <1>3 DEF AnswerPerson
  <2>2. p \in Subs /\ p \notin Chats BY <1>1, <1>3, SubscribersAssumption
  <2>3. RowsOK /\ sub[p] \in Row /\ verdict[p] \in Verdicts /\ Stands(sub[p], verdict[p], p \in gone)
    BY <2>2, RowHas
  <2>4. old \in Row /\ Stands(old, verdict[p], p \in gone)
    BY <2>3 DEF Stands, None, Row, Statuses, Exists
  <2> HIDE DEF p, old
  <2>5. PICK row : row = [old EXCEPT !.digest = flag] OBVIOUS
  <2>6. row \in Row /\ row.status = old.status /\ row.approved = old.approved BY <2>4, <2>5 DEF Row
  <2>7. Stands(row, verdict[p], p \in gone') BY <1>1, <2>4, <2>6 DEF Stands
  <2>8. verdict' = [verdict EXCEPT ![p] = verdict[p]] /\ excuse' = excuse
        /\ excuse' \in [Chats -> SUBSET Reasons]
    BY <1>1, <1>3, <2>3 DEF RowsOK, AnswerPerson
  <2>9. sub' = [sub EXCEPT ![p] = row] BY <2>1, <2>5
  <2> QED BY <1>1, <2>2, <2>3, <2>6, <2>7, <2>8, <2>9, RowWritten
<1> QED BY <1>2, <1>3 DEF Answer

-----------------------------------------------------------------------------
(* Administrators.                                                         *)

\* A decision on a row there is.
LEMMA DecisionStands ==
  ASSUME IInv, NEW s \in Subs, NEW row \in Row, NEW v \in Verdicts, Decided(s, v),
         sub' = [sub EXCEPT ![s] = row], excuse' \in [Chats -> SUBSET Reasons],
         \A c \in Chats \ {s} : excuse'[c] = excuse[c],
         <<row.status, v>> \in {<<"none", "none">>, <<"active", "admitted">>, <<"blocked", "banned">>},
         s \in Chats => Explained(row, excuse'[s])
  PROVE  RowsOK' /\ Standing'
<1>1. verdict' = [verdict EXCEPT ![s] = v] /\ gone' = gone \ {s} BY DEF Decided
<1>2. Stands(row, v, s \in gone') BY <1>1 DEF Stands
<1> QED BY <1>1, <1>2, RowWritten

LEMMA CreateStands == ASSUME IInv, NEW s \in Subs, Create(s) PROVE RowsOK' /\ Standing'
<1>1. RowsOK BY RowHas
<1>2. PICK row : row = [None EXCEPT !.status = "active"] OBVIOUS
<1>3. row \in Row /\ row.status = "active" /\ row.digest = "none" BY <1>2 DEF None, Row, Statuses
<1>4. sub' = [sub EXCEPT ![s] = row] /\ Decided(s, "admitted") /\ excuse' = excuse
  BY <1>2 DEF Create
<1>5. excuse' \in [Chats -> SUBSET Reasons] BY <1>1, <1>4 DEF RowsOK
<1> QED BY <1>3, <1>4, <1>5, DecisionStands DEF Verdicts, Explained

\* The approval switches on whatever profile there is.
LEMMA ApproveStands == ASSUME IInv, NEW s \in Subs, Approve(s) PROVE RowsOK' /\ Standing'
<1>1. RowsOK /\ sub[s] \in Row BY RowHas
<1>2. PICK row : row = [sub[s] EXCEPT !.status = "active", !.approved = TRUE] OBVIOUS
<1>3. row \in Row /\ row.status = "active" BY <1>1, <1>2 DEF Row, Statuses
<1>4. PICK new : new = Approved(s) OBVIOUS
<1>5. new = IF s \in Chats THEN Digest(row, "on") ELSE row BY <1>2, <1>4 DEF Approved
<1>6. new \in Row /\ new.status = "active" /\ (s \in Chats => new.digest # "off")
  BY <1>3, <1>5, DigestRow
<1>7. sub' = [sub EXCEPT ![s] = new] /\ Decided(s, "admitted") /\ Unexcused(s)
  BY <1>4 DEF Approve
<1>8. excuse' \in [Chats -> SUBSET Reasons] /\ \A c \in Chats \ {s} : excuse'[c] = excuse[c]
  BY <1>1, <1>7, UnexcusedAt
<1> QED BY <1>6, <1>7, <1>8, DecisionStands DEF Verdicts, Explained

LEMMA BanStands ==
  ASSUME IInv, NEW s \in Subs, Reject(s) \/ Block(s) PROVE RowsOK' /\ Standing'
<1>1. RowsOK /\ sub[s] \in Row BY RowHas
<1>2. /\ Decided(s, "banned") /\ Excused(s, "admin")
      /\ \E old \in Row : sub' = [sub EXCEPT ![s] = Blocked(old)]
  <2>1. CASE Block(s) BY <1>1, <2>1 DEF Block, Ban, RowsOK
  <2>2. CASE Reject(s)
    <3>1. PICK old : old = [sub[s] EXCEPT !.approved = FALSE] OBVIOUS
    <3>2. old \in Row BY <1>1, <3>1 DEF Row
    <3>3. sub' = [sub EXCEPT ![s] = Blocked(old)] BY <1>1, <2>2, <3>1 DEF Reject, Rejected, RowsOK
    <3> QED BY <2>2, <3>2, <3>3 DEF Reject, Ban
  <2> QED BY <2>1, <2>2
<1>3. PICK old \in Row : sub' = [sub EXCEPT ![s] = Blocked(old)] BY <1>2
<1>4. PICK row : row = [old EXCEPT !.status = "blocked"] OBVIOUS
<1>5. row \in Row /\ row.status = "blocked" BY <1>4 DEF Row, Statuses
<1>6. Blocked(old) \in Row /\ Blocked(old).status = "blocked" BY <1>4, <1>5, DigestRow DEF Blocked
<1>7. /\ excuse' \in [Chats -> SUBSET Reasons] /\ \A c \in Chats \ {s} : excuse'[c] = excuse[c]
      /\ s \in Chats => excuse'[s] # {}
  BY <1>1, <1>2, ExcusedAt DEF Reasons
<1> QED BY <1>2, <1>3, <1>6, <1>7, DecisionStands DEF Verdicts, Explained

LEMMA PatchStands == ASSUME IInv, NEW s \in Subs, Patch(s) PROVE RowsOK' /\ Standing'
<1>1. RowsOK /\ sub[s] \in Row /\ (s \in Chats => Explained(sub[s], excuse[s])) BY RowHas
<1>2. PICK status \in Statuses :
        /\ sub' = [sub EXCEPT ![s].status = status]
        /\ verdict' = [verdict EXCEPT ![s] = Verdict[status]]
        /\ gone' = IF status = "left" THEN gone \cup {s} ELSE gone \ {s}
  BY DEF Patch
<1>3. PICK row : row = [sub[s] EXCEPT !.status = status] OBVIOUS
<1>4. /\ row \in Row /\ row.status = status /\ row.approved = sub[s].approved
      /\ row.digest = sub[s].digest
  BY <1>1, <1>3 DEF Row
<1>5. sub' = [sub EXCEPT ![s] = row] BY <1>1, <1>2, <1>3 DEF RowsOK
<1>6. excuse' = excuse /\ excuse' \in [Chats -> SUBSET Reasons] BY <1>1 DEF Patch, RowsOK
<1>7. Verdict[status] \in Verdicts BY DEF Verdict, Verdicts, Statuses
<1>8. Stands(row, Verdict[status], s \in gone')
  <2>1. s \in gone' <=> status = "left" BY <1>2
  <2>2. /\ Verdict["pending"] = "none" /\ Verdict["active"] = "admitted"
        /\ Verdict["paused"] = "paused" /\ Verdict["blocked"] = "banned" /\ Verdict["left"] = "none"
    BY DEF Verdict
  <2> QED BY <1>4, <2>1, <2>2 DEF Stands, Statuses
<1>9. s \in Chats => Explained(row, excuse'[s]) BY <1>1, <1>4, <1>6 DEF Explained
<1> QED BY <1>2, <1>4, <1>5, <1>6, <1>7, <1>8, <1>9, RowWritten

\* Only the flag of one row changes.
LEMMA FlagStands ==
  ASSUME IInv, NEW s \in Subs, NEW row \in Row, row.status = sub[s].status,
         row.approved = sub[s].approved, sub' = [sub EXCEPT ![s] = row],
         UNCHANGED <<verdict, gone>>, excuse' \in [Chats -> SUBSET Reasons],
         \A c \in Chats \ {s} : excuse'[c] = excuse[c],
         s \in Chats => Explained(row, excuse'[s])
  PROVE  RowsOK' /\ Standing'
<1>1. RowsOK /\ verdict[s] \in Verdicts /\ Stands(sub[s], verdict[s], s \in gone) BY RowHas
<1>2. verdict' = [verdict EXCEPT ![s] = verdict[s]] BY <1>1 DEF RowsOK
<1>3. Stands(row, verdict[s], s \in gone') BY <1>1 DEF Stands
<1> QED BY <1>1, <1>2, <1>3, RowWritten

LEMMA SilenceStands ==
  ASSUME IInv, NEW d \in desk, Silence(d) PROVE RowsOK' /\ Standing'
<1>1. PICK s \in Subs : s = d.who BY DEF IInv, TypeOK
<1>2. RowsOK /\ sub[s] \in Row BY RowHas
<1>3. sub' = [sub EXCEPT ![s] = Digest(sub[s], "off")] /\ Excused(s, "admin") /\ UNCHANGED <<verdict, gone>>
  BY <1>1, <1>2 DEF Silence, RowsOK
<1>4. /\ Digest(sub[s], "off") \in Row /\ Digest(sub[s], "off").status = sub[s].status
      /\ Digest(sub[s], "off").approved = sub[s].approved
  BY <1>2, DigestRow
<1>5. /\ excuse' \in [Chats -> SUBSET Reasons] /\ \A c \in Chats \ {s} : excuse'[c] = excuse[c]
      /\ s \in Chats => excuse'[s] # {}
  BY <1>2, <1>3, ExcusedAt DEF Reasons
<1> QED BY <1>3, <1>4, <1>5, FlagStands DEF Explained

LEMMA SetDigestStands ==
  ASSUME IInv, NEW s \in Subs, SetDigest(s) PROVE RowsOK' /\ Standing'
<1>1. RowsOK /\ sub[s] \in Row BY RowHas
<1>2. PICK flag \in {"on", "off"} :
        /\ sub' = [sub EXCEPT ![s].digest = flag]
        /\ IF flag = "on" THEN Unexcused(s) ELSE Excused(s, "admin")
  BY DEF SetDigest
<1>3. PICK row : row = [sub[s] EXCEPT !.digest = flag] OBVIOUS
<1>4. /\ row \in Row /\ row.status = sub[s].status /\ row.approved = sub[s].approved
      /\ row.digest = flag
  BY <1>1, <1>3 DEF Row
<1>5. sub' = [sub EXCEPT ![s] = row] /\ UNCHANGED <<verdict, gone>>
  BY <1>1, <1>2, <1>3 DEF SetDigest, RowsOK
<1>6. /\ excuse' \in [Chats -> SUBSET Reasons] /\ \A c \in Chats \ {s} : excuse'[c] = excuse[c]
      /\ flag = "off" /\ s \in Chats => excuse'[s] # {}
  BY <1>1, <1>2, ExcusedAt, UnexcusedAt DEF Reasons
<1> QED BY <1>4, <1>5, <1>6, FlagStands DEF Explained

LEMMA ForgetStands == ASSUME IInv, NEW s \in Subs, Forget(s) PROVE RowsOK' /\ Standing'
<1>1. RowsOK BY RowHas
<1>2. PICK row : row = None OBVIOUS
<1>3. row \in Row /\ row.status = "none" /\ row.digest = "none" BY <1>2 DEF None, Row
<1>4. sub' = [sub EXCEPT ![s] = row] /\ Decided(s, "none") /\ Unexcused(s) BY <1>2 DEF Forget
<1>5. excuse' \in [Chats -> SUBSET Reasons] /\ \A c \in Chats \ {s} : excuse'[c] = excuse[c]
  BY <1>1, <1>4, UnexcusedAt
<1> QED BY <1>3, <1>4, <1>5, DecisionStands DEF Verdicts, Explained

-----------------------------------------------------------------------------
(* All that is on its way.                                                 *)

LEMMA Spent ==
  ASSUME FlightOK, NEW what \in {"turns", "mishaps", "admin"}, Spend(what)
  PROVE  budget' \in [{"turns", "mishaps", "admin"} -> Nat]
BY DEF FlightOK, Spend

LEMMA MembershipFits ==
  ASSUME FlightOK, NEW s, NEW seen \in Rights
  PROVE  [bot EXCEPT ![s] = Membership(s, seen)] \in [Chats -> BotRow]
<1>1. CASE s \notin Chats BY <1>1 DEF FlightOK
<1>2. CASE s \in Chats
  <2>1. PICK post : post = IF seen.at = "absent" THEN seen.post \/ bot[s].post ELSE seen.post OBVIOUS
  <2>2. post \in BOOLEAN
    <3>1. seen.post \in BOOLEAN /\ bot[s].post \in BOOLEAN BY <1>2 DEF FlightOK, Rights, BotRow
    <3> QED BY <2>1, <3>1
  <2>3. Membership(s, seen) \in BotRow BY <2>1, <2>2 DEF Membership, Rights, BotRow
  <2> QED BY <2>3 DEF FlightOK
<1> QED BY <1>1, <1>2

LEMMA Ages ==
  ASSUME FlightOK, NEW s, \/ UNCHANGED older \/ Arrive(s) \/ Vanish(s)
  PROVE  older' \in [Chats -> SUBSET Chats]
BY DEF FlightOK, Arrive, Vanish

\* The rights a chat can have; the bot gone among them.
LEMMA RightsFit ==
  /\ Out \in Rights
  /\ \A c : Away(c) \in Rights /\ Possible(c) \subseteq Rights
<1>1. Out \in Rights BY DEF Out, Rights
<1>2. ASSUME NEW c PROVE Away(c) \in Rights
  <2>1. PICK post : post = (c \notin Channels) OBVIOUS
  <2>2. post \in BOOLEAN BY <2>1
  <2> QED BY <2>1, <2>2 DEF Away, Rights
<1>3. ASSUME NEW c PROVE Possible(c) \subseteq Rights
  <2>1. [at : {"present"}, post : BOOLEAN] \subseteq Rights BY DEF Rights
  <2>2. [at : {"present", "restricted"}, post : {TRUE}] \subseteq Rights BY DEF Rights
  <2> QED BY <1>2, <2>1, <2>2 DEF Possible
<1> QED BY <1>1, <1>2, <1>3

\* What is written of one membership changes nothing else of this.
LEMMA BotWritten ==
  ASSUME FlightOK, NEW s, NEW seen \in Rights,
         bot' = bot \/ bot' = [bot EXCEPT ![s] = Membership(s, seen)]
  PROVE  bot' \in [Chats -> BotRow]
BY MembershipFits DEF FlightOK

LEMMA TellFlight == ASSUME IInv, Tell PROVE FlightOK'
<1>1. FlightOK BY TypeParts DEF IInv
<1>2. ASSUME NEW u \in updates, LookUp(u) PROVE FlightOK'
  <2>1. u \in [chat : Chats, seen : Rights] BY <1>1 DEF FlightOK
  <2>2. Exists(u.chat) \in BOOLEAN BY DEF Exists
  <2>3. [up |-> u, known |-> Exists(u.chat)] \in [up : [chat : Chats, seen : Rights], known : BOOLEAN]
    BY <2>1, <2>2
  <2>4. updates' \subseteq updates /\ handling' \subseteq handling \cup {[up |-> u, known |-> Exists(u.chat)]}
    BY <1>2 DEF LookUp
  <2>5. UNCHANGED <<truth, bot, older, round, poll, desk, asked, budget>> BY <1>2 DEF LookUp
  <2> QED BY <1>1, <2>3, <2>4, <2>5 DEF FlightOK
<1>3. ASSUME NEW h \in handling, RegisterChat(h) \/ ChangeRights(h) PROVE FlightOK'
  <2>1. h.up.seen \in Rights BY <1>1 DEF FlightOK
  <2>2. bot' = bot \/ bot' = [bot EXCEPT ![h.up.chat] = Membership(h.up.chat, h.up.seen)]
    BY <1>3 DEF RegisterChat, ChangeRights, UpdateBotStatus
  <2>3. handling' = handling \ {h} /\ UNCHANGED <<truth, updates, round, poll, desk, asked, budget>>
    BY <1>3 DEF RegisterChat, ChangeRights
  <2>4. older' \in [Chats -> SUBSET Chats] BY <1>1, <1>3, Ages DEF RegisterChat, ChangeRights
  <2>5. bot' \in [Chats -> BotRow] BY <1>1, <2>1, <2>2, BotWritten
  <2> QED BY <1>1, <2>3, <2>4, <2>5 DEF FlightOK
<1>4. ASSUME NEW s \in Subs, Moderate(s) PROVE FlightOK'
  <2>1. budget' \in [{"turns", "mishaps", "admin"} -> Nat] BY <1>1, <1>4, Spent DEF Moderate
  <2> QED BY <1>1, <1>4, <2>1 DEF FlightOK, Moderate
<1>5. ASSUME NEW a \in asked, Answer(a) PROVE FlightOK'
  BY <1>1, <1>5 DEF FlightOK, Answer
<1> QED BY <1>2, <1>3, <1>4, <1>5 DEF Tell

LEMMA WriteFlight == ASSUME IInv, NEW p \in poll, WriteAnswer(p) PROVE FlightOK'
<1>1. FlightOK BY TypeParts DEF IInv
<1>2. p.seen \in Rights BY <1>1 DEF FlightOK
<1>3. bot' = bot \/ bot' = [bot EXCEPT ![p.chat] = Membership(p.chat, p.seen)]
  BY DEF WriteAnswer, UpdateBotStatus
<1>4. bot' \in [Chats -> BotRow] BY <1>1, <1>2, <1>3, BotWritten
<1>5. round' \subseteq Chats BY <1>1 DEF FlightOK, WriteAnswer
<1> QED BY <1>1, <1>4, <1>5 DEF FlightOK, WriteAnswer

LEMMA MonitorFlight == ASSUME IInv, Monitor PROVE FlightOK'
<1>1. FlightOK BY TypeParts DEF IInv
<1>2. CASE MonitorStart BY <1>1, <1>2 DEF FlightOK, MonitorStart, history
<1>3. ASSUME NEW c \in Chats, MonitorAsk(c) PROVE FlightOK'
  <2>1. budget' \in [{"turns", "mishaps", "admin"} -> Nat]
    BY <1>1, <1>3, Spent DEF MonitorAsk, FlightOK
  <2>2. truth[c] \in Rights BY <1>1 DEF FlightOK
  <2>3. \A seen \in Rights : [by |-> "monitor", chat |-> c, seen |-> seen]
          \in [by : {"monitor", "refresh"}, chat : Chats, seen : Rights]
    OBVIOUS
  <2>4. poll' = poll \/ \E seen \in Rights : poll' = poll \cup {[by |-> "monitor", chat |-> c, seen |-> seen]}
    BY <1>3, <2>2, RightsFit DEF MonitorAsk
  <2>5. poll' \subseteq [by : {"monitor", "refresh"}, chat : Chats, seen : Rights]
    BY <1>1, <2>3, <2>4 DEF FlightOK
  <2> QED BY <1>1, <1>3, <2>1, <2>5 DEF FlightOK, MonitorAsk
<1> QED BY <1>2, <1>3, WriteFlight DEF Monitor

LEMMA ActFlight == ASSUME IInv, Act PROVE FlightOK'
<1>1. FlightOK BY TypeParts DEF IInv
<1>2. ASSUME NEW s \in Subs, Create(s) \/ Approve(s) \/ Reject(s) \/ Block(s) \/ SetDigest(s)
      PROVE  FlightOK'
  <2>1. budget' \in [{"turns", "mishaps", "admin"} -> Nat]
    BY <1>1, <1>2, Spent DEF Create, Approve, Reject, Block, Ban, SetDigest
  <2>2. older' \in [Chats -> SUBSET Chats]
    BY <1>1, <1>2, Ages DEF Create, Approve, Reject, Block, Ban, SetDigest
  <2> QED BY <1>1, <1>2, <2>1, <2>2 DEF FlightOK, Create, Approve, Reject, Block, Ban, SetDigest, flight
<1>3. ASSUME NEW s \in Subs, Patch(s) PROVE FlightOK'
  <2>1. budget' \in [{"turns", "mishaps", "admin"} -> Nat] BY <1>1, <1>3, Spent DEF Patch
  <2> QED BY <1>1, <1>3, <2>1 DEF FlightOK, Patch
<1>4. ASSUME NEW s \in Subs, Forget(s) PROVE FlightOK'
  <2>1. budget' \in [{"turns", "mishaps", "admin"} -> Nat] BY <1>1, <1>4, Spent DEF Forget
  <2>2. older' \in [Chats -> SUBSET Chats] BY <1>1, <1>4, Ages DEF Forget
  <2>3. Unknown \in BotRow BY DEF Unknown, BotRow
  <2>4. bot' \in [Chats -> BotRow] BY <1>1, <1>4, <2>3 DEF FlightOK, Forget
  <2> QED BY <1>1, <1>4, <2>1, <2>2, <2>4 DEF FlightOK, Forget, flight
<1>5. ASSUME NEW c \in Chats, Refresh(c) PROVE FlightOK'
  <2>1. budget' \in [{"turns", "mishaps", "admin"} -> Nat] BY <1>1, <1>5, Spent DEF Refresh
  <2>2. truth[c] \in Rights /\ Out \in Rights BY <1>1, RightsFit DEF FlightOK
  <2>3. \A seen \in Rights : [by |-> "refresh", chat |-> c, seen |-> seen]
          \in [by : {"monitor", "refresh"}, chat : Chats, seen : Rights]
    OBVIOUS
  <2>4. \E seen \in Rights : poll' = poll \cup {[by |-> "refresh", chat |-> c, seen |-> seen]}
    BY <1>5, <2>2 DEF Refresh
  <2>5. UNCHANGED <<truth, bot, older, updates, handling, round, desk, asked>> BY <1>5 DEF Refresh
  <2> QED BY <1>1, <2>1, <2>3, <2>4, <2>5 DEF FlightOK
<1>6. ASSUME NEW c \in Chats, Leave(c) PROVE FlightOK'
  <2>1. budget' \in [{"turns", "mishaps", "admin"} -> Nat] BY <1>1, <1>6, Spent DEF Leave
  <2>2. Away(c) \in Rights /\ c \in Subs BY RightsFit DEF Subs
  <2>3. /\ [chat |-> c, seen |-> Away(c)] \in [chat : Chats, seen : Rights]
        /\ [who |-> c, op |-> "leave"] \in [who : Subs, op : {"approve", "silence", "leave"}]
    BY <2>2
  <2>4. truth' = truth \/ truth' = [truth EXCEPT ![c] = Away(c)] BY <1>6 DEF Leave
  <2>5. /\ updates' \subseteq updates \cup {[chat |-> c, seen |-> Away(c)]}
        /\ desk' = desk \cup {[who |-> c, op |-> "leave"]}
        /\ UNCHANGED <<bot, older, handling, round, poll, asked>>
    BY <1>6 DEF Leave
  <2>6. truth' \in [Chats -> Rights] BY <1>1, <2>2, <2>4 DEF FlightOK
  <2> QED BY <1>1, <2>1, <2>3, <2>5, <2>6 DEF FlightOK
<1>7. ASSUME NEW d \in desk, ApproveProfile(d) \/ Silence(d) PROVE FlightOK'
  BY <1>1, <1>7 DEF FlightOK, ApproveProfile, Silence
<1>8. ASSUME NEW d \in desk, Abandon(d) PROVE FlightOK'
  <2>1. budget' \in [{"turns", "mishaps", "admin"} -> Nat] BY <1>1, <1>8, Spent DEF Abandon
  <2> QED BY <1>1, <1>8, <2>1 DEF FlightOK, Abandon
<1>9. ASSUME NEW d \in desk, LeaveWrite(d) PROVE FlightOK'
  <2>1. Out \in Rights BY RightsFit
  <2>2. bot' = bot \/ bot' = [bot EXCEPT ![d.who] = Membership(d.who, Out)]
    BY <1>9 DEF LeaveWrite, UpdateBotStatus
  <2>3. bot' \in [Chats -> BotRow]
    BY <1>1, <2>1, <2>2, BotWritten
  <2> QED BY <1>1, <1>9, <2>3 DEF FlightOK, LeaveWrite
<1> QED BY <1>2, <1>3, <1>4, <1>5, <1>6, <1>7, <1>8, <1>9, WriteFlight,
       SubscribersAssumption DEF Act, Subs

LEMMA TelegramKeeps ==
  ASSUME IInv, LoseUpdate \/ \E c \in Chats : Turn(c)
  PROVE  FlightOK' /\ UNCHANGED <<sub, verdict, gone, excuse>>
<1>1. FlightOK BY TypeParts DEF IInv
<1>2. budget' \in [{"turns", "mishaps", "admin"} -> Nat] BY <1>1, Spent DEF LoseUpdate, Turn
<1>3. CASE LoseUpdate BY <1>1, <1>2, <1>3 DEF FlightOK, LoseUpdate, history
<1>4. ASSUME NEW c \in Chats, Turn(c) PROVE FlightOK' /\ UNCHANGED <<sub, verdict, gone, excuse>>
  <2>1. PICK r \in Rights : /\ truth' = [truth EXCEPT ![c] = r]
                            /\ updates' = updates \cup {[chat |-> c, seen |-> r]}
    BY <1>4, RightsFit DEF Turn
  <2> QED BY <1>1, <1>2, <1>4, <2>1 DEF FlightOK, Turn, history
<1> QED BY <1>3, <1>4

-----------------------------------------------------------------------------
(* The theorems.                                                           *)

LEMMA WriteStands == ASSUME IInv, NEW p \in poll, WriteAnswer(p) PROVE RowsOK' /\ Standing'
<1>1. p.chat \in Subs /\ p.seen \in Rights BY DEF IInv, TypeOK, Subs
<1> QED BY <1>1, UpdateStands, RowsStay DEF WriteAnswer, history

LEMMA ChangeStands == ASSUME IInv, NEW h \in handling, ChangeRights(h) PROVE RowsOK' /\ Standing'
<1>1. h.up.chat \in Subs /\ h.up.seen \in Rights BY DEF IInv, TypeOK, Subs
<1> QED BY <1>1, UpdateStands, RowsStay DEF ChangeRights, history

LEMMA DeskStands ==
  ASSUME IInv, NEW d \in desk, ApproveProfile(d) \/ LeaveWrite(d) PROVE RowsOK' /\ Standing'
<1>1. d.who \in Subs /\ Out \in Rights BY RightsFit DEF IInv, TypeOK
<1>2. CASE ApproveProfile(d) BY <1>1, <1>2, EnsureStands, RowsStay DEF ApproveProfile
<1>3. CASE LeaveWrite(d) BY <1>1, <1>3, UpdateStands, RowsStay DEF LeaveWrite, history
<1> QED BY <1>2, <1>3

LEMMA StepKeeps == ASSUME IInv, [Next]_vars PROVE IInv'
<1> SUFFICES FlightOK' /\ RowsOK' /\ Standing' BY TypeParts DEF IInv, TypeOK, RowsOK, FlightOK, Verdicts, Reasons, BotRow
<1>1. CASE UNCHANGED vars
  <2>1. FlightOK BY TypeParts DEF IInv
  <2> QED BY <1>1, <2>1, RowsStay DEF vars, FlightOK
<1>2. CASE LoseUpdate \/ \E c \in Chats : Turn(c) BY <1>2, TelegramKeeps, RowsStay
<1>3. CASE Tell
  <2>1. ASSUME (\E u \in updates : LookUp(u)) \/ (\E s \in Subs : Moderate(s))
        PROVE  UNCHANGED <<sub, verdict, gone, excuse>>
    BY <2>1 DEF LookUp, Moderate, history
  <2> QED BY <1>3, <2>1, TellFlight, RowsStay, RegisterStands, ChangeStands, AnswerStands DEF Tell
<1>4. CASE Monitor
  <2>1. ASSUME MonitorStart \/ \E c \in Chats : MonitorAsk(c)
        PROVE  UNCHANGED <<sub, verdict, gone, excuse>>
    BY <2>1 DEF MonitorStart, MonitorAsk, history
  <2> QED BY <1>4, <2>1, MonitorFlight, RowsStay, WriteStands DEF Monitor
<1>5. CASE Act
  <2>1. ASSUME (\E c \in Chats : Refresh(c) \/ Leave(c)) \/ (\E d \in desk : Abandon(d))
        PROVE  UNCHANGED <<sub, verdict, gone, excuse>>
    BY <2>1 DEF Refresh, Leave, Abandon, history
  <2> QED BY <1>5, <2>1, ActFlight, RowsStay, CreateStands, ApproveStands, BanStands, PatchStands,
             SetDigestStands, ForgetStands, SilenceStands, DeskStands, WriteStands, SubscribersAssumption
          DEF Act, Subs
<1> QED BY <1>1, <1>2, <1>3, <1>4, <1>5 DEF Next

LEMMA InitHolds == ASSUME Init PROVE IInv
<1>1. TypeOK
  BY SubscribersAssumption, RightsFit DEF Init, TypeOK, None, Unknown, Row
<1>2. Standing BY DEF Init, Standing, Stands, Explained, None, Subs
<1> QED BY <1>1, <1>2 DEF IInv

LEMMA Invariance == Spec => []IInv
<1>1. Init => IInv BY InitHolds
<1>2. IInv /\ [Next]_vars => IInv' BY StepKeeps
<1> QED BY <1>1, <1>2, PTL DEF Spec

\* Every table and everything on its way keeps its shape.
THEOREM TypeCorrect == Spec => []TypeOK
BY Invariance, PTL DEF IInv

\* The banned stay blocked, the paused paused while the bot stays, and nobody
\* is active who was not let in, in whatever order the bot, the monitor and
\* the administrators write (subscriber_repository.py update_bot_status).
THEOREM DecisionsStand == Spec => []DecisionHolds
<1>1. IInv => DecisionHolds BY DEF IInv, Standing, Stands, DecisionHolds
<1> QED BY <1>1, Invariance, PTL

\* No approved chat is active and silent without a cause
\* (subscriber_repository.py approve, ensure_profile).
THEOREM NobodyIsSilenced == Spec => []SilenceHasCause
<1>1. IInv => SilenceHasCause BY DEF IInv, Standing, Explained, SilenceHasCause
<1> QED BY <1>1, Invariance, PTL

-----------------------------------------------------------------------------
(* Subscriptions: the periods of one subscriber.                           *)


PeriodRow == [status : PeriodStatuses \cup {"none"}, starts : Nat, ends : Nat \cup {Never},
        grace : Nat \cup {Never}, source : {"admin", "trial"}]

TrialRows == {i \in Rows : period[i].source = "trial"}

\* A row is expired only when its time is over, grace and all; a row that is
\* given more time is active again.
Past(r, t) == r.status = "expired" => Finite(r.ends) /\ Deadline(r) < t
Settled == \A i \in Ids : Past(period[i], now)

\* Unless they race: one request at a time is between its transactions, what it
\* has seen of the trials still holds, and the rows have one trial at most.
OneLooks == \A a, b \in Admins : trial[a] # "idle" /\ trial[b] # "idle" => a = b
SawNone == \A a \in Admins : trial[a] = "free" => TrialRows = {}
AtMostOne == \A i, j \in TrialRows : i = j
Trials == raced \/ (OneLooks /\ SawNone /\ AtMostOne)

PeriodsInv == PeriodsTypeOK /\ Settled /\ Trials

-----------------------------------------------------------------------------
(* Rows.                                                                   *)

\* What an operation may make of a row: it keeps its source and its place.
Kept(q, r) ==
  /\ q \in PeriodRow /\ Past(q, now)
  /\ q.source = r.source /\ (q.status = "none" <=> r.status = "none")

LEMMA PeriodHas ==
  ASSUME PeriodsInv
  PROVE  /\ now \in Nat /\ period \in [Ids -> PeriodRow]
         /\ \A i \in Ids : period[i] \in PeriodRow /\ Past(period[i], now) /\ Kept(period[i], period[i])
BY DEF PeriodsInv, PeriodsTypeOK, Settled, PeriodRow, Kept

LEMMA RowsKept ==
  ASSUME PeriodsInv, period' \in [Ids -> PeriodRow], now' = now, \A i \in Ids : Kept(period'[i], period[i])
  PROVE  Settled' /\ TrialRows' = TrialRows
BY DEF Settled, TrialRows, Rows, Kept

\* A replaced row.
LEMMA ReplacedRow ==
  ASSUME NEW r \in PeriodRow, NEW begin \in Nat, r.status # "none"
  PROVE  Kept(Replaced(r, begin), r)
<1>1. PICK end : end = IF Finite(r.ends) /\ r.ends <= begin THEN r.ends ELSE begin OBVIOUS
<1>2. end \in Nat \cup {Never} BY <1>1 DEF PeriodRow
<1>3. PICK q : q = [r EXCEPT !.status = "cancelled", !.ends = end] OBVIOUS
<1>4. q \in PeriodRow /\ q.status = "cancelled" /\ q.source = r.source BY <1>2, <1>3 DEF PeriodRow, PeriodStatuses
<1>5. Replaced(r, begin) = q BY <1>1, <1>3 DEF Replaced
<1> QED BY <1>4, <1>5 DEF Kept, Past

\* A cancelled row.
LEMMA CancelledRow ==
  ASSUME NEW r \in PeriodRow, now \in Nat, r.status # "none"
  PROVE  Kept(Cancelled(r), r)
<1>1. PICK end : end = IF Finite(r.ends) /\ r.ends <= now THEN r.ends
                       ELSE IF now > r.starts THEN now ELSE r.starts
  OBVIOUS
<1>2. end \in Nat \cup {Never} BY <1>1 DEF PeriodRow
<1>3. PICK q : q = [r EXCEPT !.status = "cancelled", !.ends = end] OBVIOUS
<1>4. q \in PeriodRow /\ q.status = "cancelled" /\ q.source = r.source BY <1>2, <1>3 DEF PeriodRow, PeriodStatuses
<1>5. Cancelled(r) = q BY <1>1, <1>3 DEF Cancelled
<1> QED BY <1>4, <1>5 DEF Kept, Past

\* A row with more time is not expired.
LEMMA ExtendedRow ==
  ASSUME NEW r \in PeriodRow, NEW end \in Nat, r.status # "none"
  PROVE  Kept(Extended(r, end), r)
<1>1. PICK status : status = IF r.status = "expired" THEN "active" ELSE r.status OBVIOUS
<1>2. status \in PeriodStatuses /\ status # "expired" /\ status # "none"
  BY <1>1 DEF PeriodRow, PeriodStatuses, Active
<1>3. PICK q : q = [r EXCEPT !.ends = end, !.status = status] OBVIOUS
<1>4. q \in PeriodRow /\ q.status = status /\ q.source = r.source BY <1>2, <1>3 DEF PeriodRow
<1>5. Extended(r, end) = q BY <1>1, <1>3 DEF Extended
<1> QED BY <1>2, <1>4, <1>5 DEF Kept, Past

\* A row that is due may expire.
LEMMA ExpiredRow ==
  ASSUME NEW r \in PeriodRow, now \in Nat, Due(r)
  PROVE  Kept([r EXCEPT !.status = "expired"], r)
<1>1. PICK q : q = [r EXCEPT !.status = "expired"] OBVIOUS
<1>2. /\ q \in PeriodRow /\ q.status = "expired" /\ q.source = r.source
      /\ q.ends = r.ends /\ q.grace = r.grace
  BY <1>1 DEF PeriodRow, PeriodStatuses
<1>3. Past(q, now) BY <1>2 DEF Due, Past, Deadline
<1>4. r.status # "none" BY DEF Due, Active
<1> QED BY <1>1, <1>2, <1>3, <1>4 DEF Kept

\* A grant adds one row, and leaves the others their source.
LEMMA GrantAdds ==
  ASSUME PeriodsInv, NEW new \in PeriodRow, new.status \in {"active", "pending", "trial"},
         NEW replace \in BOOLEAN, GrantSubscription(new, replace), now' = now
  PROVE  /\ period' \in [Ids -> PeriodRow] /\ Settled'
         /\ \E i \in Ids : TrialRows' = IF new.source = "trial" THEN TrialRows \cup {i} ELSE TrialRows
<1> DEFINE hit == Overlapping(new.starts)
<1>1. PICK i \in Ids \ Rows :
        period' = [j \in Ids |-> IF j = i THEN new
                              ELSE IF j \in hit THEN Replaced(period[j], new.starts) ELSE period[j]]
  BY DEF GrantSubscription
<1>2. /\ now \in Nat /\ period \in [Ids -> PeriodRow]
      /\ \A j \in Ids : period[j] \in PeriodRow /\ Past(period[j], now) /\ Kept(period[j], period[j])
  BY PeriodHas
<1>3. new.starts \in Nat BY DEF PeriodRow
<1>4. ASSUME NEW j \in Ids \ {i} PROVE Kept(period'[j], period[j])
  <2>1. CASE j \in hit
    <3>1. period[j].status # "none" BY <2>1 DEF Overlapping, Rows
    <3>2. Kept(Replaced(period[j], new.starts), period[j]) BY <1>2, <1>3, <3>1, ReplacedRow
    <3> QED BY <1>1, <2>1, <3>2
  <2>2. CASE j \notin hit BY <1>1, <1>2, <2>2
  <2> QED BY <2>1, <2>2
<1>5. period'[i] = new BY <1>1
<1>6. ASSUME NEW j \in Ids PROVE period'[j] \in PeriodRow /\ Past(period'[j], now)
  BY <1>4, <1>5 DEF Kept, Past
<1>7. period' \in [Ids -> PeriodRow] BY <1>1, <1>6
<1>8. Settled' BY <1>6 DEF Settled
<1>9. i \in Ids /\ i \notin TrialRows BY <1>1 DEF TrialRows
<1>10. \A j \in Ids \ {i} : j \in TrialRows' <=> j \in TrialRows BY <1>4 DEF TrialRows, Rows, Kept
<1>11. i \in TrialRows' <=> new.source = "trial" BY <1>5, <1>9 DEF TrialRows, Rows
<1>12. TrialRows \subseteq Ids /\ TrialRows' \subseteq Ids BY DEF TrialRows, Rows
<1>13. TrialRows' = IF new.source = "trial" THEN TrialRows \cup {i} ELSE TrialRows
  BY <1>9, <1>10, <1>11, <1>12
<1> QED BY <1>7, <1>8, <1>9, <1>13

-----------------------------------------------------------------------------
(* Steps.                                                                  *)

\* The clock and the bounds, and how far each request is.
DeskOK ==
  /\ now \in 0..MaxTime /\ raced \in BOOLEAN /\ changes \in 0..MaxChanges
  /\ trial \in [Admins -> {"idle", "looked", "free"}]

LEMMA PeriodTypeParts == PeriodsTypeOK <=> DeskOK /\ period \in [Ids -> PeriodRow]
BY DEF PeriodsTypeOK, DeskOK, PeriodRow

LEMMA PartsHold ==
  ASSUME DeskOK', period' \in [Ids -> PeriodRow], Settled', Trials'
  PROVE  PeriodsInv'
BY DEF PeriodsInv, PeriodsTypeOK, DeskOK, PeriodRow

\* The rows keep their sources and nobody looks for a trial.
LEMMA RowsChange ==
  ASSUME PeriodsInv, period' \in [Ids -> PeriodRow], \A i \in Ids : Kept(period'[i], period[i]),
         changes' \in 0..MaxChanges, now' = now, trial' = trial, raced' = raced
  PROVE  PeriodsInv'
<1>1. DeskOK' BY PeriodTypeParts DEF PeriodsInv, DeskOK
<1>2. Settled' /\ TrialRows' = TrialRows BY RowsKept
<1>3. Trials' BY <1>2 DEF PeriodsInv, Trials, OneLooks, SawNone, AtMostOne
<1> QED BY <1>1, <1>2, <1>3, PartsHold

\* The rows stay and one request moves on.
LEMMA RequestMoves ==
  ASSUME PeriodsInv, NEW a \in Admins, NEW step \in {"idle", "looked", "free"},
         trial' = [trial EXCEPT ![a] = step], UNCHANGED <<now, period, changes>>,
         raced' \in BOOLEAN, raced => raced',
         raced' \/ step = "idle" \/ \A b \in Admins \ {a} : trial[b] = "idle",
         step = "free" => TrialRows = {}
  PROVE  PeriodsInv'
<1>1. DeskOK' BY PeriodTypeParts DEF PeriodsInv, DeskOK
<1>2. Settled' BY DEF PeriodsInv, Settled
<1>3. TrialRows' = TrialRows BY DEF TrialRows, Rows
<1>4. /\ trial'[a] = step
      /\ \A b \in Admins \ {a} : trial'[b] = trial[b]
  BY PeriodTypeParts DEF PeriodsInv, DeskOK
<1>5. ASSUME raced' PROVE Trials' BY <1>5 DEF Trials
<1>6. ASSUME ~raced' PROVE Trials'
  <2>1. OneLooks /\ SawNone /\ AtMostOne BY <1>6 DEF PeriodsInv, Trials
  <2>2. OneLooks' BY <1>4, <1>6, <2>1 DEF OneLooks
  <2>3. SawNone' BY <1>3, <1>4, <2>1 DEF SawNone
  <2>4. AtMostOne' BY <1>3, <2>1 DEF AtMostOne
  <2> QED BY <2>2, <2>3, <2>4 DEF Trials
<1>7. Trials' BY <1>5, <1>6
<1>8. period' \in [Ids -> PeriodRow] BY PeriodTypeParts DEF PeriodsInv
<1> QED BY <1>1, <1>2, <1>7, <1>8, PartsHold

LEMMA TrialStarts ==
  ASSUME PeriodsInv, NEW a \in Admins, StartTrial(a)
  PROVE  PeriodsInv'
<1>1. /\ trial[a] = "free" /\ trial' = [trial EXCEPT ![a] = "idle"]
      /\ now' = now /\ changes' = changes /\ raced' = raced
  BY DEF StartTrial
<1>2. now \in Nat BY PeriodHas
<1>3. PICK new : new = [status |-> "trial", starts |-> now, ends |-> now + TrialDays,
                        grace |-> IF GraceDays > 0 THEN now + TrialDays + GraceDays ELSE Never,
                        source |-> "trial"]
  OBVIOUS
<1>4. new \in PeriodRow /\ new.status = "trial" /\ new.source = "trial"
  BY <1>2, <1>3, SubscriptionsAssumption DEF PeriodRow, PeriodStatuses, Active
<1>5. GrantSubscription(new, TRUE) BY <1>3 DEF StartTrial
<1>6. /\ period' \in [Ids -> PeriodRow] /\ Settled'
      /\ \E i \in Ids : TrialRows' = IF new.source = "trial" THEN TrialRows \cup {i} ELSE TrialRows
  BY <1>1, <1>4, <1>5, GrantAdds
<1>7. DeskOK' BY <1>1, PeriodTypeParts DEF PeriodsInv, DeskOK
<1>8. /\ trial'[a] = "idle"
      /\ \A b \in Admins \ {a} : trial'[b] = trial[b]
  BY <1>1, PeriodTypeParts DEF PeriodsInv, DeskOK
<1>9. ASSUME ~raced PROVE OneLooks' /\ SawNone' /\ AtMostOne'
  <2>1. OneLooks /\ SawNone BY <1>9 DEF PeriodsInv, Trials
  <2>2. \A b \in Admins : trial'[b] = "idle" BY <1>1, <1>8, <2>1 DEF OneLooks
  <2>3. TrialRows = {} BY <1>1, <2>1 DEF SawNone
  <2>4. \E i \in Ids : TrialRows' = {i} BY <1>4, <1>6, <2>3
  <2> QED BY <2>2, <2>4 DEF OneLooks, SawNone, AtMostOne
<1>10. Trials' BY <1>1, <1>9 DEF Trials
<1> QED BY <1>6, <1>7, <1>10, PartsHold

LEMMA ApprovalKeeps ==
  ASSUME PeriodsInv, NEW a \in Admins, Approval(a)
  PROVE  PeriodsInv'
<1>1. DeskOK BY PeriodTypeParts DEF PeriodsInv
<1>2. CASE LookForCurrent(a)
  <2>1. PICK b \in BOOLEAN : b = (raced \/ \E c \in Admins : trial[c] # "idle") OBVIOUS
  <2>2. raced' = b BY <1>2, <2>1 DEF LookForCurrent
  <2>3. b \/ \A c \in Admins \ {a} : trial[c] = "idle" BY <2>1
  <2> QED BY <1>2, <2>1, <2>2, <2>3, RequestMoves DEF LookForCurrent
<1>3. CASE LookForTrial(a)
  <2>1. PICK step : step = IF HadTrial THEN "idle" ELSE "free" OBVIOUS
  <2>2. /\ trial[a] = "looked" /\ trial' = [trial EXCEPT ![a] = step] /\ raced' = raced
        /\ UNCHANGED <<now, period, changes>>
    BY <1>3, <2>1 DEF LookForTrial
  <2>3. step \in {"idle", "looked", "free"} BY <2>1
  <2>4. step = "free" => TrialRows = {} BY <2>1 DEF HadTrial, TrialRows
  <2>5. raced \/ \A c \in Admins \ {a} : trial[c] = "idle" BY <2>2 DEF PeriodsInv, Trials, OneLooks
  <2>6. raced' \in BOOLEAN /\ (raced => raced') BY <1>1, <2>2 DEF DeskOK
  <2> QED BY <2>2, <2>3, <2>4, <2>5, <2>6, RequestMoves
<1>4. CASE StartTrial(a) BY <1>4, TrialStarts
<1>5. CASE GiveUp(a) BY <1>1, <1>5, RequestMoves DEF GiveUp, DeskOK
<1> QED BY <1>2, <1>3, <1>4, <1>5 DEF Approval

LEMMA GrantKeeps ==
  ASSUME PeriodsInv, Grant
  PROVE  PeriodsInv'
<1>1. /\ now \in Nat /\ now' = now /\ trial' = trial /\ changes' = changes /\ raced' = raced
  BY PeriodHas DEF Grant
<1>2. PICK begin \in {now, now + 1}, days \in Lengths \cup {0}, grace \in {0, GraceDays},
           status \in {"active", "pending"}, replace \in BOOLEAN :
        LET finish == IF days = 0 THEN Never ELSE begin + days IN
        GrantSubscription([status |-> status, starts |-> begin, ends |-> finish,
                           grace |-> IF Finite(finish) /\ grace > 0 THEN finish + grace ELSE Never,
                           source |-> "admin"], replace)
  BY DEF Grant
<1>3. PICK finish : finish = IF days = 0 THEN Never ELSE begin + days OBVIOUS
<1>4. PICK g : g = IF Finite(finish) /\ grace > 0 THEN finish + grace ELSE Never OBVIOUS
<1>5. begin \in Nat /\ finish \in Nat \cup {Never} BY <1>1, <1>3, SubscriptionsAssumption
<1>6. g \in Nat \cup {Never} BY <1>4, <1>5, SubscriptionsAssumption DEF Finite
<1>7. PICK new : new = [status |-> status, starts |-> begin, ends |-> finish, grace |-> g,
                        source |-> "admin"]
  OBVIOUS
<1>8. new \in PeriodRow /\ new.status = status /\ new.source = "admin"
  BY <1>5, <1>6, <1>7 DEF PeriodRow, PeriodStatuses, Active
<1>9. GrantSubscription(new, replace) BY <1>2, <1>3, <1>4, <1>7
<1>10. period' \in [Ids -> PeriodRow] /\ Settled' /\ TrialRows' = TrialRows
  BY <1>1, <1>8, <1>9, GrantAdds
<1>11. DeskOK' BY <1>1, PeriodTypeParts DEF PeriodsInv, DeskOK
<1>12. Trials' BY <1>1, <1>10 DEF PeriodsInv, Trials, OneLooks, SawNone, AtMostOne
<1> QED BY <1>10, <1>11, <1>12, PartsHold

LEMMA ExtendKeeps ==
  ASSUME PeriodsInv, NEW i \in Ids, Extend(i)
  PROVE  PeriodsInv'
<1>1. /\ now \in Nat /\ period \in [Ids -> PeriodRow]
      /\ \A j \in Ids : period[j] \in PeriodRow /\ Past(period[j], now) /\ Kept(period[j], period[j])
  BY PeriodHas
<1>2. /\ period[i].status # "none" /\ changes > 0 /\ changes' = changes - 1
      /\ now' = now /\ trial' = trial /\ raced' = raced
  BY DEF Extend, Rows
<1>3. \E end \in Nat : period' = [period EXCEPT ![i] = Extended(period[i], end)]
  <2>1. PICK days \in Lengths, end \in {now + 1, now + 2} :
          \/ period' = [period EXCEPT ![i] = Extended(@, end)]
          \/ period' = [period EXCEPT ![i] = Extended(@, (IF Finite(@.ends) THEN @.ends ELSE now) + days)]
    BY DEF Extend
  <2>2. CASE period' = [period EXCEPT ![i] = Extended(@, end)]
    <3>1. end \in Nat BY <1>1
    <3>2. period' = [period EXCEPT ![i] = Extended(period[i], end)] BY <2>2
    <3> QED BY <3>1, <3>2
  <2>3. CASE period' = [period EXCEPT ![i] = Extended(@, (IF Finite(@.ends) THEN @.ends ELSE now) + days)]
    <3>1. PICK e : e = (IF Finite(period[i].ends) THEN period[i].ends ELSE now) + days OBVIOUS
    <3>2. e \in Nat BY <1>1, <3>1, SubscriptionsAssumption DEF PeriodRow, Finite
    <3> QED BY <1>1, <2>3, <3>1, <3>2
  <2> QED BY <2>1, <2>2, <2>3
<1>4. PICK end \in Nat : period' = [period EXCEPT ![i] = Extended(period[i], end)] BY <1>3
<1>5. Kept(Extended(period[i], end), period[i]) BY <1>1, <1>2, ExtendedRow
<1>6. \A j \in Ids : Kept(period'[j], period[j]) BY <1>1, <1>4, <1>5
<1>7. period' \in [Ids -> PeriodRow] BY <1>1, <1>4, <1>5 DEF Kept
<1>8. changes' \in 0..MaxChanges
  BY <1>2, PeriodTypeParts, SubscriptionsAssumption DEF PeriodsInv, DeskOK
<1> QED BY <1>2, <1>6, <1>7, <1>8, RowsChange

LEMMA CancelKeeps ==
  ASSUME PeriodsInv, NEW i \in Ids, Cancel(i)
  PROVE  PeriodsInv'
<1>1. /\ now \in Nat /\ period \in [Ids -> PeriodRow]
      /\ \A j \in Ids : period[j] \in PeriodRow /\ Past(period[j], now) /\ Kept(period[j], period[j])
  BY PeriodHas
<1>2. /\ period[i].status # "none" /\ changes > 0 /\ changes' = changes - 1
      /\ now' = now /\ trial' = trial /\ raced' = raced
      /\ period' = [period EXCEPT ![i] = Cancelled(period[i])]
  BY <1>1 DEF Cancel, Rows
<1>3. Kept(Cancelled(period[i]), period[i]) BY <1>1, <1>2, CancelledRow
<1>4. \A j \in Ids : Kept(period'[j], period[j]) BY <1>1, <1>2, <1>3
<1>5. period' \in [Ids -> PeriodRow] BY <1>1, <1>2, <1>3 DEF Kept
<1>6. changes' \in 0..MaxChanges
  BY <1>2, PeriodTypeParts, SubscriptionsAssumption DEF PeriodsInv, DeskOK
<1> QED BY <1>2, <1>4, <1>5, <1>6, RowsChange

LEMMA ExpiryKeeps ==
  ASSUME PeriodsInv, ExpireDue
  PROVE  PeriodsInv'
<1>1. /\ now \in Nat /\ period \in [Ids -> PeriodRow]
      /\ \A j \in Ids : period[j] \in PeriodRow /\ Past(period[j], now) /\ Kept(period[j], period[j])
  BY PeriodHas
<1>2. /\ now' = now /\ trial' = trial /\ raced' = raced /\ changes' = changes
      /\ period' = [i \in Ids |-> IF i \in Rows /\ Due(period[i])
                               THEN [period[i] EXCEPT !.status = "expired"] ELSE period[i]]
  BY DEF ExpireDue
<1>3. ASSUME NEW i \in Ids PROVE Kept(period'[i], period[i])
  <2>1. CASE i \in Rows /\ Due(period[i]) BY <1>1, <1>2, <2>1, ExpiredRow
  <2>2. CASE ~(i \in Rows /\ Due(period[i])) BY <1>1, <1>2, <2>2
  <2> QED BY <2>1, <2>2
<1>4. period' \in [Ids -> PeriodRow] BY <1>2, <1>3 DEF Kept
<1>5. changes' \in 0..MaxChanges BY <1>2, PeriodTypeParts DEF PeriodsInv, DeskOK
<1> QED BY <1>2, <1>3, <1>4, <1>5, RowsChange

LEMMA TickKeeps ==
  ASSUME PeriodsInv, Tick
  PROVE  PeriodsInv'
<1>1. /\ now < MaxTime /\ now' = now + 1 /\ trial' = trial /\ raced' = raced
      /\ changes' = changes /\ period' = period
  BY DEF Tick
<1>2. DeskOK' BY <1>1, PeriodTypeParts, SubscriptionsAssumption DEF PeriodsInv, DeskOK
<1>3. ASSUME NEW i \in Ids PROVE Past(period[i], now')
  <2>1. period[i] \in PeriodRow /\ Past(period[i], now) /\ now \in Nat BY PeriodHas
  <2>2. Finite(period[i].ends) => Deadline(period[i]) \in Nat BY <2>1 DEF PeriodRow, Deadline, Finite
  <2> QED BY <1>1, <2>1, <2>2 DEF Past
<1>4. Settled' BY <1>1, <1>3 DEF Settled
<1>5. TrialRows' = TrialRows BY <1>1 DEF TrialRows, Rows
<1>6. Trials' BY <1>1, <1>5 DEF PeriodsInv, Trials, OneLooks, SawNone, AtMostOne
<1>7. period' \in [Ids -> PeriodRow] BY <1>1, PeriodHas
<1> QED BY <1>2, <1>4, <1>6, <1>7, PartsHold

-----------------------------------------------------------------------------
(* The specification.                                                      *)

LEMMA PeriodStepKeeps == ASSUME PeriodsInv, [PeriodsNext]_periodVars PROVE PeriodsInv'
<1>1. CASE UNCHANGED periodVars
  <2>1. /\ now' = now /\ period' = period /\ trial' = trial /\ changes' = changes /\ raced' = raced
    BY <1>1 DEF periodVars
  <2>2. changes \in 0..MaxChanges BY PeriodTypeParts DEF PeriodsInv, DeskOK
  <2> QED BY <2>1, <2>2, PeriodHas, RowsChange
<1>2. CASE Tick BY <1>2, TickKeeps
<1>3. CASE Grant BY <1>3, GrantKeeps
<1>4. CASE ExpireDue BY <1>4, ExpiryKeeps
<1>5. CASE \E a \in Admins : Approval(a) BY <1>5, ApprovalKeeps
<1>6. CASE \E i \in Ids : Extend(i) \/ Cancel(i) BY <1>6, ExtendKeeps, CancelKeeps
<1> QED BY <1>1, <1>2, <1>3, <1>4, <1>5, <1>6 DEF PeriodsNext

LEMMA PeriodsInitHolds == ASSUME PeriodsInit PROVE PeriodsInv
<1>1. \A i \in Ids : period[i].status = "none" BY DEF PeriodsInit, NoPeriod
<1>2. NoPeriod \in PeriodRow BY DEF NoPeriod, PeriodRow
<1>3. period \in [Ids -> PeriodRow] BY <1>2 DEF PeriodsInit
<1>4. DeskOK
  <2>1. now \in 0..MaxTime /\ changes \in 0..MaxChanges BY SubscriptionsAssumption DEF PeriodsInit
  <2>2. raced \in BOOLEAN BY DEF PeriodsInit
  <2>3. trial \in [Admins -> {"idle", "looked", "free"}] BY DEF PeriodsInit
  <2> QED BY <2>1, <2>2, <2>3 DEF DeskOK
<1>5. Settled BY <1>1 DEF Settled, Past
<1>6. TrialRows = {} BY <1>1 DEF TrialRows, Rows
<1>7. OneLooks BY DEF PeriodsInit, OneLooks
<1> QED BY <1>3, <1>4, <1>5, <1>6, <1>7, PeriodTypeParts DEF PeriodsInv, Trials, SawNone, AtMostOne

LEMMA PeriodsInvariance == PeriodsSpec => []PeriodsInv
<1>1. PeriodsInit => PeriodsInv BY PeriodsInitHolds
<1>2. PeriodsInv /\ [PeriodsNext]_periodVars => PeriodsInv' BY PeriodStepKeeps
<1> QED BY <1>1, <1>2, PTL DEF PeriodsSpec

\* Rows, requests and clock keep their shape.
THEOREM PeriodsTypeCorrect == PeriodsSpec => []PeriodsTypeOK
BY PeriodsInvariance, PTL DEF PeriodsInv

\* Time that was granted is served to its end, and to the end of its grace,
\* whatever is granted, extended, cancelled or expired around it
\* (subscriber_repository.py expire_due, current_subscription).
THEOREM GrantedIsServed == PeriodsSpec => []GrantedTimeIsServed
<1>1. ASSUME PeriodsInv PROVE GrantedTimeIsServed
  <2> SUFFICES ASSUME NEW i \in Rows, period[i].status \notin {"cancelled", "pending"},
                      \/ InPeriod(period[i], now)
                      \/ (period[i].starts <= now /\ Finite(period[i].grace) /\ now <= period[i].grace),
                      Finite(period[i].grace) => period[i].ends <= period[i].grace
               PROVE  Current(period[i])
    BY DEF GrantedTimeIsServed
  <2>1. period[i] \in PeriodRow /\ Past(period[i], now) /\ now \in Nat BY <1>1, PeriodHas DEF Rows
  <2>2. period[i].starts <= now BY DEF InPeriod
  <2>3. Finite(period[i].ends) => Deadline(period[i]) >= now
    BY <2>1 DEF InPeriod, Deadline, Finite, PeriodRow
  <2>4. period[i].status # "expired"
    <3> SUFFICES ASSUME period[i].status = "expired" PROVE FALSE OBVIOUS
    <3>1. Finite(period[i].ends) /\ Deadline(period[i]) < now BY <2>1 DEF Past
    <3>2. Deadline(period[i]) \in Nat BY <2>1, <3>1 DEF Deadline, Finite, PeriodRow
    <3> QED BY <2>1, <2>3, <3>1, <3>2
  <2>5. period[i].status \in Active BY <2>1, <2>4 DEF Rows, PeriodRow, PeriodStatuses
  <2> QED BY <2>2, <2>3, <2>5 DEF Current
<1>2. PeriodsInv => GrantedTimeIsServed BY <1>1
<1> QED BY <1>2, PeriodsInvariance, PTL

\* A subscriber gets one trial, unless two approvals looked for it at the same
\* time: the look and the grant are transactions of their own
\* (subscriber_repository.py start_trial).
THEOREM TrialsAreRare == PeriodsSpec => []OneTrial
<1>1. ASSUME PeriodsInv, ~raced PROVE Cardinality(TrialRows) <= 1
  <2>1. AtMostOne BY <1>1 DEF PeriodsInv, Trials
  <2>2. CASE TrialRows = {} BY <2>2, FS_EmptySet
  <2>3. CASE TrialRows # {}
    <3>1. \E i : TrialRows = {i} BY <2>1, <2>3 DEF AtMostOne
    <3> QED BY <3>1, FS_Singleton
  <2> QED BY <2>2, <2>3
<1>2. PeriodsInv => OneTrial BY <1>1 DEF OneTrial, TrialRows
<1> QED BY <1>2, PeriodsInvariance, PTL

-----------------------------------------------------------------------------
(* Subscriptions: active periods never overlap.                            *)

\* What the exclusion constraint demands of the rows.  The docstring of
\* SubscriptionModel (db/models.py) explains the constraint: kept in the code only,
\* it would be an invariant nobody checks.  Of the operations, only Extend is
\* modelled with it.
PeriodsApart ==
  \A i, j \in Rows :
    i # j /\ period[i].status \in Active /\ period[j].status \in Active =>
      ~Overlap(period[i], period[j])

\* Rows that are merely closed do not come to overlap.
LEMMA ClosingKeepsApart ==
  ASSUME PeriodsApart,
         \A i \in Ids : period'[i].status \in Active =>
           /\ period[i].status \in Active
           /\ period'[i].starts = period[i].starts /\ period'[i].ends = period[i].ends
  PROVE  PeriodsApart'
BY DEF PeriodsApart, Rows, Overlap, Active

\* A grant closes every active row that would run into the new one: those left end
\* before it begins, or where it begins.
LEMMA GrantKeepsApart ==
  ASSUME PeriodsInv, PeriodsApart, NEW new \in PeriodRow, NEW replace \in BOOLEAN,
         GrantSubscription(new, replace)
  PROVE  PeriodsApart'
<1> PICK hit : hit = Overlapping(new.starts) OBVIOUS
<1>1. PICK i \in Ids \ Rows :
        period' = [j \in Ids |-> IF j = i THEN new
                                 ELSE IF j \in hit THEN Replaced(period[j], new.starts)
                                 ELSE period[j]]
  BY DEF GrantSubscription
<1>2. period \in [Ids -> PeriodRow] /\ new.starts \in Nat BY PeriodHas DEF PeriodRow
<1>3. period'[i] = new BY <1>1
<1>4. ASSUME NEW j \in Ids \ {i}, period'[j].status \in Active
      PROVE  period'[j] = period[j] /\ j \in Rows \ hit
  <2>1. j \notin hit
    <3> SUFFICES ASSUME j \in hit PROVE FALSE OBVIOUS
    <3>1. period'[j] = Replaced(period[j], new.starts) BY <1>1
    <3>2. Replaced(period[j], new.starts).status = "cancelled"
      BY <1>2 DEF Replaced, PeriodRow
    <3> QED BY <1>4, <3>1, <3>2 DEF Active
  <2>2. period'[j] = period[j] BY <1>1, <2>1
  <2> QED BY <1>4, <2>1, <2>2 DEF Rows, Active
<1>5. ASSUME NEW j \in Ids \ {i}, period'[j].status \in Active
      PROVE  ~Overlap(new, period'[j]) /\ ~Overlap(period'[j], new)
  <2>1. j \in Rows \ hit /\ period'[j] = period[j] /\ period[j].status \in Active
    BY <1>4, <1>5
  <2>2. Finite(period[j].ends) /\ ~(period[j].ends > new.starts) BY <2>1 DEF Overlapping
  <2>3. period[j].ends \in Int BY <1>2, <2>1 DEF PeriodRow, Never
  <2> QED BY <1>2, <2>1, <2>2, <2>3 DEF Overlap
<1> SUFFICES ASSUME NEW j \in Rows', NEW l \in Rows', j # l,
                    period'[j].status \in Active, period'[l].status \in Active
             PROVE  ~Overlap(period'[j], period'[l])
  BY DEF PeriodsApart, Overlap
<1>6. j \in Ids /\ l \in Ids BY DEF Rows
<1>7. CASE j = i BY <1>3, <1>5, <1>6, <1>7
<1>8. CASE l = i BY <1>3, <1>5, <1>6, <1>8
<1>9. CASE j # i /\ l # i BY <1>4, <1>6, <1>9 DEF PeriodsApart
<1> QED BY <1>7, <1>8, <1>9

LEMMA ApartStepKeeps == ASSUME PeriodsInv, PeriodsApart, [PeriodsNext]_periodVars PROVE PeriodsApart'
<1>1. now \in Nat /\ period \in [Ids -> PeriodRow] BY PeriodHas
<1>2. CASE period' = period BY <1>2, ClosingKeepsApart
<1>3. CASE Grant
  <2>1. PICK begin \in {now, now + 1}, days \in Lengths \cup {0}, grace \in {0, GraceDays},
             status \in {"active", "pending"}, replace \in BOOLEAN :
          LET finish == IF days = 0 THEN Never ELSE begin + days IN
          GrantSubscription([status |-> status, starts |-> begin, ends |-> finish,
                             grace |-> IF Finite(finish) /\ grace > 0 THEN finish + grace ELSE Never,
                             source |-> "admin"], replace)
    BY <1>3 DEF Grant
  <2>2. PICK finish : finish = IF days = 0 THEN Never ELSE begin + days OBVIOUS
  <2>3. PICK g : g = IF Finite(finish) /\ grace > 0 THEN finish + grace ELSE Never OBVIOUS
  <2>4. begin \in Nat /\ finish \in Nat \cup {Never} BY <1>1, <2>2, SubscriptionsAssumption
  <2>5. g \in Nat \cup {Never} BY <2>3, <2>4, SubscriptionsAssumption DEF Finite
  <2>6. PICK new : new = [status |-> status, starts |-> begin, ends |-> finish, grace |-> g,
                          source |-> "admin"]
    OBVIOUS
  <2>7. new \in PeriodRow BY <2>4, <2>5, <2>6 DEF PeriodRow, PeriodStatuses, Active
  <2>8. GrantSubscription(new, replace) BY <2>1, <2>2, <2>3, <2>6
  <2> QED BY <2>7, <2>8, GrantKeepsApart
<1>4. ASSUME NEW a \in Admins, StartTrial(a) PROVE PeriodsApart'
  <2>1. PICK g : g = IF GraceDays > 0 THEN now + TrialDays + GraceDays ELSE Never OBVIOUS
  <2>2. g \in Nat \cup {Never} /\ now + TrialDays \in Nat
    BY <1>1, <2>1, SubscriptionsAssumption
  <2>3. PICK new : new = [status |-> "trial", starts |-> now, ends |-> now + TrialDays,
                          grace |-> g, source |-> "trial"]
    OBVIOUS
  <2>4. new \in PeriodRow BY <1>1, <2>2, <2>3 DEF PeriodRow, PeriodStatuses, Active
  <2>5. GrantSubscription(new, TRUE) BY <1>4, <2>1, <2>3 DEF StartTrial
  <2> QED BY <2>4, <2>5, GrantKeepsApart
<1>5. ASSUME NEW i \in Ids, Extend(i) PROVE PeriodsApart'
  <2>1. i \in Rows /\ Fits(i, period'[i]) BY <1>5 DEF Extend
  <2>2. \A j \in Ids \ {i} : period'[j] = period[j] BY <1>1, <1>5 DEF Extend
  <2> QED BY <2>1, <2>2 DEF PeriodsApart, Fits, Rows, Overlap
<1>6. ASSUME NEW i \in Ids, Cancel(i) PROVE PeriodsApart'
  <2>1. period' = [period EXCEPT ![i] = Cancelled(period[i])] BY <1>1, <1>6 DEF Cancel
  <2>2. Cancelled(period[i]).status = "cancelled" BY <1>1 DEF Cancelled, PeriodRow
  <2> QED BY <1>1, <2>1, <2>2, ClosingKeepsApart DEF Active
<1>7. CASE ExpireDue
  <2>1. period' = [i \in Ids |-> IF i \in Rows /\ Due(period[i])
                                 THEN [period[i] EXCEPT !.status = "expired"] ELSE period[i]]
    BY <1>7 DEF ExpireDue
  <2>2. \A i \in Ids : [period[i] EXCEPT !.status = "expired"].status = "expired"
    BY <1>1 DEF PeriodRow
  <2>3. ASSUME NEW i \in Ids, period'[i].status \in Active PROVE period'[i] = period[i]
    BY <2>1, <2>2, <2>3 DEF Active
  <2> QED BY <2>3, ClosingKeepsApart
<1> QED
  BY <1>2, <1>3, <1>4, <1>5, <1>6, <1>7
     DEF PeriodsNext, periodVars, Tick, Approval, LookForCurrent, LookForTrial, GiveUp

\* The active periods of a subscriber never overlap, although neither grant nor trial
\* is modelled with the exclusion constraint: what grant_subscription closes before it
\* inserts is all the constraint could refuse, so a grant by itself never fails on it
\* (db/subscriber_repository.py grant_subscription, extend_subscription, expire_due).
THEOREM PeriodsNeverOverlap == PeriodsSpec => []PeriodsApart
<1>1. PeriodsInit => PeriodsApart BY DEF PeriodsInit, PeriodsApart, Rows, NoPeriod
<1>2. PeriodsInv /\ PeriodsApart /\ [PeriodsNext]_periodVars => PeriodsApart'
  BY ApartStepKeeps
<1> QED BY <1>1, <1>2, PeriodsInvariance, PTL DEF PeriodsSpec

=============================================================================
