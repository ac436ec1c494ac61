---------------------------- MODULE Subscribers -----------------------------
(***************************************************************************)
(* Subscribers: who may be written to (db/subscriber_repository.py).  The  *)
(* rows of subscribers, chat_memberships and the digest flag of the        *)
(* profiles are written by four actors that share no lock: the bot, told   *)
(* by Telegram once of every change (telegram/chats.py) and asked by       *)
(* commands (telegram/middleware.py, telegram/bot.py); the monitor, which  *)
(* asks Telegram about every chat (workflows/chats.py); and administrators *)
(* (api/admin/routers/subscribers.py, chats.py).                           *)
(***************************************************************************)
EXTENDS Integers, FiniteSets

CONSTANTS
  Chats, People,  \* groups and channels; private chats
  Channels,       \* the channels among the chats
  MonitorLimit,   \* chats one round of the monitor gets to: `limit`
  Managed,        \* bound on whom administrators decide about
  MaxTurns,       \* bound on changes of the bot's rights in Telegram
  MaxMishaps,     \* bound on commands to the bot, lost updates, failing calls
                  \* and dying requests, together
  MaxAdmin        \* bound on acts of administrators

ASSUME SubscribersAssumption ==
  /\ Chats \cap People = {} /\ Channels \subseteq Chats
  /\ Managed \subseteq Chats \cup People /\ MonitorLimit \in Nat \ {0}
  /\ MaxTurns \in Nat /\ MaxMishaps \in Nat /\ MaxAdmin \in Nat

Subs == Chats \cup People

VARIABLES
  truth,      \* Telegram: the rights of the bot in each chat
  sub,        \* subscribers, with the digest flag of the active profile
  bot,        \* chat_memberships
  older,      \* created_at of the chats: those there were when each was made
  updates,    \* my_chat_member updates on their way
  handling,   \* updates the bot has looked the chat up for
  round,      \* chats the monitor has still to check
  poll,       \* answers of Telegram not written yet, by who asked
  desk,       \* requests of administrators between two transactions
  asked,      \* commands the middleware has let through
  budget,     \* what is left of the bounds
  \* history
  verdict,    \* what an administrator last decided of the subscriber
  gone,       \* chats written as absent since the last decision
  excuse      \* why the digest flag is off

vars == <<truth, sub, bot, older, updates, handling, round, poll, desk, asked, budget,
          verdict, gone, excuse>>
flight == <<updates, handling, round, poll, desk, asked>>
history == <<verdict, gone, excuse>>

Statuses == {"pending", "active", "paused", "blocked", "left"}
Commands == {"start", "profile", "daily"}

\* What Telegram tells of the bot: its status in the chat, and whether it may post.
\* `present` stands for PRESENT_BOT_STATUSES, `absent` for ABSENT_BOT_STATUSES;
\* `restricted` is in neither.
Rights == [at : {"present", "restricted", "absent"}, post : BOOLEAN]

\* An expulsion learnt from an error, or a departure of our own: nothing is told
\* of the right to post.
Out == [at |-> "absent", post |-> FALSE]

\* can_post_messages is told of an administrator of a channel, and is taken for
\* granted in a group, whatever the status.
Away(c) == [at |-> "absent", post |-> c \notin Channels]
Possible(c) ==
  {Away(c)} \cup IF c \in Channels THEN [at : {"present"}, post : BOOLEAN]
                ELSE [at : {"present", "restricted"}, post : {TRUE}]

Unknown == [known |-> FALSE, at |-> "absent", post |-> FALSE]
None == [status |-> "none", approved |-> FALSE, digest |-> "none"]
Exists(s) == sub[s].status # "none"

-----------------------------------------------------------------------------
(* Slips: plausible mistakes, to see that the properties notice.           *)

SlipUnblocks(row) == IF row.digest = "none" THEN [row EXCEPT !.status = "left"]
                     ELSE [row EXCEPT !.status = "left", !.digest = "off"]
SlipStatusOnly(s) == [sub[s] EXCEPT !.status = "active", !.approved = TRUE]
SlipDeadLetters(s) == sub[s].status \notin {"none", "left"}

-----------------------------------------------------------------------------
(* Rows.                                                                   *)

Digest(row, flag) == IF row.digest = "none" THEN row ELSE [row EXCEPT !.digest = flag]

\* _status_after_return: a chat once approved does not queue again.
StatusAfterReturn(row) == IF row.approved THEN "active" ELSE "pending"

\* The bot is out: the chat leaves, but stays blocked if it was.
Departed(row) ==
  Digest(IF row.status = "blocked" THEN row ELSE [row EXCEPT !.status = "left"], "off")

Returned(row) ==
  IF row.status = "left" THEN [row EXCEPT !.status = StatusAfterReturn(row)] ELSE row

\* _upsert_membership (removed_at is set unless the bot is present): an absent bot
\* of whose right to post nothing is told keeps what is recorded.
Membership(s, seen) ==
  [known |-> TRUE, at |-> seen.at,
   post |-> IF seen.at = "absent" THEN seen.post \/ bot[s].post ELSE seen.post]

\* A row is made, or goes: created_at, by which list_chats sorts.
Arrive(s) == older' = [c \in Chats |-> IF c = s THEN {d \in Chats : Exists(d)} ELSE older[c]]
Vanish(s) == older' = [c \in Chats |-> IF c = s THEN {} ELSE older[c] \ {s}]

\* Why a digest flag is off is kept for chats: no digest goes to a person.
Excused(s, why) ==
  excuse' = IF s \in Chats THEN [excuse EXCEPT ![s] = @ \cup {why}] ELSE excuse
Unexcused(s) == excuse' = IF s \in Chats THEN [excuse EXCEPT ![s] = {}] ELSE excuse

\* update_bot_status, one transaction under a lock of the subscriber.  A restricted
\* bot is not absent: its chat comes back, though nothing is sent to it.
UpdateBotStatus(s, seen) ==
  /\ bot' = [bot EXCEPT ![s] = Membership(s, seen)]
  /\ sub' = [sub EXCEPT ![s] = IF seen.at = "absent" THEN Departed(sub[s])
                                ELSE Returned(sub[s])]
  /\ gone' = IF seen.at = "absent" THEN gone \cup {s} ELSE gone
  /\ IF seen.at = "absent" THEN Excused(s, "absent") ELSE UNCHANGED excuse
  /\ UNCHANGED verdict

Spend(what) == /\ budget[what] > 0
               /\ budget' = [budget EXCEPT ![what] = @ - 1]

Init ==
  /\ truth = [c \in Chats |-> Away(c)]
  /\ sub = [s \in Subs |-> None]
  /\ bot = [c \in Chats |-> Unknown] /\ older = [c \in Chats |-> {}]
  /\ updates = {} /\ handling = {} /\ round = {} /\ poll = {} /\ desk = {} /\ asked = {}
  /\ budget = [turns |-> MaxTurns, mishaps |-> MaxMishaps, admin |-> MaxAdmin]
  /\ verdict = [s \in Subs |-> "none"] /\ gone = {}
  /\ excuse = [c \in Chats |-> {}]

-----------------------------------------------------------------------------
(* Telegram and the bot.                                                   *)

\* The bot is added, removed, restricted, or its right to post changes: one update.
Turn(c) ==
  /\ Spend("turns")
  /\ \E r \in Possible(c) \ {truth[c]} :
       /\ truth' = [truth EXCEPT ![c] = r]
       /\ updates' = updates \cup {[chat |-> c, seen |-> r]}
  /\ UNCHANGED <<sub, bot, older, handling, round, poll, desk, asked, history>>

\* The service was down: an update is lost for good.
LoseUpdate ==
  /\ Spend("mishaps")
  /\ \E u \in updates : updates' = updates \ {u}
  /\ UNCHANGED <<truth, sub, bot, older, handling, round, poll, desk, asked, history>>

\* on_membership_changed looks the chat up.  Updates are handled concurrently.
\* Nothing is registered for a chat the bot is not present in.
LookUp(u) ==
  /\ u \in updates /\ updates' = updates \ {u}
  /\ handling' = IF Exists(u.chat) \/ u.seen.at = "present"
                 THEN handling \cup {[up |-> u, known |-> Exists(u.chat)]} ELSE handling
  /\ UNCHANGED <<truth, sub, bot, older, round, poll, desk, asked, budget, history>>

\* register_chat: a new chat is a request, not a subscriber; a chat another
\* transaction has just made comes back if it had left.
RegisterChat(h) ==
  LET c == h.up.chat IN
  /\ h \in handling /\ ~h.known /\ handling' = handling \ {h}
  /\ sub' = [sub EXCEPT ![c] = IF Exists(c) THEN Returned(@)
                               ELSE [None EXCEPT !.status = "pending"]]
  /\ IF Exists(c) THEN UNCHANGED older ELSE Arrive(c)
  /\ bot' = [bot EXCEPT ![c] = Membership(c, h.up.seen)]
  /\ UNCHANGED <<truth, updates, round, poll, desk, asked, budget, history>>

\* A chat the bot knows; deleted meanwhile, it is not found.
ChangeRights(h) ==
  /\ h \in handling /\ h.known /\ handling' = handling \ {h}
  /\ IF Exists(h.up.chat) THEN UpdateBotStatus(h.up.chat, h.up.seen)
     ELSE UNCHANGED <<sub, bot, history>>
  /\ UNCHANGED <<truth, older, updates, round, poll, desk, asked, budget>>

-----------------------------------------------------------------------------
(* Commands.                                                               *)

\* decide: the blocked get nothing; a private chat may only start until it is
\* approved and then minds its profile; a chat gets materials once approved.
Decide(s, status, cmd) ==
  /\ status \notin {"blocked", "left"}
  /\ IF s \in People
     THEN cmd = "start" \/ (status = "active" /\ cmd = "profile")
     ELSE status = "active" /\ cmd \in {"start", "daily"}

\* ModerationMiddleware reads the status and lets the command through or not;
\* when the read fails, it lets it through.
Moderate(s) ==
  /\ asked = {} /\ Spend("mishaps")
  /\ \E cmd \in Commands, answered \in BOOLEAN :
       /\ answered => Decide(s, sub[s].status, cmd)
       /\ asked' = {[who |-> s, cmd |-> cmd]}
  /\ UNCHANGED <<truth, sub, bot, older, updates, handling, round, poll, desk, history>>

\* The profile made when there is none yet: switched off.
EnsureProfile(s) ==
  /\ sub' = IF sub[s].digest # "none" THEN sub ELSE [sub EXCEPT ![s].digest = "off"]
  /\ IF sub[s].digest # "none" THEN UNCHANGED excuse ELSE Excused(s, "new")

\* A chat gets a profile with its first request for materials; /start only tells
\* it what the bot is.
AnswerChat(c, cmd) ==
  IF Exists(c) /\ cmd = "daily" THEN EnsureProfile(c) ELSE UNCHANGED <<sub, excuse>>

\* A person is registered as a request, with a profile; /profile may switch its
\* digest.
AnswerPerson(p, cmd) ==
  /\ \E flag \in {"off", "on"} :
       LET row == IF Exists(p) THEN sub[p] ELSE [None EXCEPT !.status = "pending"]
       IN /\ flag = "on" => row.digest = "on" \/ cmd = "profile"
          /\ flag = "off" => row.digest # "on" \/ cmd = "profile"
          /\ sub' = [sub EXCEPT ![p] = [row EXCEPT !.digest = flag]]
  /\ UNCHANGED excuse

Answer(a) ==
  /\ a \in asked /\ asked' = {}
  /\ \/ a.who \in Chats /\ AnswerChat(a.who, a.cmd)
     \/ a.who \in People /\ AnswerPerson(a.who, a.cmd)
  /\ UNCHANGED <<truth, bot, older, updates, handling, round, poll, desk, budget, verdict, gone>>

-----------------------------------------------------------------------------
(* The monitor.                                                            *)

\* list_chats: every chat there is, those that left too, newest first.
Listed(c) == Exists(c)
Newest(c) == Cardinality({d \in Chats : Exists(d) /\ c \in older[d]}) < MonitorLimit

MonitorStart ==
  /\ round = {} /\ \A p \in poll : p.by # "monitor"
  /\ round' = {c \in Chats : Listed(c) /\ Newest(c)} /\ round' # {}
  /\ UNCHANGED <<truth, sub, bot, older, updates, handling, poll, desk, asked, budget, history>>

\* Telegram answers (an absent bot may be answered by Forbidden, which counts as
\* kicked), any other error passes the chat over, or the flow dies.
MonitorAsk(c) ==
  /\ c \in round /\ \A p \in poll : p.by # "monitor"
  /\ \/ /\ \E seen \in {truth[c]} \cup (IF truth[c].at = "absent" THEN {Out} ELSE {}) :
             poll' = poll \cup {[by |-> "monitor", chat |-> c, seen |-> seen]}
        /\ round' = round \ {c} /\ UNCHANGED budget
     \/ Spend("mishaps") /\ round' \in {round \ {c}, {}} /\ UNCHANGED poll
  /\ UNCHANGED <<truth, sub, bot, older, updates, handling, desk, asked, history>>

\* What Telegram has answered is written, to a row that may have changed since.
\* The monitor minds a missing row only where it writes what an error has told.
WriteAnswer(p) ==
  /\ p \in poll /\ poll' = poll \ {p}
  /\ IF Exists(p.chat) THEN UpdateBotStatus(p.chat, p.seen) /\ UNCHANGED round
     ELSE /\ round' \in {round} \cup (IF p.by = "monitor" /\ p.seen = Out THEN {{}} ELSE {})
          /\ UNCHANGED <<sub, bot, history>>
  /\ UNCHANGED <<truth, older, updates, handling, desk, asked, budget>>

-----------------------------------------------------------------------------
(* Administrators.                                                         *)

Decided(s, v) ==
  /\ verdict' = [verdict EXCEPT ![s] = v]
  /\ gone' = gone \ {s}

\* create_subscriber: straight to active, with neither membership nor mark.
Create(s) ==
  /\ Spend("admin") /\ ~Exists(s)
  /\ sub' = [sub EXCEPT ![s] = [None EXCEPT !.status = "active"]]
  /\ IF s \in Chats THEN Arrive(s) ELSE UNCHANGED older
  /\ Decided(s, "admitted")
  /\ UNCHANGED <<truth, bot, flight, excuse>>

\* approve: the mark, the status and, for a chat, the digest of the profiles
\* there are.
Approved(s) ==
  LET row == [sub[s] EXCEPT !.status = "active", !.approved = TRUE]
  IN IF s \in Chats THEN Digest(row, "on") ELSE row

Approve(s) ==
  /\ Spend("admin") /\ Exists(s)
  /\ sub' = [sub EXCEPT ![s] = Approved(s)]
  /\ desk' = desk \cup {[who |-> s, op |-> "approve"]}
  /\ Decided(s, "admitted")
  /\ Unexcused(s)
  /\ UNCHANGED <<truth, bot, older, updates, handling, round, poll, asked>>

\* The rest of the approval: a profile, if there is none.  A failure is only
\* reported.
ApproveProfile(d) ==
  /\ d \in desk /\ d.op = "approve" /\ desk' = desk \ {d}
  /\ IF Exists(d.who) THEN EnsureProfile(d.who) ELSE UNCHANGED <<sub, excuse>>
  /\ UNCHANGED <<truth, bot, older, updates, handling, round, poll, asked, budget, verdict, gone>>

\* set_status: blocked and silent.
Blocked(row) == Digest([row EXCEPT !.status = "blocked"], "off")

\* reject: no longer approved, too.
Rejected(row) == Blocked([row EXCEPT !.approved = FALSE])

Ban(s) ==
  /\ Spend("admin") /\ Exists(s)
  /\ Decided(s, "banned")
  /\ Excused(s, "admin")
  /\ UNCHANGED <<truth, bot, older, flight>>

Reject(s) == Ban(s) /\ sub' = [sub EXCEPT ![s] = Rejected(@)]
Block(s) == Ban(s) /\ sub' = [sub EXCEPT ![s] = Blocked(@)]

Verdict == [pending |-> "none", active |-> "admitted", paused |-> "paused",
            blocked |-> "banned", left |-> "none"]

\* patch_subscriber: any status, and a second transaction to silence the
\* profiles of a subscriber blocked or sent away.
Patch(s) ==
  /\ Spend("admin") /\ Exists(s)
  /\ \E status \in Statuses :
       /\ sub' = [sub EXCEPT ![s].status = status]
       /\ verdict' = [verdict EXCEPT ![s] = Verdict[status]]
       /\ gone' = IF status = "left" THEN gone \cup {s} ELSE gone \ {s}
       /\ desk' = IF status \in {"blocked", "left"}
                  THEN desk \cup {[who |-> s, op |-> "silence"]} ELSE desk
  /\ UNCHANGED <<truth, bot, older, updates, handling, round, poll, asked, excuse>>

Silence(d) ==
  /\ d \in desk /\ d.op = "silence" /\ desk' = desk \ {d}
  /\ sub' = [sub EXCEPT ![d.who] = Digest(@, "off")]
  /\ Excused(d.who, "admin")
  /\ UNCHANGED <<truth, bot, older, updates, handling, round, poll, asked, budget, verdict, gone>>

\* A request dies between its transactions.
Abandon(d) ==
  /\ Spend("mishaps") /\ d \in desk /\ desk' = desk \ {d}
  /\ UNCHANGED <<truth, sub, bot, older, updates, handling, round, poll, asked, history>>

\* The digest flag of the profile, set in the editor; a profile made there may
\* start either way.
SetDigest(s) ==
  /\ Spend("admin") /\ Exists(s)
  /\ \E flag \in {"on", "off"} :
       /\ sub' = [sub EXCEPT ![s].digest = flag]
       /\ IF flag = "on" THEN Unexcused(s) ELSE Excused(s, "admin")
  /\ UNCHANGED <<truth, bot, older, flight, verdict, gone>>

\* forget: the row goes, and all that hangs on it.
Forget(s) ==
  /\ Spend("admin") /\ Exists(s)
  /\ sub' = [sub EXCEPT ![s] = None]
  /\ IF s \in Chats THEN bot' = [bot EXCEPT ![s] = Unknown] /\ Vanish(s)
     ELSE UNCHANGED <<bot, older>>
  /\ Decided(s, "none") /\ Unexcused(s)
  /\ UNCHANGED <<truth, flight>>

\* refresh_chat asks Telegram as the monitor does, but takes any error for an
\* expulsion.
Refresh(c) ==
  /\ Exists(c) /\ \A p \in poll : p.by # "refresh"
  /\ \/ /\ Spend("admin")
        /\ poll' = poll \cup {[by |-> "refresh", chat |-> c, seen |-> truth[c]]}
     \/ /\ Spend("mishaps")
        /\ poll' = poll \cup {[by |-> "refresh", chat |-> c, seen |-> Out]}
  /\ UNCHANGED <<truth, sub, bot, older, updates, handling, round, desk, asked, history>>

\* leave_chat: the bot goes (a refusal of Telegram is only noted), then the row
\* says so.
Leave(c) ==
  /\ Spend("admin") /\ Exists(c)
  /\ desk' = desk \cup {[who |-> c, op |-> "leave"]}
  /\ \/ /\ truth[c].at # "absent" /\ truth' = [truth EXCEPT ![c] = Away(c)]
        /\ updates' = updates \cup {[chat |-> c, seen |-> Away(c)]}
     \/ UNCHANGED <<truth, updates>>
  /\ UNCHANGED <<sub, bot, older, handling, round, poll, asked, history>>

LeaveWrite(d) ==
  /\ d \in desk /\ d.op = "leave" /\ desk' = desk \ {d}
  /\ IF Exists(d.who) THEN UpdateBotStatus(d.who, Out)
     ELSE UNCHANGED <<sub, bot, history>>
  /\ UNCHANGED <<truth, older, updates, handling, round, poll, asked, budget>>

-----------------------------------------------------------------------------
Tell == \/ \E u \in updates : LookUp(u)
        \/ \E h \in handling : RegisterChat(h) \/ ChangeRights(h)
        \/ \E s \in Subs : Moderate(s)
        \/ \E a \in asked : Answer(a)
Monitor == \/ MonitorStart \/ \E c \in Chats : MonitorAsk(c)
           \/ \E p \in poll : p.by = "monitor" /\ WriteAnswer(p)
Act == \/ \E s \in Managed : \/ Create(s) \/ Approve(s) \/ Reject(s) \/ Block(s)
                             \/ Patch(s) \/ SetDigest(s) \/ Forget(s)
       \/ \E c \in Chats \cap Managed : Refresh(c) \/ Leave(c)
       \/ \E d \in desk : ApproveProfile(d) \/ Silence(d) \/ LeaveWrite(d) \/ Abandon(d)
       \/ \E p \in poll : p.by = "refresh" /\ WriteAnswer(p)

Next == \/ \E c \in Chats : Turn(c)
        \/ LoseUpdate \/ Tell \/ Monitor \/ Act

\* The schedule starts the monitor again and again; it gets through its round.
Spec == Init /\ [][Next]_vars /\ WF_vars(Monitor)

-----------------------------------------------------------------------------
Row == [status : Statuses \cup {"none"}, approved : BOOLEAN, digest : {"none", "off", "on"}]

TypeOK ==
  /\ truth \in [Chats -> Rights]
  /\ sub \in [Subs -> Row]
  /\ bot \in [Chats -> [known : BOOLEAN, at : {"present", "restricted", "absent"},
                         post : BOOLEAN]]
  /\ older \in [Chats -> SUBSET Chats]
  /\ updates \subseteq [chat : Chats, seen : Rights]
  /\ handling \subseteq [up : [chat : Chats, seen : Rights], known : BOOLEAN]
  /\ round \subseteq Chats
  /\ poll \subseteq [by : {"monitor", "refresh"}, chat : Chats, seen : Rights]
  /\ desk \subseteq [who : Subs, op : {"approve", "silence", "leave"}]
  /\ asked \subseteq [who : Subs, cmd : Commands]
  /\ budget \in [{"turns", "mishaps", "admin"} -> Nat]
  /\ verdict \in [Subs -> {"none", "admitted", "paused", "banned"}]
  /\ gone \subseteq Subs
  /\ excuse \in [Chats -> SUBSET {"absent", "new", "admin"}]

\* Whatever the bot, the monitor and Telegram do, what an administrator decided
\* stands: the banned stay blocked however often the bot is thrown out and
\* added again, the paused stay paused while the bot stays, and nobody is
\* active who was not let in, now or before the bot went and came back.
DecisionHolds ==
  \A s \in Subs :
    /\ verdict[s] = "banned" => sub[s].status = "blocked"
    /\ verdict[s] = "paused" => sub[s].status = "paused" \/ s \in gone
    /\ sub[s].status = "active" => verdict[s] = "admitted" \/ (sub[s].approved /\ s \in gone)

\* An approved and active chat whose digest is off is so for a reason: the bot was
\* absent, an administrator switched it off, or the profile came to be after
\* the approval.
SilenceHasCause ==
  \A c \in Chats :
    sub[c].status = "active" /\ sub[c].approved /\ sub[c].digest = "off" => excuse[c] # {}

\* Whatever updates are lost, late or out of order, the row of a chat that stays
\* among the newest `limit` ends up saying what Telegram says: a bot in the chat,
\* restricted or not, has its rights recorded and the chat is not `left`, an absent
\* one leaves a silent chat that is `left` or blocked.  Of older chats the monitor
\* says nothing: a lost update about them stays lost.
Agrees(c) ==
  /\ bot[c].at = truth[c].at
  /\ IF truth[c].at = "absent" THEN sub[c].status \in {"left", "blocked"} /\ sub[c].digest # "on"
     ELSE bot[c].post = truth[c].post /\ sub[c].status # "left"

RowsConverge == \A c \in Chats : <>[](Exists(c) /\ Newest(c)) => <>[]Agrees(c)

=============================================================================
