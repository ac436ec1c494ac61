--------------------------- MODULE DeliveryPromise ---------------------------
(***************************************************************************)
(* What the delivery queue promises the subscriber and the dispatcher, with *)
(* no workers, claims or retries in sight: a posted digest appears block by *)
(* block, is delivered once, only when it is all there, and is left alone   *)
(* from then on. Until then it may be given up and taken up again.          *)
(***************************************************************************)
CONSTANTS
  Jobs,
  Blocks,
  Rehearsed    \* jobs run dry: closed as delivered without showing anything

VARIABLES
  phase,       \* what became of the digest
  shown        \* its blocks visible in the chat

vars == <<phase, shown>>

Phases == {"unposted", "open", "given_up", "delivered"}

Init ==
  /\ phase = [j \in Jobs |-> "unposted"]
  /\ shown = [j \in Jobs |-> {}]

Goes(j, from, to) == phase[j] \in from /\ phase'[j] = to /\ shown'[j] = shown[j]

Post(j) == Goes(j, {"unposted"}, "open")
GiveUp(j) == Goes(j, {"open"}, "given_up")
Reopen(j) == Goes(j, {"given_up"}, "open")

\* A block may still be on its way when the job is given up, never after
\* delivery and never before posting.
Show(j) ==
  /\ phase[j] \in {"open", "given_up"}
  /\ phase'[j] = phase[j]
  /\ \E b \in Blocks : shown'[j] = shown[j] \cup {b}

Deliver(j) ==
  /\ Goes(j, {"open", "given_up"}, "delivered")
  /\ shown[j] = Blocks \/ j \in Rehearsed

Rest(j) == phase'[j] = phase[j] /\ shown'[j] = shown[j]

\* Maintenance moves many jobs in one statement.
Next ==
  \A j \in Jobs : Post(j) \/ GiveUp(j) \/ Reopen(j) \/ Show(j) \/ Deliver(j) \/ Rest(j)

Spec == Init /\ [][Next]_vars
=============================================================================
