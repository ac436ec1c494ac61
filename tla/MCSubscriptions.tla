-------------------------- MODULE MCSubscriptions ---------------------------
(* Subscriptions for TLC: two rows, two administrators.                  *)
EXTENDS Subscriptions

CONSTANTS a1, a2

MCAdmins == {a1, a2}
MCLengths == {1, 2}

=============================================================================
