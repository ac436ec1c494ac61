----------------------------- MODULE MCSchedules -----------------------------
(* Instances of Schedules for TLC. *)
EXTENDS Schedules, TLC

CONSTANTS k1, k2, a1, a2, daily, hourly, wide

MCKeys == {k1}
MCTwoKeys == {k1, k2}
MCActors == {a1, a2}
MCTimes == {daily, hourly}
MCParameters == {wide}

\* One flow whose catalogue names no parameters.
MCCatalogue == [k \in Keys |-> Nothing]

MCCrons == [k \in Keys |-> daily]

\* A new time, a switch, parameters set or cleared, a time together with parameters.
MCUpdates ==
  {[NoUpdate EXCEPT !.time = hourly], [NoUpdate EXCEPT !.enabled = FALSE],
   [NoUpdate EXCEPT !.parameters = Nothing],
   [time |-> hourly, enabled |-> Keep, parameters |-> wide]}
=============================================================================
