--------------------------- MODULE MCDeliveryQueue ---------------------------
(* Small instances of DeliveryQueue for TLC. *)
EXTENDS DeliveryQueue, TLC

CONSTANTS j1, j2, w1, w2, w3

\* One channel only: every worker may take every job.
OneLaneJobs == [j \in Jobs |-> "group"]
OneLaneWorkers == [w \in Workers |-> "group"]

\* Two channels: j1, w1 and w2 belong to groups, j2 and w3 are personal.
TwoLaneJobs == [j \in Jobs |-> IF j = j1 THEN "group" ELSE "personal"]
TwoLaneWorkers == [w \in Workers |-> IF w = w3 THEN "personal" ELSE "group"]

WorkerSymmetry == Permutations(Workers)
=============================================================================
