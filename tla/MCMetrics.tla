------------------------------ MODULE MCMetrics ------------------------------
(* Instances of Metrics for TLC. *)
EXTENDS Metrics, TLC

CONSTANTS r1, r2, u1, u2

MCRuns == {r1, r2}
MCWho == {u1, u2}

Symmetry == {p @@ q : p \in Permutations(MCRuns), q \in Permutations(MCWho)}
=============================================================================
