----------------------------- MODULE MCDispatch -----------------------------
(* Small instances of Dispatch for TLC. *)
EXTENDS Dispatch, TLC

CONSTANTS p1, p2, i1, i2, i3, d1, d2, d3, f1, f2

\* Items, digests and flows are alike; NoDigest and NoProfile are fixed.
Alike == Permutations(Items) \cup Permutations(Digests) \cup Permutations(Flows)
=============================================================================
