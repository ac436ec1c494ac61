----------------------------- MODULE MCProfiles -----------------------------
(* Profiles for TLC: two names, two editors, a topic and a category.       *)
EXTENDS Profiles, TLC

CONSTANTS e1, e2

MCEditors == {e1, e2}
EditorSymmetry == Permutations(MCEditors)

=============================================================================
