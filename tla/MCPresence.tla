----------------------------- MODULE MCPresence -----------------------------
(* Instances of Presence for TLC. *)
EXTENDS Presence, TLC

Symmetry == Permutations(Session) \cup Permutations(User)
=============================================================================
