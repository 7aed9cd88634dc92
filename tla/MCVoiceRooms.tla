---------------------------- MODULE MCVoiceRooms ----------------------------
(* Instances of VoiceRooms for TLC. *)
EXTENDS VoiceRooms, TLC

Symmetry == Permutations(User) \cup Permutations(Channel)
=============================================================================
