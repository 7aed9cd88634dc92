--------------------------- MODULE MCConnections ---------------------------
(* Instances of Connections for TLC. *)
EXTENDS Connections, TLC

(* Every user id is a spelling of one nickname ("Sepi", "sepi"). *)
MCFold == [u \in User |-> "nick"]

Symmetry == Permutations(Session) \cup Permutations(User)
=============================================================================
