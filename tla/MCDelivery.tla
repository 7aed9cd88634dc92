----------------------------- MODULE MCDelivery -----------------------------
(* Instances of Delivery for TLC. *)
EXTENDS Delivery, TLC

Symmetry == Permutations(Sender) \cup Permutations(Session) \cup Permutations(User)
=============================================================================
