---------------------------- MODULE MessageFate ----------------------------
(***************************************************************************)
(* What the server promises of a direct message, with the registry, the    *)
(* handlers, the store and its limits left out: a message is accepted      *)
(* once, in the order its sender wrote it; what becomes of it is settled   *)
(* once.  A message that was delivered does not get lost, and one that was *)
(* given up does not come back.                                            *)
(***************************************************************************)
EXTENDS Naturals

CONSTANTS Sender, MaxMessages

VARIABLE fate

Message == Sender \X (1..MaxMessages)

Init == fate = [m \in Message |-> "unsent"]

(* handle_chat has the next message of its sender. *)
Accept(m) ==
    /\ fate[m] = "unsent"
    /\ \A n \in Message : n[1] = m[1] /\ n[2] < m[2] => fate[n] # "unsent"
    /\ fate' = [fate EXCEPT ![m] = "held"]

(* A client of the recipient receives it. *)
Deliver(m) ==
    /\ fate[m] = "held"
    /\ fate' = [fate EXCEPT ![m] = "delivered"]

(* Messages are refused, evicted, expired, sent in vain, or lost with the  *)
(* process that held them.                                                 *)
GiveUp(M) ==
    /\ \A m \in M : fate[m] = "held"
    /\ fate' = [m \in Message |-> IF m \in M THEN "lost" ELSE fate[m]]

Next ==
    \/ \E m \in Message : Accept(m) \/ Deliver(m)
    \/ \E M \in SUBSET Message : GiveUp(M)

Spec == Init /\ [][Next]_fate
=============================================================================
