------------------------------ MODULE FileLife ------------------------------
(***************************************************************************)
(* What the server promises of a file, with the sessions, the handlers and *)
(* the clock left out: an id is taken once; chunks are written while the   *)
(* file is open, that is, while the session that asked for it goes on      *)
(* uploading it; a file that was completed or abandoned is never opened    *)
(* again, and one that was removed is gone for good, with its chunks.      *)
(***************************************************************************)
EXTENDS Naturals

CONSTANTS
    File,
    Screened   \* whether the scanner sees every chunk before completion

VARIABLES life, stored

lifeVars == <<life, stored>>

Init ==
    /\ life = [f \in File |-> "new"]
    /\ stored = {}

(* handle_file_request takes an id that was never used. *)
Open(f) ==
    /\ life[f] = "new"
    /\ life' = [life EXCEPT ![f] = "open"]
    /\ UNCHANGED stored

(* handle_file_upload stores a chunk, in place of an earlier one. *)
Write(f, i, bad) ==
    /\ life[f] = "open"
    /\ stored' = {c \in stored : c.file # f \/ c.index # i}
                    \cup {[file |-> f, index |-> i, bad |-> bad]}
    /\ UNCHANGED life

(* The upload ends well. *)
Complete(f) ==
    /\ life[f] = "open"
    /\ Screened => \A c \in stored : c.file = f => ~c.bad
    /\ life' = [life EXCEPT ![f] = "complete"]
    /\ UNCHANGED stored

(* Sessions end, the server restarts, or a call of the store fails. *)
Abandon(F) ==
    /\ \A f \in F : life[f] = "open"
    /\ life' = [f \in File |-> IF f \in F THEN "abandoned" ELSE life[f]]
    /\ UNCHANGED stored

(* Files expire, or turn out to be infected, in any stage. *)
Remove(F) ==
    /\ \A f \in F : life[f] \in {"open", "complete", "abandoned"}
    /\ life' = [f \in File |-> IF f \in F THEN "gone" ELSE life[f]]
    /\ stored' = {c \in stored : c.file \notin F}

Next ==
    \/ \E f \in File : Open(f) \/ Complete(f)
    \/ \E f \in File, i \in Nat, bad \in BOOLEAN : Write(f, i, bad)
    \/ \E F \in SUBSET File : Abandon(F) \/ Remove(F)

Spec == Init /\ [][Next]_lifeVars
=============================================================================
