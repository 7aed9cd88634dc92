-------------------------- MODULE SessionDirectory --------------------------
(***************************************************************************)
(* What the listener's registry promises to the rest of the server, with   *)
(* the strands, the sockets, the timers and the second map left out: a     *)
(* user id names at most one session, and a session serves one user once.  *)
(* find_session, broadcast, the voice rooms and the command handler rely   *)
(* on exactly this.                                                        *)
(***************************************************************************)
CONSTANTS Session, User, None

VARIABLES
    online,  \* the session that find_session returns for a user
    served   \* the sessions that have been entered, or never will be any more

Init ==
    /\ online = [u \in User |-> None]
    /\ served = {}

(* A session that was never entered becomes the session of u, in place of  *)
(* an earlier one if there is one.                                         *)
Login(s, u) ==
    /\ s \notin served
    /\ online' = [online EXCEPT ![u] = s]
    /\ served' = served \cup {s}

(* The session of u is gone; nobody else's entry changes. *)
Logout(u) ==
    /\ online[u] # None
    /\ online' = [online EXCEPT ![u] = None]
    /\ UNCHANGED served

(* The server shuts down, and with it, at the latest when its process      *)
(* ends, what was about to be entered.                                     *)
Clear ==
    /\ online' = [u \in User |-> None]
    /\ served \subseteq served' /\ served' \subseteq Session

Next ==
    \/ \E s \in Session, u \in User : Login(s, u)
    \/ \E u \in User : Logout(u)
    \/ Clear

Spec == Init /\ [][Next]_<<online, served>>
=============================================================================
