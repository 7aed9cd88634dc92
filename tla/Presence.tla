------------------------------ MODULE Presence ------------------------------
(***************************************************************************)
(* Who a client believes to be online.  Listener::on_session_authenticated *)
(* collects the online users in the lock section that enters the session,  *)
(* sends them after it; Session::handle_auth_response then broadcasts      *)
(* ONLINE, and on_session_disconnected OFFLINE, each after its own lock    *)
(* section and to the recipients a further one collects                    *)
(* (src/net/listener.cpp, src/net/session.cpp).                             *)
(*                                                                         *)
(* A handler holds the strand of its session until it is done, so what one *)
(* session announces stays in order; the announcements of two sessions of  *)
(* one user, and a snapshot that is still to be sent, can be overtaken.    *)
(***************************************************************************)
CONSTANTS Session, User, None

ASSUME PresenceAssumption == None \notin Session \cup User

VARIABLES
    entry,     \* sessions_by_user_
    state,     \* "new", "Established" or "Dead"
    user,      \* user_id_ of a session
    pc,        \* what the handler on the session's strand does next
    snapshot,  \* users whose ONLINE the handler is still to send to its own session
    status,    \* the status the handler announces
    to,        \* recipients its broadcast still has to send to
    view,      \* users the client of a session believes to be online
    shuttingDown, \* shutting_down_
    crossed    \* history: <<session, user>> whose news were under way in both senses

vars == <<entry, state, user, pc, snapshot, status, to, view, shuttingDown, crossed>>

TypeOK ==
    /\ entry \in [User -> Session \cup {None}]
    /\ state \in [Session -> {"new", "Established", "Dead"}]
    /\ user \in [Session -> User \cup {None}]
    /\ pc \in [Session -> {"idle", "register", "announce", "send"}]
    /\ snapshot \in [Session -> SUBSET User]
    /\ status \in [Session -> {"ONLINE", "OFFLINE"}]
    /\ to \in [Session -> SUBSET Session]
    /\ view \in [Session -> SUBSET User]
    /\ shuttingDown \in BOOLEAN
    /\ crossed \subseteq Session \X User

Init ==
    /\ entry = [u \in User |-> None]
    /\ state = [s \in Session |-> "new"]
    /\ user = [s \in Session |-> None]
    /\ pc = [s \in Session |-> "idle"]
    /\ snapshot = [s \in Session |-> {}]
    /\ status = [s \in Session |-> "ONLINE"]
    /\ to = [s \in Session |-> {}]
    /\ view = [s \in Session |-> {}]
    /\ shuttingDown = FALSE
    /\ crossed = {}

Registered == {s \in Session : user[s] # None /\ entry[user[s]] = s}

\* The announcement of t is still to reach r: the recipients are not yet
\* collected, or r is among those left.  ONLINE excludes its own session.
Reaches(t, r) ==
    \/ pc[t] = "announce" /\ ~(status[t] = "ONLINE" /\ t = r)
    \/ pc[t] = "send" /\ r \in to[t]

\* What is under way to r about u.
News(u, r) ==
    {status[t] : t \in {x \in Session : user[x] = u /\ Reaches(x, r)}}
        \cup (IF u \in snapshot[r] THEN {"ONLINE"} ELSE {})

\* The registry now says st of u: where the opposite is under way the two
\* have crossed, where nothing is under way an earlier crossing is over.
Crossed(r, u, st) ==
    \/ News(u, r) \ {st} # {}
    \/ <<r, u>> \in crossed /\ News(u, r) # {}

-----------------------------------------------------------------------------
\* handle_auth_response up to the call of on_session_authenticated.
Authenticate(s, u) ==
    /\ state[s] = "new"
    /\ state' = [state EXCEPT ![s] = "Established"]
    /\ user' = [user EXCEPT ![s] = u]
    /\ pc' = [pc EXCEPT ![s] = "register"]
    /\ UNCHANGED <<entry, snapshot, status, to, view, crossed, shuttingDown>>

\* Users whose session is Established once s has been entered for u.
OnlineUsers(s, u) ==
    {u} \cup {v \in User : entry[v] # None /\ state[entry[v]] = "Established"}

\* on_session_authenticated: an older session of the user is replaced, and
\* sent a disconnect() (Close); it announces nothing.
OnSessionAuthenticated(s) ==
    /\ pc[s] = "register"
    /\ LET u == user[s]
           online == OnlineUsers(s, u)
       IN  /\ entry' = [entry EXCEPT ![u] = s]
           /\ snapshot' = [snapshot EXCEPT ![s] = online]
           /\ crossed' = {p \in Session \X User :
                 CASE p[1] = s -> Crossed(s, p[2], IF p[2] \in online THEN "ONLINE" ELSE "OFFLINE")
                   [] p[1] # s /\ p[2] = u -> Crossed(p[1], u, "ONLINE")
                   [] OTHER -> p \in crossed}
    /\ pc' = [pc EXCEPT ![s] = "announce"]
    /\ status' = [status EXCEPT ![s] = "ONLINE"]
    /\ UNCHANGED <<state, user, to, view, shuttingDown>>

\* send_presence_snapshot, one message.
SendSnapshot(s, u) ==
    /\ u \in snapshot[s]
    /\ snapshot' = [snapshot EXCEPT ![s] = @ \ {u}]
    /\ view' = [view EXCEPT ![s] = @ \cup {u}]
    /\ UNCHANGED <<entry, state, user, pc, status, to, crossed, shuttingDown>>

\* Mutant: the names of the recipients are kept, not their sessions.
CollectUsers(s) ==
    /\ pc[s] = "announce" /\ snapshot[s] = {}
    /\ pc' = [pc EXCEPT ![s] = "send"]
    /\ to' = [to EXCEPT ![s] = {user[r] : r \in Registered}]
    /\ UNCHANGED <<entry, state, user, snapshot, status, view, crossed, shuttingDown>>

\* broadcast: the recipients are collected under the lock, with the snapshot
\* and the stored messages sent before.
Collect(s) ==
    /\ pc[s] = "announce" /\ snapshot[s] = {}
    /\ pc' = [pc EXCEPT ![s] = "send"]
    /\ to' = [to EXCEPT ![s] = {r \in Registered : status[s] = "OFFLINE" \/ r # s}]
    /\ UNCHANGED <<entry, state, user, snapshot, status, view, crossed, shuttingDown>>

\* ... and sent to, one by one, without it.  send() drops what is for a Dead
\* session.
SendPresence(s, r) ==
    /\ pc[s] = "send" /\ r \in to[s]
    /\ to' = [to EXCEPT ![s] = @ \ {r}]
    /\ view' = [view EXCEPT ![r] =
                   IF state[r] = "Dead" THEN @
                   ELSE IF status[s] = "ONLINE" THEN @ \cup {user[s]} ELSE @ \ {user[s]}]
    /\ UNCHANGED <<entry, state, user, pc, snapshot, status, crossed, shuttingDown>>

HandlerDone(s) ==
    /\ pc[s] = "send" /\ to[s] = {}
    /\ pc' = [pc EXCEPT ![s] = "idle"]
    /\ UNCHANGED <<entry, state, user, snapshot, status, to, view, crossed, shuttingDown>>

\* disconnect(): the session was replaced, kicked, or it quit.
Close(s) ==
    /\ pc[s] = "idle" /\ state[s] = "Established"
    /\ state' = [state EXCEPT ![s] = "Dead"]
    /\ UNCHANGED <<entry, user, pc, snapshot, status, to, view, crossed, shuttingDown>>

\* Mutant: a session that was closed by disconnect() announces nothing.
OnSessionDisconnectedSilent(s) ==
    /\ pc[s] = "idle" /\ s \in Registered
    /\ entry' = [entry EXCEPT ![user[s]] = None]
    /\ pc' = [pc EXCEPT ![s] = IF state[s] = "Dead" THEN "idle" ELSE "announce"]
    /\ status' = [status EXCEPT ![s] = "OFFLINE"]
    /\ crossed' = {p \in Session \X User :
                      IF p[2] = user[s] THEN Crossed(p[1], p[2], "OFFLINE") ELSE p \in crossed}
    /\ UNCHANGED <<state, user, snapshot, to, view, shuttingDown>>

\* on_session_disconnected of a session that still has its entry: a failed
\* read or write, or a ping timeout, after which the session goes on.  Of any
\* other session it announces nothing.
OnSessionDisconnected(s) ==
    /\ pc[s] = "idle" /\ s \in Registered
    /\ entry' = [entry EXCEPT ![user[s]] = None]
    /\ pc' = [pc EXCEPT ![s] = "announce"]
    /\ status' = [status EXCEPT ![s] = "OFFLINE"]
    /\ crossed' = {p \in Session \X User :
                      IF p[2] = user[s] THEN Crossed(p[1], p[2], "OFFLINE") ELSE p \in crossed}
    /\ UNCHANGED <<state, user, snapshot, to, view, shuttingDown>>

\* Listener::shutdown empties the registry without a word to the clients.
Shutdown ==
    /\ ~shuttingDown
    /\ shuttingDown' = TRUE
    /\ entry' = [u \in User |-> None]
    /\ UNCHANGED <<state, user, pc, snapshot, status, to, view, crossed>>

Next ==
    \/ \E s \in Session :
          \/ \E u \in User : Authenticate(s, u) \/ SendSnapshot(s, u)
          \/ OnSessionAuthenticated(s) \/ Collect(s) \/ HandlerDone(s)
          \/ \E r \in Session : SendPresence(s, r)
          \/ Close(s) \/ OnSessionDisconnected(s)
    \/ Shutdown

Spec == Init /\ [][Next]_vars

-----------------------------------------------------------------------------
\* Once nothing about u is under way to a registered client, the client is
\* right about u: the snapshot and the recipients of the broadcasts, taken in
\* three lock sections, leave no gap in which a login or a logout passes a
\* client by, whoever is replaced, closed or unregistered meanwhile.  The one
\* exception are news that were under way in both senses: the OFFLINE of a
\* session that has ended and the ONLINE of the next one, or a snapshot and
\* an OFFLINE, may arrive in either order, and the client keeps the wrong one
\* until the user's next login or logout.  Of a user whose session is closed
\* and not yet unregistered nothing is claimed.
ViewsSettle ==
    \A s \in Registered, u \in User :
        /\ state[s] = "Established" /\ user[s] # u
        /\ News(u, s) = {} /\ <<s, u>> \notin crossed
        => /\ entry[u] = None => u \notin view[s]
           /\ entry[u] # None => u \in view[s] \/ state[entry[u]] = "Dead"
=============================================================================
