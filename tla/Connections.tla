---------------------------- MODULE Connections ----------------------------
(***************************************************************************)
(* The connection core of the server: net/session.cpp (one Session object  *)
(* per accepted socket, its handlers serialised by an asio strand) and     *)
(* net/listener.cpp (the registry of authenticated sessions, shared by all *)
(* strands under sessions_mutex_, and the counter active_connections_).    *)
(*                                                                         *)
(* The io_context is run by a pool of threads, so the handlers of          *)
(* different sessions interleave freely.  Handlers of one session run one  *)
(* at a time, in the order in which they were posted to its strand:        *)
(* strand[s] is that FIFO queue.  A handler that takes sessions_mutex_     *)
(* more than once is split at its lock sections; pc[s] is the place it has *)
(* reached.  A header read and the payload read it starts are one read     *)
(* here: its outcomes are a whole frame, a rejected length, or an error.   *)
(***************************************************************************)
EXTENDS Integers, Sequences

CONSTANTS
    Session,         \* Session objects; each is accepted at most once
    User,            \* user ids
    None,            \* "no user" / "no session"
    Fold,            \* normalize_nickname: the case-folded nick of a user id
    MaxConnections,  \* max_connections_
    MaxWrites,       \* bound: outstanding writes of a session told apart (0: none fails)
    MaxQueue,        \* bound: handlers a strand holds before the reactor adds more
    MaxDrift         \* bound: how far below zero active_connections_ is followed

(***************************************************************************)
(* From -MaxDrift no number of accepts reaches MaxConnections, so stopping *)
(* the counter there does not change what Accept decides.                  *)
(***************************************************************************)
ASSUME ConnectionsAssumption ==
    /\ None \notin Session /\ None \notin User
    /\ MaxConnections \in Nat \ {0}
    /\ MaxWrites \in Nat /\ MaxQueue \in Nat \ {0} /\ MaxDrift \in Nat

VARIABLES
    state,              \* SessionState, or "Unused" before the accept
    userId,             \* user_id_
    strand,             \* handlers posted to the session's strand, oldest first
    pc,                 \* where the running handler is between two lock sections
    claim,              \* the user id that the running AUTH_RESPONSE handler checked
    reading,            \* a read (or the TLS handshake) is outstanding
    writes,             \* outstanding async_write calls
    timer,              \* what ping_timer_ is waiting for
    pingSent,           \* ping_sent_
    sessionsByUser,     \* sessions_by_user_
    usersBySession,     \* users_by_session_
    activeConnections,  \* active_connections_
    acceptReady,        \* a completed accept waits for its handler
    shuttingDown        \* shutting_down_

registry == <<sessionsByUser, usersBySession>>
listener == <<acceptReady, shuttingDown>>
pings    == <<timer, pingSent>>
vars == <<state, userId, strand, pc, claim, reading, writes, timer, pingSent,
          sessionsByUser, usersBySession, activeConnections, acceptReady,
          shuttingDown>>

SessionState == {"Unused", "Handshake", "Hello", "AuthPending", "Established", "Dead"}
TimerHandler == {"interval", "timeout"}
ReadHandler  == {"handshake", "frame", "badLength", "readError"}
Handler      == ReadHandler \cup TimerHandler \cup {"writeError", "close"}

(* The queue q holds a handler of H, and at most one of them. *)
Has(q, H) == \E i \in 1..Len(q) : q[i] \in H
AtMostOne(q, H) == \A i, j \in 1..Len(q) : q[i] \in H /\ q[j] \in H => i = j

Registered == {s \in Session : usersBySession[s] # None}

(***************************************************************************)
(* Something still holds a shared_ptr to the session: the registry, an     *)
(* outstanding or queued operation, or the running handler.  The timer's   *)
(* handlers capture only this.  Without a reference the session is         *)
(* destroyed, which closes its socket.                                     *)
(***************************************************************************)
Referenced(s) ==
    \/ reading[s] \/ writes[s] > 0 \/ pc[s] # "idle" \/ usersBySession[s] # None
    \/ Has(strand[s], Handler \ TimerHandler)

Init ==
    /\ state = [s \in Session |-> "Unused"]
    /\ userId = [s \in Session |-> None]
    /\ strand = [s \in Session |-> <<>>]
    /\ pc = [s \in Session |-> "idle"]
    /\ claim = [s \in Session |-> None]
    /\ reading = [s \in Session |-> FALSE]
    /\ writes = [s \in Session |-> 0]
    /\ timer = [s \in Session |-> "off"]
    /\ pingSent = [s \in Session |-> FALSE]
    /\ sessionsByUser = [u \in User |-> None]
    /\ usersBySession = [s \in Session |-> None]
    /\ activeConnections = 0
    /\ acceptReady = FALSE
    /\ shuttingDown = FALSE

-----------------------------------------------------------------------------
(* The strand and the socket. *)

(* The oldest handler on the idle strand of s is h. *)
Runs(s, h) == pc[s] = "idle" /\ strand[s] # <<>> /\ Head(strand[s]) = h

(* The handler of s returns without posting anything. *)
Pop(s) == strand' = [strand EXCEPT ![s] = Tail(@)]

(* The handler of s calls disconnect() on its own session. *)
PopAndDisconnect(s) == strand' = [strand EXCEPT ![s] = Append(Tail(@), "close")]

(* send() to every session of S starts a write on each. *)
Send(S) ==
    writes' = [s \in Session |-> IF s \in S /\ writes[s] < MaxWrites
                                 THEN writes[s] + 1 ELSE writes[s]]

(* do_read_frame_header at the end of a frame: skipped once the state is Dead. *)
ReadNext(s) == reading' = [reading EXCEPT ![s] = state[s] # "Dead"]

(* The reactor finishes the outstanding read; closing a socket aborts the  *)
(* read, but data that had already arrived may still complete it.  The     *)
(* last read of a closed session is not held up by the bound.              *)
ReadCompletes(s, h) ==
    /\ reading[s] /\ (Len(strand[s]) < MaxQueue \/ state[s] = "Dead")
    /\ h \in IF state[s] = "Handshake" THEN {"handshake", "readError"}
                                       ELSE ReadHandler \ {"handshake"}
    /\ reading' = [reading EXCEPT ![s] = FALSE]
    /\ strand' = [strand EXCEPT ![s] = Append(@, h)]
    /\ UNCHANGED <<state, userId, pc, claim, writes, pings, registry,
                   activeConnections, listener>>

(* Mutant: a failed write is accounted for twice. *)
WriteCompletesTwice(s, ok) ==
    /\ writes[s] > 0 /\ Len(strand[s]) < MaxQueue
    /\ writes' = [writes EXCEPT ![s] = IF ok THEN @ - 1 ELSE @ - 2]
    /\ strand' = IF ok THEN strand ELSE [strand EXCEPT ![s] = Append(@, "writeError")]
    /\ UNCHANGED <<state, userId, pc, claim, reading, pings, registry,
                   activeConnections, listener>>

(* The reactor finishes a write; the handler of a good one does nothing. *)
WriteCompletes(s, ok) ==
    /\ writes[s] > 0 /\ Len(strand[s]) < MaxQueue
    /\ writes' = [writes EXCEPT ![s] = @ - 1]
    /\ strand' = IF ok THEN strand ELSE [strand EXCEPT ![s] = Append(@, "writeError")]
    /\ UNCHANGED <<state, userId, pc, claim, reading, pings, registry,
                   activeConnections, listener>>

(* ping_timer_ expires: from here on a cancel no longer reaches its handler. *)
TimerExpires(s) ==
    /\ timer[s] # "off" /\ Referenced(s) /\ Len(strand[s]) < MaxQueue
    /\ timer' = [timer EXCEPT ![s] = "off"]
    /\ strand' = [strand EXCEPT ![s] = Append(@, timer[s])]
    /\ UNCHANGED <<state, userId, pc, claim, reading, writes, pingSent, registry,
                   activeConnections, listener>>

-----------------------------------------------------------------------------
(* The listener: accepting, the registry, shutdown. *)

AcceptCompletes ==
    /\ ~shuttingDown /\ ~acceptReady
    /\ acceptReady' = TRUE
    /\ UNCHANGED <<state, userId, strand, pc, claim, reading, writes, pings,
                   registry, activeConnections, shuttingDown>>

(* The accept handler: over max_connections_, or when its address connects *)
(* too often, the socket is closed unseen; otherwise a session starts its  *)
(* TLS handshake.                                                          *)
Accept(s) ==
    /\ acceptReady /\ state[s] = "Unused"
    /\ acceptReady' = FALSE
    /\ \/ UNCHANGED <<activeConnections, state, reading>>
       \/ /\ activeConnections < MaxConnections
          /\ activeConnections' = activeConnections + 1
          /\ state' = [state EXCEPT ![s] = "Handshake"]
          /\ reading' = [reading EXCEPT ![s] = TRUE]
    /\ UNCHANGED <<userId, strand, pc, claim, writes, pings, registry, shuttingDown>>

(* No session that is online has the case-folded nick of u. *)
IsNicknameAvailable(u) ==
    \A v \in User : sessionsByUser[v] # None => Fold[v] # Fold[u]

(* Mutant: the replaced session keeps its entry in users_by_session_. *)
OnSessionAuthenticatedKeepsOld(s, u) ==
    LET old == sessionsByUser[u] IN
    /\ sessionsByUser' = [sessionsByUser EXCEPT ![u] = s]
    /\ usersBySession' = [usersBySession EXCEPT ![s] = u]
    /\ strand' = [t \in Session |-> IF t = old THEN Append(strand[t], "close")
                                               ELSE strand[t]]

(* The lock section of on_session_authenticated: an older session of u     *)
(* loses its entries and is told to disconnect.                            *)
OnSessionAuthenticated(s, u) ==
    LET old == sessionsByUser[u] IN
    /\ sessionsByUser' = [sessionsByUser EXCEPT ![u] = s]
    /\ usersBySession' = [t \in Session |-> IF t = s THEN u
                                            ELSE IF t = old THEN None
                                            ELSE usersBySession[t]]
    /\ strand' = [t \in Session |-> IF t = old THEN Append(strand[t], "close")
                                               ELSE strand[t]]

(* Mutant: the entry to remove is found by the session's user_id, not by   *)
(* the session itself.                                                     *)
OnSessionDisconnectedByUser(s) ==
    /\ activeConnections' = IF activeConnections > -MaxDrift
                            THEN activeConnections - 1 ELSE activeConnections
    /\ IF userId[s] # None
       THEN /\ sessionsByUser' = [sessionsByUser EXCEPT ![userId[s]] = None]
            /\ usersBySession' = [t \in Session |-> IF usersBySession[t] = userId[s]
                                                    THEN None ELSE usersBySession[t]]
            /\ pc' = [pc EXCEPT ![s] = "offline"]
       ELSE UNCHANGED <<registry, pc>>

(* on_session_disconnected up to the end of its lock section; a session    *)
(* that was registered goes on to announce OFFLINE.                        *)
OnSessionDisconnected(s) ==
    /\ activeConnections' = IF activeConnections > -MaxDrift
                            THEN activeConnections - 1 ELSE activeConnections
    /\ IF usersBySession[s] # None
       THEN /\ sessionsByUser' = [sessionsByUser EXCEPT ![usersBySession[s]] = None]
            /\ usersBySession' = [usersBySession EXCEPT ![s] = None]
            /\ pc' = [pc EXCEPT ![s] = "offline"]
       ELSE UNCHANGED <<registry, pc>>

(* The rest of on_session_disconnected: broadcast_presence(OFFLINE). *)
AnnounceOffline(s) ==
    /\ pc[s] = "offline"
    /\ pc' = [pc EXCEPT ![s] = "idle"]
    /\ Send(Registered)
    /\ UNCHANGED <<state, userId, strand, claim, reading, pings, registry,
                   activeConnections, listener>>

(* Listener::shutdown: only the sessions in the registry are told. *)
Shutdown ==
    /\ ~shuttingDown
    /\ shuttingDown' = TRUE
    /\ strand' = [s \in Session |-> IF s \in Registered THEN Append(strand[s], "close")
                                                        ELSE strand[s]]
    /\ sessionsByUser' = [u \in User |-> None]
    /\ usersBySession' = [s \in Session |-> None]
    /\ UNCHANGED <<state, userId, pc, claim, reading, writes, pings,
                   activeConnections, acceptReady>>

(* The admin console's kick and ban: disconnect() from another thread. *)
AdminKick(u) ==
    /\ sessionsByUser[u] # None /\ Len(strand[sessionsByUser[u]]) <= MaxQueue
    /\ strand' = [strand EXCEPT ![sessionsByUser[u]] = Append(@, "close")]
    /\ UNCHANGED <<state, userId, pc, claim, reading, writes, pings, registry,
                   activeConnections, listener>>

-----------------------------------------------------------------------------
(* The handlers of a session. *)

HandshakeDone(s) ==
    /\ Runs(s, "handshake") /\ Pop(s)
    /\ state' = [state EXCEPT ![s] = "Hello"]
    /\ reading' = [reading EXCEPT ![s] = TRUE]
    /\ UNCHANGED <<userId, pc, claim, writes, pings, registry, activeConnections,
                   listener>>

(* A HELLO of the right version is answered with AUTH_CHALLENGE. *)
HandleHello(s) ==
    /\ Runs(s, "frame") /\ state[s] = "Hello" /\ Pop(s)
    /\ state' = [state EXCEPT ![s] = "AuthPending"]
    /\ Send({s}) /\ ReadNext(s)
    /\ UNCHANGED <<userId, pc, claim, pings, registry, activeConnections, listener>>

(* Mutant: the next read is started before the handler is through. *)
CheckNicknameReadsOn(s, u) ==
    /\ Runs(s, "frame") /\ state[s] = "AuthPending" /\ Pop(s)
    /\ IsNicknameAvailable(u)
    /\ pc' = [pc EXCEPT ![s] = "auth"]
    /\ claim' = [claim EXCEPT ![s] = u]
    /\ ReadNext(s)
    /\ UNCHANGED <<state, userId, writes, pings, registry, activeConnections, listener>>

(* An AUTH_RESPONSE for u that passes the nickname check: the first lock   *)
(* section of handle_auth_response.                                        *)
CheckNickname(s, u) ==
    /\ Runs(s, "frame") /\ state[s] = "AuthPending" /\ Pop(s)
    /\ IsNicknameAvailable(u)
    /\ pc' = [pc EXCEPT ![s] = "auth"]
    /\ claim' = [claim EXCEPT ![s] = u]
    /\ UNCHANGED <<state, userId, reading, writes, pings, registry,
                   activeConnections, listener>>

(* Keys, signature or stored identity are refused: AUTH_FAIL or an error,  *)
(* then disconnect().  A database exception is only logged by              *)
(* on_frame_received and leaves the session waiting for another try.       *)
RefuseCredentials(s, exception) ==
    /\ pc[s] = "auth"
    /\ pc' = [pc EXCEPT ![s] = "idle"]
    /\ claim' = [claim EXCEPT ![s] = None]
    /\ IF exception
       THEN UNCHANGED <<strand, writes>>
       ELSE strand' = [strand EXCEPT ![s] = Append(@, "close")] /\ Send({s})
    /\ ReadNext(s)
    /\ UNCHANGED <<state, userId, pings, registry, activeConnections, listener>>

(* The credentials are good: AUTH_OK, Established, the registry, then      *)
(* start_ping_timer.                                                       *)
Authenticate(s) ==
    /\ pc[s] = "auth"
    /\ pc' = [pc EXCEPT ![s] = "announce"]
    /\ claim' = [claim EXCEPT ![s] = None]
    /\ userId' = [userId EXCEPT ![s] = claim[s]]
    /\ state' = [state EXCEPT ![s] = "Established"]
    /\ OnSessionAuthenticated(s, claim[s])
    /\ Send({s})
    /\ timer' = [timer EXCEPT ![s] = "interval"]
    /\ pingSent' = [pingSent EXCEPT ![s] = FALSE]
    /\ UNCHANGED <<reading, activeConnections, listener>>

(* Mutant: the session enters itself again before it announces ONLINE. *)
AnnounceOnlineAgain(s) ==
    /\ pc[s] = "announce"
    /\ pc' = [pc EXCEPT ![s] = "idle"]
    /\ OnSessionAuthenticated(s, userId[s])
    /\ Send(Registered) /\ ReadNext(s)
    /\ UNCHANGED <<state, userId, claim, pings, activeConnections, listener>>

(* The end of handle_auth_response: stored messages go to s, ONLINE to     *)
(* everyone else.                                                          *)
AnnounceOnline(s) ==
    /\ pc[s] = "announce"
    /\ pc' = [pc EXCEPT ![s] = "idle"]
    /\ Send(Registered) /\ ReadNext(s)
    /\ UNCHANGED <<state, userId, strand, claim, pings, registry,
                   activeConnections, listener>>

(* PONG is accepted in every state. *)
HandlePong(s) ==
    /\ Runs(s, "frame") /\ Pop(s)
    /\ timer' = [timer EXCEPT ![s] = "interval"]
    /\ pingSent' = [pingSent EXCEPT ![s] = FALSE]
    /\ ReadNext(s)
    /\ UNCHANGED <<state, userId, pc, claim, writes, registry, activeConnections,
                   listener>>

(* Who is sent something by the handler of a frame: the relays of          *)
(* handle_chat, of voice signals and rooms and of commands go to           *)
(* registered sessions, which s itself need not be, answers and errors to  *)
(* s; before the login nothing is relayed.                                 *)
Recipients(s) == IF state[s] = "Established" THEN Registered \cup {s} ELSE {s}

(* Every other frame that leaves the connection alone: it is ignored, or   *)
(* answered, or relayed to sessions of the registry.                       *)
HandleFrame(s, S) ==
    /\ Runs(s, "frame") /\ Pop(s)
    /\ S \subseteq Recipients(s)
    /\ Send(S) /\ ReadNext(s)
    /\ UNCHANGED <<state, userId, pc, claim, pings, registry, activeConnections,
                   listener>>

(* Every frame that ends in disconnect(): a bad HELLO or AUTH_RESPONSE, a  *)
(* nickname in use, a forged sender, /quit.                                *)
RejectFrame(s) ==
    /\ Runs(s, "frame") /\ state[s] \in {"Hello", "AuthPending", "Established"}
    /\ PopAndDisconnect(s)
    /\ Send({s}) /\ ReadNext(s)
    /\ UNCHANGED <<state, userId, pc, claim, pings, registry, activeConnections,
                   listener>>

(* Mutant: the closure closes the socket and leaves the state. *)
CloseSocketOnly(s) ==
    /\ Runs(s, "close") /\ Pop(s)
    /\ timer' = [timer EXCEPT ![s] = "off"]
    /\ UNCHANGED <<state, userId, pc, claim, reading, writes, pingSent, registry,
                   activeConnections, listener>>

(* The closure posted by disconnect(). *)
Close(s) ==
    /\ Runs(s, "close") /\ Pop(s)
    /\ state' = [state EXCEPT ![s] = "Dead"]
    /\ timer' = [timer EXCEPT ![s] = "off"]
    /\ UNCHANGED <<userId, pc, claim, reading, writes, pingSent, registry,
                   activeConnections, listener>>

(* A failed read or handshake, a frame length that is refused (an error is *)
(* sent for one too large, none for zero), a failed write.                 *)
ConnectionLost(s, h) ==
    /\ Runs(s, h) /\ h \in {"readError", "badLength", "writeError"} /\ Pop(s)
    /\ OnSessionDisconnected(s)
    /\ \/ h = "badLength" /\ Send({s})
       \/ UNCHANGED writes
    /\ UNCHANGED <<state, userId, claim, reading, pings, listener>>

(* Mutant: the timeout is not started after the PING. *)
PingIntervalNoTimeout(s) ==
    /\ Runs(s, "interval") /\ Pop(s)
    /\ IF state[s] # "Established" \/ ~Referenced(s)
       THEN UNCHANGED <<pc, registry, activeConnections, writes, pingSent>>
       ELSE IF pingSent[s]
       THEN OnSessionDisconnected(s) /\ UNCHANGED <<writes, pingSent>>
       ELSE /\ Send({s})
            /\ pingSent' = [pingSent EXCEPT ![s] = TRUE]
            /\ UNCHANGED <<pc, registry, activeConnections>>
    /\ UNCHANGED <<state, userId, claim, reading, timer, listener>>

(* The ping interval is over: a PING goes out and the timeout starts.  A   *)
(* handler that outlived its session does nothing that can be seen here.   *)
PingInterval(s) ==
    /\ Runs(s, "interval") /\ Pop(s)
    /\ IF state[s] # "Established" \/ ~Referenced(s)
       THEN UNCHANGED <<pc, registry, activeConnections, writes, pings>>
       ELSE IF pingSent[s]
       THEN OnSessionDisconnected(s) /\ UNCHANGED <<writes, pings>>
       ELSE /\ Send({s})
            /\ pingSent' = [pingSent EXCEPT ![s] = TRUE]
            /\ timer' = [timer EXCEPT ![s] = "timeout"]
            /\ UNCHANGED <<pc, registry, activeConnections>>
    /\ UNCHANGED <<state, userId, claim, reading, listener>>

(* No PONG in time: the session leaves the registry and nothing more. *)
PingTimeout(s) ==
    /\ Runs(s, "timeout") /\ Pop(s)
    /\ IF state[s] = "Established" /\ Referenced(s)
       THEN OnSessionDisconnected(s)
       ELSE UNCHANGED <<pc, registry, activeConnections>>
    /\ UNCHANGED <<state, userId, claim, reading, writes, pings, listener>>

-----------------------------------------------------------------------------
Reactor(s) ==
    \/ \E h \in ReadHandler : ReadCompletes(s, h)
    \/ \E ok \in BOOLEAN : WriteCompletes(s, ok)
    \/ TimerExpires(s)

(* One step of the handler that runs, or is next to run, on the strand of s. *)
Strand(s) ==
    \/ HandshakeDone(s) \/ HandleHello(s)
    \/ \E u \in User : CheckNickname(s, u)
    \/ \E exception \in BOOLEAN : RefuseCredentials(s, exception)
    \/ Authenticate(s) \/ AnnounceOnline(s) \/ AnnounceOffline(s)
    \/ HandlePong(s) \/ RejectFrame(s)
    \/ \E S \in SUBSET Session : HandleFrame(s, S)
    \/ Close(s)
    \/ \E h \in Handler : ConnectionLost(s, h)
    \/ PingInterval(s) \/ PingTimeout(s)

Next ==
    \/ AcceptCompletes \/ Shutdown
    \/ \E s \in Session : Accept(s) \/ Reactor(s) \/ Strand(s)
    \/ \E u \in User : AdminKick(u)

Spec == Init /\ [][Next]_vars

(***************************************************************************)
(* Fairness.  Threads of the pool keep running posted handlers; a timer    *)
(* that is not cancelled expires; closing a socket completes its           *)
(* outstanding read and writes.  A peer need not ever send, close or drain *)
(* anything.                                                               *)
(***************************************************************************)
Fairness ==
    \A s \in Session :
        /\ WF_vars(Strand(s))
        /\ WF_vars(TimerExpires(s))
        /\ WF_vars(state[s] = "Dead" /\ \E h \in ReadHandler : ReadCompletes(s, h))
        /\ WF_vars(state[s] = "Dead" /\ \E ok \in BOOLEAN : WriteCompletes(s, ok))

LiveSpec == Spec /\ Fairness

-----------------------------------------------------------------------------
(* Properties. *)

(* Every variable has its type; a queue holds only handlers, a counter of   *)
(* writes keeps its bound.                                                 *)
TypeOK ==
    /\ state \in [Session -> SessionState]
    /\ userId \in [Session -> User \cup {None}]
    /\ strand \in [Session -> Seq(Handler)]
    /\ pc \in [Session -> {"idle", "auth", "announce", "offline"}]
    /\ claim \in [Session -> User \cup {None}]
    /\ reading \in [Session -> BOOLEAN]
    /\ writes \in [Session -> 0..MaxWrites]
    /\ timer \in [Session -> TimerHandler \cup {"off"}]
    /\ pingSent \in [Session -> BOOLEAN]
    /\ sessionsByUser \in [User -> Session \cup {None}]
    /\ usersBySession \in [Session -> User \cup {None}]
    /\ activeConnections \in Int
    /\ acceptReady \in BOOLEAN
    /\ shuttingDown \in BOOLEAN

(* The two maps of the listener are inverse to each other at every point   *)
(* where sessions_mutex_ is free, although three operations update them    *)
(* from different strands (on_session_authenticated,                       *)
(* on_session_disconnected, shutdown) and each erases by another key.      *)
RegistryBijection ==
    \A s \in Session, u \in User : sessionsByUser[u] = s <=> usersBySession[s] = u

(* A session the registry hands out has finished authentication as the     *)
(* user it is entered under, whatever disconnects, timeouts and            *)
(* replacements ran in between: find_session never yields a session that   *)
(* is still in the handshake or belongs to someone else.                   *)
RegisteredAreAuthenticated ==
    \A s \in Registered :
        userId[s] = usersBySession[s] /\ state[s] \in {"Established", "Dead"}

(* The registry is sound: one session per user, one user per session, and  *)
(* only sessions that authenticated as the user they are entered under     *)
(* (RegistryBijection and RegisteredAreAuthenticated together).            *)
RegistrySound == RegistryBijection /\ RegisteredAreAuthenticated

(* A TLS stream allows one outstanding read: the read itself, its queued   *)
(* completion and the handler that will start the next one never coexist,  *)
(* so handlers never process two frames of a session at once.              *)
SingleReadChain ==
    \A s \in Session :
        /\ AtMostOne(strand[s], ReadHandler)
        /\ reading[s] \/ pc[s] \in {"auth", "announce"} => ~Has(strand[s], ReadHandler)
        /\ pc[s] \in {"auth", "announce"} => ~reading[s]

(* What links a session's state to its strand: nothing is queued before    *)
(* the accept, the handshake's completion and a disconnect() are queued    *)
(* only in the states that can expect them, and a user id is set only by   *)
(* authentication.  With the two maps, the types and the read chain this   *)
(* is inductive.                                                           *)
StrandMatchesState ==
    \A s \in Session :
        /\ state[s] = "Unused" =>
              /\ strand[s] = <<>> /\ pc[s] = "idle"
              /\ ~reading[s] /\ writes[s] = 0 /\ timer[s] = "off"
        /\ Has(strand[s], {"handshake"}) => state[s] = "Handshake"
        /\ Has(strand[s], {"close"}) => state[s] \notin {"Unused", "Handshake"}
        /\ pc[s] = "auth" => state[s] = "AuthPending" /\ claim[s] \in User
        /\ userId[s] # None => state[s] \in {"Established", "Dead"}

(* After disconnect() has run, at most the frame already on its way is     *)
(* handled: no new read is ever started on a Dead session.                 *)
NoReadAfterDead ==
    [][\A s \in Session : state[s] = "Dead" /\ ~reading[s] => ~reading'[s]]_vars

Rank(q) ==
    CASE q = "Unused" -> 0 [] q = "Handshake" -> 1 [] q = "Hello" -> 2
      [] q = "AuthPending" -> 3 [] q = "Established" -> 4 [] q = "Dead" -> 5

(* SessionState only moves forward, one connection never authenticates     *)
(* twice and nothing leaves Dead, although set_state checks nothing and    *)
(* disconnect() is posted by other strands.                                *)
LifecycleForward ==
    [][\A s \in Session : Rank(state[s]) <= Rank(state'[s])]_vars

(* A session loses its entry only by its own on_session_disconnected, to a *)
(* newer session of the same user, or in shutdown.  In particular the late *)
(* on_session_disconnected of a replaced session never takes its           *)
(* successor off the registry.                                             *)
EntryLostOnlyByOwner ==
    [][\A s \in Session :
          usersBySession[s] # None /\ usersBySession'[s] = None =>
              \/ pc[s] = "idle" /\ pc'[s] = "offline"
              \/ sessionsByUser'[usersBySession[s]] \notin {s, None}
              \/ ~shuttingDown /\ shuttingDown']_vars

(* What no step may do to a session, whoever takes it: move its state      *)
(* back, start a read on it once it is Dead, or take its registry entry    *)
(* away for somebody else's end.                                           *)
SessionsOnlyEnd == LifecycleForward /\ NoReadAfterDead /\ EntryLostOnlyByOwner

(* The registry implements the directory the rest of the server relies on. *)
Directory == INSTANCE SessionDirectory
             WITH online <- sessionsByUser,
                  served <- {s \in Session : userId[s] # None}

(* Every step of the sessions and the listener is a login, a logout, a     *)
(* clear or no step of the directory: no session comes back after it has   *)
(* been removed, and a removal takes away exactly one user.                *)
ImplementsDirectory == Directory!Spec

(* A PING that goes unanswered is settled: the PONG arrives, or the        *)
(* session leaves the registry, or it is closed.                           *)
PingResolved ==
    \A s \in Session :
        (pingSent[s] /\ s \in Registered) ~>
            (~pingSent[s] \/ s \notin Registered \/ state[s] = "Dead")

(* disconnect() takes effect: its closure is reached behind whatever the   *)
(* strand had queued and running; and although it never calls              *)
(* on_session_disconnected, a session it closes while a read is            *)
(* outstanding leaves the registry, unless a whole frame had arrived       *)
(* before.  In that case, and when the closure runs between the handling   *)
(* of a frame and the next read, nothing ever takes the session off the    *)
(* registry.                                                               *)
ClosingEnds ==
    \A s \in Session :
        /\ Has(strand[s], {"close"}) ~> (state[s] = "Dead")
        /\ (state[s] = "Dead" /\ reading[s]) ~>
               (s \notin Registered \/ Has(strand[s], {"frame"}))

-----------------------------------------------------------------------------
(* What a comment says of the server, and the code does not do. *)

(* listener.hpp: active_connections_ is "Total active connections (pre-auth *)
(* + authenticated)": a total, so never below zero.                        *)
CountNotNegative == activeConnections >= 0
=============================================================================
