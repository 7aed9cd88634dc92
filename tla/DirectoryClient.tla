-------------------------- MODULE DirectoryClient --------------------------
(***************************************************************************)
(* DirectoryClient (src/net/directory_client.cpp): lists a public server   *)
(* with a directory service.  One chain of callbacks does everything: a    *)
(* request, its completion, the timer, the next request.  It registers,    *)
(* pings under the id it was given, and registers again when the directory *)
(* no longer knows that id.                                                 *)
(*                                                                         *)
(* The completions run on the threads of the pool, start() and stop() on   *)
(* the threads of the server: each handler is two steps, and stop() can    *)
(* come between them.  The directory is external: it can be reached or     *)
(* not, it may lose its entries while it cannot, and a request that was    *)
(* under way when it went away fails or is never answered, for no request  *)
(* has a timeout.                                                           *)
(***************************************************************************)
EXTENDS Integers, FiniteSets

CONSTANTS
    ServerId,     \* ids the directory hands out
    None          \* no id

ASSUME DirectoryAssumption == None \notin ServerId

VARIABLES
    active,       \* running_ of the client
    registered,   \* registered_
    serverId,     \* server_id_, None when empty
    timer,        \* "off", "armed" or "expired": timer_ and its queued completion
    requests,     \* requests under way
    replies,      \* completions of post_request that no thread has taken yet
    handlers,     \* handlers that have passed their check of running_
    reachable,    \* the directory can be reached and answers
    known         \* ids the directory lists

directoryVars == <<active, registered, serverId, timer, requests, replies, handlers, reachable, known>>

Request == [kind : {"register", "ping"}, id : ServerId \cup {None}, silent : BOOLEAN]
Result  == {"ok", "not found", "failed"}
Reply   == [kind : {"register", "ping"}, result : Result, id : ServerId \cup {None}]
Step    == {"register", "ping", "schedule"}

DirectoryTypeOK ==
    /\ active \in BOOLEAN /\ registered \in BOOLEAN /\ reachable \in BOOLEAN
    /\ serverId \in ServerId \cup {None} /\ known \subseteq ServerId
    /\ timer \in {"off", "armed", "expired"}
    /\ requests \subseteq Request /\ replies \subseteq Reply /\ handlers \subseteq Step

DirectoryInit ==
    /\ active = FALSE /\ registered = FALSE /\ serverId = None
    /\ timer = "off" /\ requests = {} /\ replies = {} /\ handlers = {}
    /\ reachable \in BOOLEAN /\ known = {}

-----------------------------------------------------------------------------
\* post_request for register_server or send_ping.
Post(kind) ==
    requests' = requests \cup {[kind |-> kind, silent |-> FALSE,
                                id |-> IF kind = "ping" THEN serverId ELSE None]}

\* start(), called once by Server::run before the pool has threads.
Start ==
    /\ ~active
    /\ active' = TRUE
    /\ Post("register")
    /\ UNCHANGED <<registered, serverId, timer, replies, handlers, reachable, known>>

\* stop() sets running_ ...
Stop ==
    /\ active' = FALSE
    /\ UNCHANGED <<registered, serverId, timer, requests, replies, handlers, reachable, known>>

\* ... and then cancels the timer, if there is one.  A wait that is still
\* pending completes with an error and does nothing.
CancelTimer ==
    /\ timer' = IF timer = "armed" THEN "off" ELSE timer
    /\ UNCHANGED <<active, registered, serverId, requests, replies, handlers, reachable, known>>

TimerElapses ==
    /\ timer = "armed"
    /\ timer' = "expired"
    /\ UNCHANGED <<active, registered, serverId, requests, replies, handlers, reachable, known>>

\* The completion of the timer: the next request is a ping if the server is
\* registered.
TimerHandler ==
    /\ timer = "expired"
    /\ timer' = "off"
    /\ handlers' = IF active THEN handlers \cup {IF registered THEN "ping" ELSE "register"}
                             ELSE handlers
    /\ UNCHANGED <<active, registered, serverId, requests, replies, reachable, known>>

\* Mutant: the next ping is scheduled when a request is sent, too.
SendRequestArms(kind) ==
    /\ kind \in handlers
    /\ handlers' = handlers \ {kind}
    /\ \/ Post(kind) /\ timer' = "armed"
       \/ ~active /\ UNCHANGED <<requests, timer>>
    /\ UNCHANGED <<active, registered, serverId, replies, reachable, known>>

\* send_ping and register_server look at running_ once more: a stop() since
\* the check above is seen or not.
SendRequest(kind) ==
    /\ kind \in handlers
    /\ handlers' = handlers \ {kind}
    /\ \/ Post(kind)
       \/ ~active /\ UNCHANGED requests
    /\ UNCHANGED <<active, registered, serverId, timer, replies, reachable, known>>

\* Mutant: the id kept is the whole answer.
ReplyHandlerWhole(r) ==
    /\ r \in replies
    /\ replies' = replies \ {r}
    /\ \/ ~active /\ UNCHANGED <<registered, serverId, handlers>>
       \/ /\ active
          /\ handlers' = handlers \cup {"schedule"}
          /\ \/ /\ r.kind = "register" /\ r.result = "ok"
                /\ registered' = TRUE /\ serverId' = r
             \/ /\ r.kind # "register" \/ r.result # "ok"
                /\ UNCHANGED <<registered, serverId>>
    /\ UNCHANGED <<active, timer, requests, reachable, known>>

\* Mutant: an answer of "not found" is a failed ping like any other.
ReplyHandlerKeepsId(r) ==
    /\ r \in replies
    /\ replies' = replies \ {r}
    /\ \/ ~active /\ UNCHANGED <<registered, serverId, handlers>>
       \/ /\ active
          /\ handlers' = handlers \cup {"schedule"}
          /\ IF r.kind = "register" /\ r.result = "ok"
             THEN registered' = TRUE /\ serverId' = r.id
             ELSE UNCHANGED <<registered, serverId>>
    /\ UNCHANGED <<active, timer, requests, reachable, known>>

\* The callback of a request: a new id is taken over, "not found" ends the
\* registration, everything else leaves it as it is.
ReplyHandler(r) ==
    /\ r \in replies
    /\ replies' = replies \ {r}
    /\ \/ ~active /\ UNCHANGED <<registered, serverId, handlers>>
       \/ /\ active
          /\ handlers' = handlers \cup {"schedule"}
          /\ \/ /\ r.kind = "register" /\ r.result = "ok"
                /\ registered' = TRUE /\ serverId' = r.id
             \/ /\ r.kind = "ping" /\ r.result = "not found"
                /\ registered' = FALSE /\ serverId' = None
             \/ /\ <<r.kind, r.result>> \notin {<<"register", "ok">>, <<"ping", "not found">>}
                /\ UNCHANGED <<registered, serverId>>
    /\ UNCHANGED <<active, timer, requests, reachable, known>>

\* schedule_next_ping.
ScheduleNextPing ==
    /\ "schedule" \in handlers
    /\ handlers' = handlers \ {"schedule"}
    /\ \/ timer' = "armed"
       \/ ~active /\ UNCHANGED timer
    /\ UNCHANGED <<active, registered, serverId, requests, replies, reachable, known>>

DirectoryHandler == TimerHandler \/ (\E r \in Reply : ReplyHandler(r))
DirectoryFinishes == (\E kind \in {"register", "ping"} : SendRequest(kind)) \/ ScheduleNextPing

-----------------------------------------------------------------------------
\* The directory.

Completes(r, result, id) ==
    /\ requests' = requests \ {r}
    /\ replies' = replies \cup {[kind |-> r.kind, result |-> result, id |-> id]}
    /\ UNCHANGED <<active, registered, serverId, timer, handlers, reachable>>

\* A registration gets a new id, a ping under an id the directory does not
\* list gets "not found".
Answer(r) ==
    /\ reachable /\ r \in requests /\ ~r.silent
    /\ \/ /\ r.kind = "register"
          /\ \E id \in ServerId \ known :
                 known' = known \cup {id} /\ Completes(r, "ok", id)
       \/ /\ r.kind = "ping"
          /\ Completes(r, IF r.id \in known THEN "ok" ELSE "not found", None)
          /\ UNCHANGED known

\* Without the directory a request fails (an answer that names no server_id is
\* treated alike); a registration may have been taken before the connection
\* broke.
RequestFails(r) ==
    /\ ~reachable /\ r \in requests /\ ~r.silent
    /\ Completes(r, "failed", None)
    /\ \/ UNCHANGED known
       \/ r.kind = "register" /\ \E id \in ServerId : known' = known \cup {id}

\* The host of the directory went away with the connection open.
RequestFallsSilent(r) ==
    /\ ~reachable /\ r \in requests /\ ~r.silent
    /\ requests' = (requests \ {r}) \cup {[r EXCEPT !.silent = TRUE]}
    /\ UNCHANGED <<active, registered, serverId, timer, replies, handlers, reachable, known>>

DirectoryLost ==
    /\ reachable /\ reachable' = FALSE
    /\ UNCHANGED <<active, registered, serverId, timer, requests, replies, handlers, known>>

\* It comes back with the entries it still has; entries of earlier
\* registrations that nobody pings expire in it, so one id is always free.
DirectoryBack ==
    /\ ~reachable /\ reachable' = TRUE
    /\ \E kept \in SUBSET known : kept # ServerId /\ known' = kept
    /\ UNCHANGED <<active, registered, serverId, timer, requests, replies, handlers>>

RequestEnds == \E r \in Request : Answer(r) \/ RequestFails(r)
DirectoryEnvironment ==
    DirectoryLost \/ DirectoryBack \/ (\E r \in Request : RequestFallsSilent(r))

-----------------------------------------------------------------------------
\* Everything that will make the chain go on.
Chain == Cardinality(requests) + Cardinality(replies) + Cardinality(handlers)
             + (IF timer = "off" THEN 0 ELSE 1)

\* From start() to stop() there is exactly one link of the chain: it neither
\* breaks, which would end the listing for good, nor forks, which would
\* multiply the requests (schedule_next_ping at the end of every callback).
ChainHolds == IF active THEN Chain = 1 ELSE Chain <= 1

\* The client calls itself registered exactly under an id the directory gave
\* it, and a ping is only sent under such an id (registered_ and server_id_
\* are two variables, written by one callback and read by the next).
RegisteredHasId ==
    /\ registered <=> serverId # None
    /\ \A r \in requests : r.kind = "ping" => r.id # None

Waiting == \E r \in requests : r.silent
=============================================================================
