---------------------------- MODULE ServerProofs ----------------------------
(***************************************************************************)
(* Proofs about Server and its directory client, for any number of threads *)
(* and any ids the directory hands out.                                    *)
(***************************************************************************)
EXTENDS Server, FiniteSetTheorems, TLAPS

-----------------------------------------------------------------------------
(* The directory client.  Without a request, a reply or a handler it is    *)
(* the timer's turn; otherwise there is one of them and the timer is off.  *)
Quiet == requests = {} /\ replies = {} /\ handlers = {}

OneLink ==
    \/ Quiet /\ (active => timer # "off")
    \/ timer = "off" /\ (\E r \in Request : requests = {r}) /\ replies = {} /\ handlers = {}
    \/ timer = "off" /\ requests = {} /\ (\E r \in Reply : replies = {r}) /\ handlers = {}
    \/ timer = "off" /\ requests = {} /\ replies = {} /\ (\E k \in Step : handlers = {k})

(* A ping is on its way only under an id, which nothing takes away         *)
(* meanwhile; a registration that succeeded brings one.                    *)
Named ==
    /\ registered <=> serverId # None
    /\ \A r \in requests : r.kind = "ping" => r.id # None
    /\ "ping" \in handlers => registered
    /\ \A r \in replies : r.kind = "register" /\ r.result = "ok" => r.id # None

Client == DirectoryTypeOK /\ OneLink /\ Named

LEMMA PostIs ==
  ASSUME DirectoryTypeOK, NEW kind \in {"register", "ping"}, Post(kind), requests = {},
         kind = "ping" => serverId # None
  PROVE  \E r \in Request : requests' = {r} /\ (r.kind = "ping" => r.id # None)
<1> DEFINE r == [kind |-> kind, silent |-> FALSE, id |-> IF kind = "ping" THEN serverId ELSE None]
<1>1. r \in Request
  BY DEF Request, DirectoryTypeOK
<1>2. requests' = {r}
  BY DEF Post
<1>3. r.kind = "ping" => r.id # None
  OBVIOUS
<1> QED BY <1>1, <1>2, <1>3

LEMMA StartClient ==
  ASSUME Client, Quiet, timer = "off", Start
  PROVE  Client'
<1>1. PICK r \in Request : requests' = {r} /\ (r.kind = "ping" => r.id # None)
  BY PostIs DEF Start, Client, Quiet
<1> QED BY <1>1 DEF Client, DirectoryTypeOK, OneLink, Named, Quiet, Start

LEMMA TimerClient ==
  ASSUME Client, TimerElapses \/ TimerHandler
  PROVE  Client'
<1>1. CASE TimerElapses
  BY <1>1 DEF Client, DirectoryTypeOK, OneLink, Named, Quiet, TimerElapses
<1>2. CASE TimerHandler
  <2> DEFINE k == IF registered THEN "ping" ELSE "register"
  <2>1. Quiet /\ timer' = "off" /\ UNCHANGED <<active, registered, serverId, requests, replies, reachable, known>>
        /\ (handlers' = {k} \/ (~active /\ handlers' = {}))
    BY <1>2 DEF Client, OneLink, Quiet, TimerHandler
  <2>2. k \in Step /\ (k = "ping" => registered)
    BY DEF Step
  <2> HIDE DEF k
  <2>3. DirectoryTypeOK'
    BY <2>1, <2>2 DEF Client, DirectoryTypeOK
  <2>4. OneLink'
    BY <2>1, <2>2 DEF OneLink, Quiet
  <2>5. Named'
    <3>1. "ping" \in handlers' => registered'
      BY <2>1, <2>2
    <3>2. UNCHANGED <<registered, serverId, requests, replies>>
      BY <2>1, <1>2 DEF TimerHandler
    <3> QED BY <3>1, <3>2 DEF Client, Named
  <2> QED BY <2>3, <2>4, <2>5 DEF Client
<1> QED BY <1>1, <1>2

LEMMA StopClient ==
  ASSUME Client, Stop \/ (CancelTimer /\ ~active)
  PROVE  Client'
<1>1. /\ UNCHANGED <<registered, serverId, requests, replies, handlers, reachable, known>>
      /\ active' \in BOOLEAN /\ ~active'
      /\ timer' \in {timer, "off"}
  <2>1. CASE Stop
    BY <2>1 DEF Stop
  <2>2. CASE CancelTimer /\ ~active
    <3>1. active' = active /\ active \in BOOLEAN
      BY <2>2 DEF CancelTimer, Client, DirectoryTypeOK
    <3>2. timer' \in {timer, "off"}
      BY <2>2 DEF CancelTimer
    <3>3. UNCHANGED <<registered, serverId, requests, replies, handlers, reachable, known>>
      BY <2>2 DEF CancelTimer
    <3> QED BY <2>2, <3>1, <3>2, <3>3
  <2> QED BY <2>1, <2>2
<1>2. DirectoryTypeOK'
  BY <1>1 DEF Client, DirectoryTypeOK
<1>3. OneLink'
  BY <1>1 DEF Client, OneLink, Quiet
<1>4. Named'
  BY <1>1 DEF Client, Named
<1> QED BY <1>2, <1>3, <1>4 DEF Client

LEMMA FinishClient ==
  ASSUME Client, DirectoryFinishes
  PROVE  Client'
<1>1. CASE ScheduleNextPing
  <2>1. requests = {} /\ replies = {} /\ handlers = {"schedule"} /\ handlers' = {} /\ timer = "off"
    BY <1>1 DEF ScheduleNextPing, Client, OneLink, Quiet
  <2> QED BY <1>1, <2>1 DEF ScheduleNextPing, Client, DirectoryTypeOK, OneLink, Named, Quiet
<1>2. ASSUME NEW kind \in {"register", "ping"}, SendRequest(kind) PROVE Client'
  <2>1. requests = {} /\ replies = {} /\ handlers = {kind} /\ handlers' = {} /\ timer = "off"
    BY <1>2 DEF SendRequest, Client, OneLink, Quiet
  <2>2. kind = "ping" => serverId # None
    BY <2>1 DEF Client, Named
  <2>3. CASE Post(kind)
    <3>1. PICK r \in Request : requests' = {r} /\ (r.kind = "ping" => r.id # None)
      BY <2>1, <2>2, <2>3, PostIs DEF Client
    <3> QED BY <1>2, <2>1, <3>1 DEF SendRequest, Client, DirectoryTypeOK, OneLink, Named, Quiet
  <2>4. CASE ~active /\ UNCHANGED requests
    BY <1>2, <2>1, <2>4 DEF SendRequest, Client, DirectoryTypeOK, OneLink, Named, Quiet
  <2> QED BY <1>2, <2>3, <2>4 DEF SendRequest
<1> QED BY <1>1, <1>2 DEF DirectoryFinishes

LEMMA ReplyClient ==
  ASSUME Client, NEW r \in Reply, ReplyHandler(r)
  PROVE  Client'
<1> USE DirectoryAssumption
<1>1. /\ requests = {} /\ replies = {r} /\ handlers = {} /\ replies' = {} /\ timer = "off"
      /\ UNCHANGED <<active, timer, requests, reachable, known>>
  BY DEF ReplyHandler, Client, OneLink, Quiet
<1>2. r.id \in ServerId \cup {None}
  BY DEF Reply
<1>3. /\ ~active => handlers' = {} /\ UNCHANGED <<registered, serverId>>
      /\ active => handlers' = {"schedule"}
  BY <1>1 DEF ReplyHandler
<1>4. \/ UNCHANGED <<registered, serverId>>
      \/ registered' = TRUE /\ serverId' = r.id /\ r.id # None
      \/ registered' = FALSE /\ serverId' = None
  BY <1>1 DEF ReplyHandler, Client, Named
<1>5. DirectoryTypeOK'
  BY <1>1, <1>2, <1>3, <1>4 DEF Client, DirectoryTypeOK, Step
<1>6. OneLink'
  BY <1>1, <1>3 DEF OneLink, Quiet, Step
<1>7. Named'
  BY <1>1, <1>3, <1>4 DEF Client, Named
<1> QED BY <1>5, <1>6, <1>7 DEF Client

LEMMA EndClient ==
  ASSUME Client, RequestEnds
  PROVE  Client'
<1> USE DirectoryAssumption
<1>1. PICK r \in Request, result \in Result, id \in ServerId \cup {None} :
         /\ r \in requests /\ Completes(r, result, id)
         /\ known' \subseteq ServerId
         /\ r.kind = "register" /\ result = "ok" => id # None
  <2>1. ASSUME NEW r \in Request, Answer(r) \/ RequestFails(r)
        PROVE  \E result \in Result, id \in ServerId \cup {None} :
                 /\ r \in requests /\ Completes(r, result, id)
                 /\ known' \subseteq ServerId
                 /\ r.kind = "register" /\ result = "ok" => id # None
    <3>1. CASE RequestFails(r)
      BY <3>1 DEF RequestFails, Result, Client, DirectoryTypeOK
    <3>2. CASE Answer(r) /\ r.kind = "register"
      BY <3>2 DEF Answer, Result, Client, DirectoryTypeOK
    <3>3. CASE Answer(r) /\ r.kind = "ping"
      BY <3>3 DEF Answer, Result, Client, DirectoryTypeOK
    <3> QED BY <2>1, <3>1, <3>2, <3>3 DEF Answer
  <2> QED BY <2>1 DEF RequestEnds
<1> DEFINE q == [kind |-> r.kind, result |-> result, id |-> id]
<1>2. q \in Reply /\ (q.kind = "register" /\ q.result = "ok" => q.id # None)
  BY <1>1 DEF Reply, Request
<1>3. /\ timer = "off" /\ requests' = {} /\ replies' = {q} /\ handlers = {} /\ handlers' = {}
      /\ UNCHANGED <<active, registered, serverId, timer, reachable>>
  BY <1>1 DEF Completes, Client, OneLink, Quiet
<1> HIDE DEF q
<1> QED BY <1>1, <1>2, <1>3 DEF Client, DirectoryTypeOK, OneLink, Named, Quiet

LEMMA EnvironmentClient ==
  ASSUME Client, DirectoryEnvironment
  PROVE  Client'
<1>1. CASE DirectoryLost \/ DirectoryBack
  <2>1. /\ UNCHANGED <<active, registered, serverId, timer, requests, replies, handlers>>
        /\ reachable' \in BOOLEAN /\ known' \subseteq ServerId
    BY <1>1 DEF DirectoryLost, DirectoryBack, Client, DirectoryTypeOK
  <2>2. DirectoryTypeOK'
    BY <2>1 DEF Client, DirectoryTypeOK
  <2>3. OneLink'
    BY <2>1 DEF Client, OneLink, Quiet
  <2>4. Named'
    BY <2>1 DEF Client, Named
  <2> QED BY <2>2, <2>3, <2>4 DEF Client
<1>2. ASSUME NEW r \in Request, RequestFallsSilent(r) PROVE Client'
  <2> DEFINE q == [r EXCEPT !.silent = TRUE]
  <2>1. q \in Request /\ q.kind = r.kind /\ q.id = r.id
    BY DEF Request
  <2>2. /\ timer = "off" /\ requests = {r} /\ requests' = {q} /\ replies = {} /\ handlers = {}
        /\ UNCHANGED <<active, registered, serverId, timer, replies, handlers, reachable, known>>
    BY <1>2 DEF RequestFallsSilent, Client, OneLink, Quiet
  <2> HIDE DEF q
  <2>3. DirectoryTypeOK'
    BY <2>1, <2>2 DEF Client, DirectoryTypeOK
  <2>4. OneLink'
    BY <2>1, <2>2 DEF OneLink
  <2>5. Named'
    BY <2>1, <2>2 DEF Client, Named
  <2> QED BY <2>3, <2>4, <2>5 DEF Client
<1> QED BY <1>1, <1>2 DEF DirectoryEnvironment

LEMMA ClientSuffices == Client => ChainHolds /\ RegisteredHasId
<1> SUFFICES ASSUME Client PROVE ChainHolds /\ RegisteredHasId
  OBVIOUS
<1>1. Cardinality({}) = 0 /\ \A x : Cardinality({x}) = 1
  BY FS_EmptySet, FS_Singleton
<1>2. ChainHolds
  <2> DEFINE turn == IF timer = "off" THEN 0 ELSE 1
  <2>1. turn \in {0, 1} /\ (timer = "off" => turn = 0) /\ (timer # "off" => turn = 1)
    OBVIOUS
  <2>2. Chain = Cardinality(requests) + Cardinality(replies) + Cardinality(handlers) + turn
    BY DEF Chain
  <2> HIDE DEF turn
  <2>3. CASE Quiet /\ (active => timer # "off")
    <3>1. Cardinality(requests) = 0 /\ Cardinality(replies) = 0 /\ Cardinality(handlers) = 0
      BY <1>1, <2>3 DEF Quiet
    <3> QED BY <2>1, <2>2, <2>3, <3>1 DEF ChainHolds
  <2>4. CASE timer = "off" /\ (\E r \in Request : requests = {r}) /\ replies = {} /\ handlers = {}
    <3>1. Cardinality(requests) = 1 /\ Cardinality(replies) = 0 /\ Cardinality(handlers) = 0
      BY <1>1, <2>4
    <3> QED BY <2>1, <2>2, <2>4, <3>1 DEF ChainHolds
  <2>5. CASE timer = "off" /\ requests = {} /\ (\E r \in Reply : replies = {r}) /\ handlers = {}
    <3>1. Cardinality(requests) = 0 /\ Cardinality(replies) = 1 /\ Cardinality(handlers) = 0
      BY <1>1, <2>5
    <3> QED BY <2>1, <2>2, <2>5, <3>1 DEF ChainHolds
  <2>6. CASE timer = "off" /\ requests = {} /\ replies = {} /\ (\E k \in Step : handlers = {k})
    <3>1. Cardinality(requests) = 0 /\ Cardinality(replies) = 0 /\ Cardinality(handlers) = 1
      BY <1>1, <2>6
    <3> QED BY <2>1, <2>2, <2>6, <3>1 DEF ChainHolds
  <2> QED BY <2>3, <2>4, <2>5, <2>6 DEF Client, OneLink
<1>3. RegisteredHasId
  BY DEF Client, Named, RegisteredHasId
<1> QED BY <1>2, <1>3

-----------------------------------------------------------------------------
(* The server.  Who shuts down, and how far main is meanwhile.             *)
Pooled   == shut.during \in {"pooled", "waiting"}
Threaded == {"waiting", "left", "gone"}

Shutting ==
    /\ running <=> shut.at = "none" /\ main # "built"
    /\ main = "built" => shut.at = "none"
    /\ shut.at = "none" => shut.by = None /\ shut.during = "built"
    /\ shut.at # "none" => shut.by \in Thread
    /\ shut.by \in Worker => Pooled /\ shut.at # "done"
    /\ shut.by = Tui => shut.during = "waiting" /\ shut.at \in {"directory", "timers", "tui"}
    /\ Pooled => main \in {"pooled", "waiting", "left", "gone"}
    /\ shut.during = "waiting" => main \in Threaded
    /\ shut.by = Main /\ shut.at # "done" => main = shut.during
    /\ main \in {"left", "gone"} => shut.at # "none" /\ (shut.by = Main => shut.at = "done")

(* The threads: a shutdown() on one of them keeps it, one on the main      *)
(* thread has joined them all if they were there when it began.            *)
Pools ==
    /\ \A w \in Worker : pool[w] = "none" <=> main \in {"built", "installed", "started"}
    /\ \A w \in Worker : pool[w] = "joined" => shut.at \in {"join", "done"}
    /\ shut.by \in Worker => pool[shut.by] \notin {"none", "returned", "joined"}
    /\ shut.by = Main /\ Pooled /\ shut.at = "done" => \A w \in Worker : pool[w] = "joined"
    /\ shut.by = Main /\ ~Pooled => \A w \in Worker : pool[w] # "joined"

(* The console: its thread, if there is to be one, exists once main waits, *)
(* and a shutdown() that began then joins it first.                        *)
Consoles ==
    /\ tui = "none" => main \notin Threaded
    /\ tui \in {"running", "ended", "joined"} => main \in Threaded
    /\ shut.during = "waiting" /\ shut.at \notin {"directory", "timers", "tui"} => tui \in {"off", "joined"}
    /\ shut.by = Main /\ shut.during # "waiting" => tui # "joined"

(* What shutdown() has stopped stays stopped.                              *)
Closed ==
    /\ shut.at \in {"sessions", "stop", "join", "done"} => listenerDown
    /\ listenerDown => early \/ shut.at \in {"sessions", "stop", "join", "done"}
    /\ shut.at \in {"timers", "tui", "listener", "sessions", "stop", "join"} => ~active
    /\ Pooled /\ shut.at = "done" => ~active

(* Before StartServices there is nothing of the directory client.          *)
Unstarted == main \in {"built", "installed"} => Quiet /\ timer = "off" /\ ~active

(* The periodic timers: the cleanup timer from Install on, the one of the  *)
(* console once main waits.                                                *)
OnePeriodic(p) ==
    /\ p \in armed => \A w \in Worker : pool[w] # p
    /\ \A w, v \in Worker : pool[w] = p /\ pool[v] = p => w = v
    /\ running /\ main = "waiting" => p \in armed \/ \E w \in Worker : pool[w] = p

Periodics ==
    /\ \A p \in Periodic : OnePeriodic(p)
    /\ main \in {"installed", "started"} => "cleanup" \in armed
    /\ running /\ main = "pooled" => "cleanup" \in armed \/ \E w \in Worker : pool[w] = "cleanup"
    /\ main \notin Threaded => "state" \notin armed /\ \A w \in Worker : pool[w] # "state"

Life == TypeOK /\ Shutting /\ Pools /\ Consoles /\ Closed

(* Steps that only move a thread of the pool, or nothing of the server.    *)
WorkerMoves(w) ==
    /\ UNCHANGED <<running, tui, main, shut, early, listenerDown, ended, active>>
    /\ pool[w] \in Job \cup {"idle"}
    /\ \E x \in Job \cup {"idle", "returned"} :
          pool' = [pool EXCEPT ![w] = x] /\ (x = "returned" => ~InShutdown(w))

Still == UNCHANGED <<running, pool, tui, main, shut, early, listenerDown, ended, active>>

LEMMA ShutIs ==
  ASSUME TypeOK, NEW from \in ShutStep, NEW to \in ShutStep, Shuts(from, to)
  PROVE  /\ shut.at = from /\ shut'.at = to /\ shut'.by = shut.by /\ shut'.during = shut.during
         /\ UNCHANGED <<running, main, early>>
         /\ shut' \in [by : Thread \cup {None}, at : ShutStep, during : Stage]
  BY DEF Shuts, TypeOK

LEMMA BeginIs ==
  ASSUME NEW t \in Thread, BeginShutdown(t)
  PROVE  ~running' /\ shut'.by = t /\ shut'.at = "directory" /\ shut'.during = main
  BY DEF BeginShutdown

LEMMA WorkerStep ==
  ASSUME TypeOK, NEW w \in Worker,
         \/ LockSessions(w) \/ DirectoryBegins(w) \/ WorkerEnds(w)
         \/ \E p \in Periodic : PeriodicBegins(w, p)
  PROVE  WorkerMoves(w)
<1>1. CASE DirectoryBegins(w)
  <2>1. active' = active
    BY <1>1 DEF DirectoryBegins, DirectoryHandler, TimerHandler, ReplyHandler
  <2>2. pool' = [pool EXCEPT ![w] = "directory"] \/ pool' = [pool EXCEPT ![w] = "idle"]
    BY <1>1 DEF DirectoryBegins, Takes, TypeOK
  <2> QED BY <1>1, <2>1, <2>2 DEF DirectoryBegins, Takes, WorkerMoves, Job
<1>2. CASE DirectoryEnds(w)
  <2>1. active' = active
    BY <1>2 DEF DirectoryEnds, DirectoryFinishes, SendRequest, ScheduleNextPing
  <2> QED BY <1>2, <2>1 DEF DirectoryEnds, WorkerMoves, Job
<1>3. ASSUME NEW p \in Periodic, PeriodicFinishes(w, p) PROVE WorkerMoves(w)
  BY <1>3 DEF PeriodicFinishes, WorkerMoves, Job, directoryVars
<1>4. CASE ReturnFromRun(w)
  BY <1>4 DEF ReturnFromRun, WorkerMoves, directoryVars
<1>5. ASSUME NEW p \in Periodic, PeriodicBegins(w, p) PROVE WorkerMoves(w)
  <2>1. pool' = [pool EXCEPT ![w] = p] \/ pool' = [pool EXCEPT ![w] = "idle"]
    BY <1>5 DEF PeriodicBegins, Takes, TypeOK
  <2> QED BY <1>5, <2>1 DEF PeriodicBegins, Takes, WorkerMoves, Job, directoryVars
<1>6. CASE LockSessions(w)
  <2>1. pool' = [pool EXCEPT ![w] = "session"] \/ pool' = [pool EXCEPT ![w] = "state"]
    BY <1>6 DEF LockSessions, TypeOK
  <2> QED BY <1>6, <2>1 DEF LockSessions, Takes, WorkerMoves, Job, Periodic, directoryVars
<1>7. CASE UnlockSessions(w) \/ DisconnectAll(w)
  BY <1>7 DEF UnlockSessions, DisconnectAll, WorkerMoves, Job, directoryVars
<1> QED BY <1>1, <1>2, <1>3, <1>4, <1>5, <1>6, <1>7 DEF WorkerEnds

LEMMA StillStep ==
  ASSUME Reactor \/ Environment \/ UNCHANGED vars
  PROVE  Still
<1>1. CASE Reactor
  BY <1>1 DEF Reactor, TimerElapses, RequestEnds, Answer, RequestFails, Completes, Still, serverVars
<1>2. CASE Environment
  BY <1>2 DEF Environment, DirectoryEnvironment, DirectoryLost, DirectoryBack, RequestFallsSilent,
              Still, serverVars
<1>3. CASE UNCHANGED vars
  BY <1>3 DEF vars, serverVars, directoryVars, Still
<1> QED BY <1>1, <1>2, <1>3

(* The directory client runs as it does alone; start() finds it untouched, *)
(* and its timer is cancelled when it has stopped.                         *)
LEMMA ClientStep ==
  ASSUME Life, Unstarted, Client, [Next]_vars
  PROVE  Client'
<1>1. CASE UNCHANGED directoryVars
  BY <1>1 DEF directoryVars, Client, DirectoryTypeOK, OneLink, Named, Quiet
<1>2. CASE StartServices
  BY <1>1, <1>2, StartClient DEF StartServices, Unstarted
<1>3. CASE ShutDirectory
  BY <1>1, <1>3, StopClient DEF ShutDirectory
<1>4. CASE ShutTimers
  <2>1. ~active
    BY <1>4, ShutIs DEF ShutTimers, Life, Closed, ShutStep
  <2> QED BY <1>4, <2>1, StopClient DEF ShutTimers
<1>5. CASE Reactor
  BY <1>5, TimerClient, EndClient DEF Reactor
<1>6. CASE Environment
  BY <1>6, EnvironmentClient DEF Environment
<1>7. ASSUME NEW w \in Worker, DirectoryBegins(w) PROVE Client'
  BY <1>7, TimerClient, ReplyClient DEF DirectoryBegins, DirectoryHandler
<1>8. ASSUME NEW w \in Worker, DirectoryEnds(w) PROVE Client'
  BY <1>8, FinishClient DEF DirectoryEnds
<1>9. ASSUME NEW w \in Worker,
             \/ JoinThread(w) \/ ListenerOnSignal(w) \/ AdminShutdown(w) \/ ReturnFromRun(w)
             \/ LockSessions(w) \/ UnlockSessions(w) \/ DisconnectAll(w)
             \/ \E p \in Periodic : PeriodicBegins(w, p) \/ PeriodicFinishes(w, p)
      PROVE  UNCHANGED directoryVars
  BY <1>9 DEF JoinThread, ListenerOnSignal, AdminShutdown, ReturnFromRun, LockSessions, UnlockSessions,
              DisconnectAll, PeriodicBegins, PeriodicFinishes
<1>10. ASSUME \/ Install \/ CreatePool \/ StartConsole \/ Leave \/ Destroy \/ EarlySignal \/ TuiQuits
              \/ JoinTui \/ ShutListener \/ ShutSessions \/ StopIo \/ ShutdownComplete
              \/ UNCHANGED vars \/ \E t \in Thread : Signal(t)
       PROVE  UNCHANGED directoryVars
  BY <1>10 DEF Install, CreatePool, StartConsole, Leave, Destroy, EarlySignal, TuiQuits, JoinTui, ShutListener,
               ShutSessions, StopIo, ShutdownComplete, vars, Signal
<1> QED BY <1>1, <1>2, <1>3, <1>4, <1>5, <1>6, <1>7, <1>8, <1>9, <1>10
        DEF Next, MainStep, ShutdownStep, WorkerEnds

LEMMA BeginShutting ==
  ASSUME Life, NEW t \in Thread, running, BeginShutdown(t), UNCHANGED main,
         t \in Worker => pool[t] # "none", t = Tui => tui = "running"
  PROVE  Shutting'
<1> USE ServerAssumption DEF Pooled, Threaded
<1>1. ~running' /\ shut'.by = t /\ shut'.at = "directory" /\ shut'.during = main
  BY BeginIs
<1>2. main \in {"installed", "started", "pooled", "waiting"}
  BY DEF Life, TypeOK, Stage, Shutting
<1>3. t \in Worker => main \in {"pooled", "waiting"}
  BY <1>2 DEF Life, Pools
<1>4. t = Tui => main = "waiting"
  BY <1>2 DEF Life, Consoles
<1> QED BY <1>1, <1>2, <1>3, <1>4 DEF Shutting, Thread

LEMMA ShuttingStep ==
  ASSUME Life, [Next]_vars
  PROVE  Shutting'
<1> USE ServerAssumption DEF Pooled, Threaded
<1>1. CASE Install
  BY <1>1 DEF Install, Life, TypeOK, Shutting, Pools, Consoles, InShutdown
<1>2. CASE StartServices
  BY <1>2 DEF StartServices, Start, Thread, Life, TypeOK, Shutting, Pools, Consoles, InShutdown
<1>3. CASE CreatePool
  BY <1>3 DEF CreatePool, Life, TypeOK, Shutting, Pools, Consoles, InShutdown
<1>4. CASE StartConsole
  BY <1>4 DEF StartConsole, Thread, Life, TypeOK, Shutting, Pools, Consoles, InShutdown
<1>5. CASE Leave
  BY <1>5 DEF Leave, Life, TypeOK, Shutting, Pools, Consoles, InShutdown
<1>6. CASE Destroy
  BY <1>6 DEF Destroy, PoolJoined, Thread, Life, TypeOK, Shutting, Pools, Consoles, InShutdown
<1>7. CASE ShutDirectory
  BY <1>7, ShutIs DEF ShutDirectory, ShutStep, Stop, Life, TypeOK, Shutting, Pools, Consoles, InShutdown
<1>8. CASE ShutTimers
  BY <1>8, ShutIs DEF ShutTimers, ShutStep, CancelTimer, Life, TypeOK, Shutting, Pools, Consoles, InShutdown
<1>9. CASE JoinTui
  BY <1>9 DEF JoinTui, Thread, Life, TypeOK, Shutting, Pools, Consoles, InShutdown
<1>10. CASE ShutListener
  BY <1>10, ShutIs DEF ShutListener, ShutStep, Life, TypeOK, Shutting, Pools, Consoles, InShutdown
<1>11. CASE ShutSessions
  BY <1>11, ShutIs DEF ShutSessions, ShutStep, Life, TypeOK, Shutting, Pools, Consoles, InShutdown
<1>12. CASE StopIo
  BY <1>12, ShutIs DEF StopIo, ShutStep, Life, TypeOK, Shutting, Pools, Consoles, InShutdown
<1>13. CASE ShutdownComplete
  BY <1>13, ShutIs DEF ShutdownComplete, ShutStep, PoolJoined, Thread, Life, TypeOK, Shutting, Pools, Consoles, InShutdown
<1>14. CASE EarlySignal
  BY <1>14 DEF EarlySignal, Life, TypeOK, Shutting, Pools, Consoles, InShutdown
<1>15. CASE TuiQuits
  BY <1>15 DEF TuiQuits, Life, TypeOK, Shutting, Pools, Consoles, InShutdown
<1>16. ASSUME NEW w \in Worker, JoinThread(w) PROVE Shutting'
  BY <1>16 DEF JoinThread, Thread, Life, TypeOK, Shutting, Pools, Consoles, InShutdown
<1>17. ASSUME NEW t \in Thread, Signal(t) PROVE Shutting'
  BY <1>17, BeginShutting DEF Signal
<1>18. ASSUME NEW w \in Worker, AdminShutdown(w) PROVE Shutting'
  BY <1>18, BeginShutting DEF AdminShutdown, Takes, Thread
<1>19. ASSUME NEW w \in Worker, ListenerOnSignal(w) PROVE Shutting'
  BY <1>19 DEF ListenerOnSignal, Takes, Life, TypeOK, Shutting, Pools, Consoles, InShutdown
<1>20. ASSUME NEW w \in Worker, WorkerMoves(w) PROVE Shutting'
  BY <1>20 DEF WorkerMoves, Life, TypeOK, Shutting, Pools, Consoles, InShutdown, Job, Periodic
<1>21. CASE Still
  BY <1>21 DEF Still, Life, TypeOK, Shutting, Pools, Consoles, InShutdown
<1> QED BY <1>1, <1>2, <1>3, <1>4, <1>5, <1>6, <1>7, <1>8, <1>9, <1>10, <1>11,
           <1>12, <1>13, <1>14, <1>15, <1>16, <1>17, <1>18, <1>19, <1>20, <1>21,
           WorkerStep, StillStep DEF Life, Next, MainStep, ShutdownStep

LEMMA PoolsStep ==
  ASSUME Life, [Next]_vars
  PROVE  Pools'
<1> USE ServerAssumption DEF Pooled, Threaded
<1>1. CASE Install
  BY <1>1 DEF Install, Life, TypeOK, Shutting, Pools, Consoles, InShutdown
<1>2. CASE StartServices
  BY <1>2 DEF StartServices, Start, Thread, Life, TypeOK, Shutting, Pools, Consoles, InShutdown
<1>3. CASE CreatePool
  BY <1>3 DEF CreatePool, Life, TypeOK, Shutting, Pools, Consoles, InShutdown
<1>4. CASE StartConsole
  BY <1>4 DEF StartConsole, Thread, Life, TypeOK, Shutting, Pools, Consoles, InShutdown
<1>5. CASE Leave
  BY <1>5 DEF Leave, Life, TypeOK, Shutting, Pools, Consoles, InShutdown
<1>6. CASE Destroy
  BY <1>6 DEF Destroy, PoolJoined, Thread, Life, TypeOK, Shutting, Pools, Consoles, InShutdown
<1>7. CASE ShutDirectory
  BY <1>7, ShutIs DEF ShutDirectory, ShutStep, Stop, Life, TypeOK, Shutting, Pools, Consoles, InShutdown
<1>8. CASE ShutTimers
  BY <1>8, ShutIs DEF ShutTimers, ShutStep, CancelTimer, Life, TypeOK, Shutting, Pools, Consoles, InShutdown
<1>9. CASE JoinTui
  BY <1>9 DEF JoinTui, Thread, Life, TypeOK, Shutting, Pools, Consoles, InShutdown
<1>10. CASE ShutListener
  BY <1>10, ShutIs DEF ShutListener, ShutStep, Life, TypeOK, Shutting, Pools, Consoles, InShutdown
<1>11. CASE ShutSessions
  BY <1>11, ShutIs DEF ShutSessions, ShutStep, Life, TypeOK, Shutting, Pools, Consoles, InShutdown
<1>12. CASE StopIo
  BY <1>12, ShutIs DEF StopIo, ShutStep, Life, TypeOK, Shutting, Pools, Consoles, InShutdown
<1>13. CASE ShutdownComplete
  BY <1>13, ShutIs DEF ShutdownComplete, ShutStep, PoolJoined, Thread, Life, TypeOK, Shutting, Pools, Consoles, InShutdown
<1>14. CASE EarlySignal
  BY <1>14 DEF EarlySignal, Life, TypeOK, Shutting, Pools, Consoles, InShutdown
<1>15. CASE TuiQuits
  BY <1>15 DEF TuiQuits, Life, TypeOK, Shutting, Pools, Consoles, InShutdown
<1>16. ASSUME NEW w \in Worker, JoinThread(w) PROVE Pools'
  <2>1. shut.at = "join" /\ UNCHANGED <<shut, main>>
    BY <1>16 DEF JoinThread
  <2>2. \/ UNCHANGED pool
        \/ pool[w] = "returned" /\ pool'[w] = "joined" /\ \A v \in Worker : v # w => pool'[v] = pool[v]
    BY <1>16 DEF JoinThread, Life, TypeOK
  <2>3. shut.by = Main /\ ~Pooled => main \in {"installed", "started"}
    BY <2>1 DEF Life, TypeOK, Stage, Shutting
  <2> QED BY <2>1, <2>2, <2>3 DEF Life, Pools
<1>17. ASSUME NEW t \in Thread, Signal(t) PROVE Pools'
  BY <1>17, BeginIs DEF Signal, Thread, Life, TypeOK, Shutting, Pools, Consoles, InShutdown
<1>18. ASSUME NEW w \in Worker, AdminShutdown(w) PROVE Pools'
  BY <1>18, BeginIs DEF AdminShutdown, Takes, Thread, Life, TypeOK, Shutting, Pools, Consoles, InShutdown
<1>19. ASSUME NEW w \in Worker, ListenerOnSignal(w) PROVE Pools'
  BY <1>19 DEF ListenerOnSignal, Takes, Life, TypeOK, Shutting, Pools, Consoles, InShutdown
<1>20. ASSUME NEW w \in Worker, WorkerMoves(w) PROVE Pools'
  BY <1>20 DEF WorkerMoves, Life, TypeOK, Shutting, Pools, Consoles, InShutdown, Job, Periodic
<1>21. CASE Still
  BY <1>21 DEF Still, Life, TypeOK, Shutting, Pools, Consoles, InShutdown
<1> QED BY <1>1, <1>2, <1>3, <1>4, <1>5, <1>6, <1>7, <1>8, <1>9, <1>10, <1>11,
           <1>12, <1>13, <1>14, <1>15, <1>16, <1>17, <1>18, <1>19, <1>20, <1>21,
           WorkerStep, StillStep DEF Life, Next, MainStep, ShutdownStep

LEMMA ConsolesStep ==
  ASSUME Life, [Next]_vars
  PROVE  Consoles'
<1> USE ServerAssumption DEF Pooled, Threaded
<1>1. CASE Install
  BY <1>1 DEF Install, Life, TypeOK, Shutting, Pools, Consoles, InShutdown
<1>2. CASE StartServices
  BY <1>2 DEF StartServices, Start, Thread, Life, TypeOK, Shutting, Pools, Consoles, InShutdown
<1>3. CASE CreatePool
  BY <1>3 DEF CreatePool, Life, TypeOK, Shutting, Pools, Consoles, InShutdown
<1>4. CASE StartConsole
  BY <1>4 DEF StartConsole, Thread, Life, TypeOK, Shutting, Pools, Consoles, InShutdown
<1>5. CASE Leave
  BY <1>5 DEF Leave, Life, TypeOK, Shutting, Pools, Consoles, InShutdown
<1>6. CASE Destroy
  BY <1>6 DEF Destroy, PoolJoined, Thread, Life, TypeOK, Shutting, Pools, Consoles, InShutdown
<1>7. CASE ShutDirectory
  BY <1>7, ShutIs DEF ShutDirectory, ShutStep, Stop, Life, TypeOK, Shutting, Pools, Consoles, InShutdown
<1>8. CASE ShutTimers
  BY <1>8, ShutIs DEF ShutTimers, ShutStep, CancelTimer, Life, TypeOK, Shutting, Pools, Consoles, InShutdown
<1>9. CASE JoinTui
  BY <1>9 DEF JoinTui, Thread, Life, TypeOK, Shutting, Pools, Consoles, InShutdown
<1>10. CASE ShutListener
  BY <1>10, ShutIs DEF ShutListener, ShutStep, Life, TypeOK, Shutting, Pools, Consoles, InShutdown
<1>11. CASE ShutSessions
  BY <1>11, ShutIs DEF ShutSessions, ShutStep, Life, TypeOK, Shutting, Pools, Consoles, InShutdown
<1>12. CASE StopIo
  BY <1>12, ShutIs DEF StopIo, ShutStep, Life, TypeOK, Shutting, Pools, Consoles, InShutdown
<1>13. CASE ShutdownComplete
  BY <1>13, ShutIs DEF ShutdownComplete, ShutStep, PoolJoined, Thread, Life, TypeOK, Shutting, Pools, Consoles, InShutdown
<1>14. CASE EarlySignal
  BY <1>14 DEF EarlySignal, Life, TypeOK, Shutting, Pools, Consoles, InShutdown
<1>15. CASE TuiQuits
  BY <1>15 DEF TuiQuits, Life, TypeOK, Shutting, Pools, Consoles, InShutdown
<1>16. ASSUME NEW w \in Worker, JoinThread(w) PROVE Consoles'
  BY <1>16 DEF JoinThread, Thread, Life, TypeOK, Shutting, Pools, Consoles, InShutdown
<1>17. ASSUME NEW t \in Thread, Signal(t) PROVE Consoles'
  BY <1>17, BeginIs DEF Signal, Thread, Life, TypeOK, Shutting, Pools, Consoles, InShutdown
<1>18. ASSUME NEW w \in Worker, AdminShutdown(w) PROVE Consoles'
  BY <1>18, BeginIs DEF AdminShutdown, Takes, Thread, Life, TypeOK, Shutting, Pools, Consoles, InShutdown
<1>19. ASSUME NEW w \in Worker, ListenerOnSignal(w) PROVE Consoles'
  BY <1>19 DEF ListenerOnSignal, Takes, Life, TypeOK, Shutting, Pools, Consoles, InShutdown
<1>20. ASSUME NEW w \in Worker, WorkerMoves(w) PROVE Consoles'
  BY <1>20 DEF WorkerMoves, Life, TypeOK, Shutting, Pools, Consoles, InShutdown, Job, Periodic
<1>21. CASE Still
  BY <1>21 DEF Still, Life, TypeOK, Shutting, Pools, Consoles, InShutdown
<1> QED BY <1>1, <1>2, <1>3, <1>4, <1>5, <1>6, <1>7, <1>8, <1>9, <1>10, <1>11,
           <1>12, <1>13, <1>14, <1>15, <1>16, <1>17, <1>18, <1>19, <1>20, <1>21,
           WorkerStep, StillStep DEF Life, Next, MainStep, ShutdownStep

LEMMA ClosedStep ==
  ASSUME Life, [Next]_vars
  PROVE  Closed'
<1> USE ServerAssumption DEF Pooled, Threaded
<1>1. CASE Install
  BY <1>1 DEF Install, Life, TypeOK, Shutting, Pools, Consoles, Closed, InShutdown, directoryVars
<1>2. CASE StartServices
  BY <1>2 DEF StartServices, Start, Thread, Life, TypeOK, Shutting, Pools, Consoles, Closed, InShutdown, directoryVars
<1>3. CASE CreatePool
  BY <1>3 DEF CreatePool, Life, TypeOK, Shutting, Pools, Consoles, Closed, InShutdown, directoryVars
<1>4. CASE StartConsole
  BY <1>4 DEF StartConsole, Thread, Life, TypeOK, Shutting, Pools, Consoles, Closed, InShutdown, directoryVars
<1>5. CASE Leave
  BY <1>5 DEF Leave, Life, TypeOK, Shutting, Pools, Consoles, Closed, InShutdown, directoryVars
<1>6. CASE Destroy
  BY <1>6 DEF Destroy, PoolJoined, Thread, Life, TypeOK, Shutting, Pools, Consoles, Closed, InShutdown, directoryVars
<1>7. CASE ShutDirectory
  BY <1>7, ShutIs DEF ShutDirectory, ShutStep, Stop, Life, TypeOK, Shutting, Pools, Consoles, Closed, InShutdown, directoryVars
<1>8. CASE ShutTimers
  BY <1>8, ShutIs DEF ShutTimers, ShutStep, CancelTimer, Life, TypeOK, Shutting, Pools, Consoles, Closed, InShutdown, directoryVars
<1>9. CASE JoinTui
  BY <1>9 DEF JoinTui, Thread, Life, TypeOK, Shutting, Pools, Consoles, Closed, InShutdown, directoryVars
<1>10. CASE ShutListener
  BY <1>10, ShutIs DEF ShutListener, ShutStep, Life, TypeOK, Shutting, Pools, Consoles, Closed, InShutdown, directoryVars
<1>11. CASE ShutSessions
  BY <1>11, ShutIs DEF ShutSessions, ShutStep, Life, TypeOK, Shutting, Pools, Consoles, Closed, InShutdown, directoryVars
<1>12. CASE StopIo
  BY <1>12, ShutIs DEF StopIo, ShutStep, Life, TypeOK, Shutting, Pools, Consoles, Closed, InShutdown, directoryVars
<1>13. CASE ShutdownComplete
  BY <1>13, ShutIs DEF ShutdownComplete, ShutStep, PoolJoined, Thread, Life, TypeOK, Shutting, Pools, Consoles, Closed, InShutdown, directoryVars
<1>14. CASE EarlySignal
  BY <1>14 DEF EarlySignal, Life, TypeOK, Shutting, Pools, Consoles, Closed, InShutdown, directoryVars
<1>15. CASE TuiQuits
  BY <1>15 DEF TuiQuits, Life, TypeOK, Shutting, Pools, Consoles, Closed, InShutdown, directoryVars
<1>16. ASSUME NEW w \in Worker, JoinThread(w) PROVE Closed'
  BY <1>16 DEF JoinThread, Thread, Life, TypeOK, Shutting, Pools, Consoles, Closed, InShutdown, directoryVars
<1>17. ASSUME NEW t \in Thread, Signal(t) PROVE Closed'
  BY <1>17, BeginIs DEF Signal, Thread, Life, TypeOK, Shutting, Pools, Consoles, Closed, InShutdown, directoryVars
<1>18. ASSUME NEW w \in Worker, AdminShutdown(w) PROVE Closed'
  BY <1>18, BeginIs DEF AdminShutdown, Takes, Thread, Life, TypeOK, Shutting, Pools, Consoles, Closed, InShutdown, directoryVars
<1>19. ASSUME NEW w \in Worker, ListenerOnSignal(w) PROVE Closed'
  BY <1>19 DEF ListenerOnSignal, Takes, Life, TypeOK, Shutting, Pools, Consoles, Closed, InShutdown, directoryVars
<1>20. ASSUME NEW w \in Worker, WorkerMoves(w) PROVE Closed'
  BY <1>20 DEF WorkerMoves, Life, TypeOK, Shutting, Pools, Consoles, Closed, InShutdown, Job, Periodic
<1>21. CASE Still
  BY <1>21 DEF Still, Life, TypeOK, Shutting, Pools, Consoles, Closed, InShutdown
<1> QED BY <1>1, <1>2, <1>3, <1>4, <1>5, <1>6, <1>7, <1>8, <1>9, <1>10, <1>11,
           <1>12, <1>13, <1>14, <1>15, <1>16, <1>17, <1>18, <1>19, <1>20, <1>21,
           WorkerStep, StillStep DEF Life, Next, MainStep, ShutdownStep

LEMMA EndsStep ==
  ASSUME Life, EndsInOrder, [Next]_vars
  PROVE  EndsInOrder'
<1> USE ServerAssumption DEF Pooled, Threaded
<1>1. CASE Install
  BY <1>1 DEF Install, Life, TypeOK, Shutting, Pools, Consoles, Closed, EndsInOrder, Complete, Alive, InShutdown, directoryVars
<1>2. CASE StartServices
  BY <1>2 DEF StartServices, Start, Thread, Life, TypeOK, Shutting, Pools, Consoles, Closed, EndsInOrder, Complete, Alive, InShutdown, directoryVars
<1>3. CASE CreatePool
  BY <1>3 DEF CreatePool, Life, TypeOK, Shutting, Pools, Consoles, Closed, EndsInOrder, Complete, Alive, InShutdown, directoryVars
<1>4. CASE StartConsole
  BY <1>4 DEF StartConsole, Thread, Life, TypeOK, Shutting, Pools, Consoles, Closed, EndsInOrder, Complete, Alive, InShutdown, directoryVars
<1>5. CASE Leave
  BY <1>5 DEF Leave, Life, TypeOK, Shutting, Pools, Consoles, Closed, EndsInOrder, Complete, Alive, InShutdown, directoryVars
<1>6. CASE Destroy
  BY <1>6 DEF Destroy, PoolJoined, Thread, Life, TypeOK, Shutting, Pools, Consoles, Closed, EndsInOrder, Complete, Alive, InShutdown, directoryVars
<1>7. CASE ShutDirectory
  BY <1>7, ShutIs DEF ShutDirectory, ShutStep, Stop, Life, TypeOK, Shutting, Pools, Consoles, Closed, EndsInOrder, Complete, Alive, InShutdown, directoryVars
<1>8. CASE ShutTimers
  BY <1>8, ShutIs DEF ShutTimers, ShutStep, CancelTimer, Life, TypeOK, Shutting, Pools, Consoles, Closed, EndsInOrder, Complete, Alive, InShutdown, directoryVars
<1>9. CASE JoinTui
  BY <1>9 DEF JoinTui, Thread, Life, TypeOK, Shutting, Pools, Consoles, Closed, EndsInOrder, Complete, Alive, InShutdown, directoryVars
<1>10. CASE ShutListener
  BY <1>10, ShutIs DEF ShutListener, ShutStep, Life, TypeOK, Shutting, Pools, Consoles, Closed, EndsInOrder, Complete, Alive, InShutdown, directoryVars
<1>11. CASE ShutSessions
  BY <1>11, ShutIs DEF ShutSessions, ShutStep, Life, TypeOK, Shutting, Pools, Consoles, Closed, EndsInOrder, Complete, Alive, InShutdown, directoryVars
<1>12. CASE StopIo
  BY <1>12, ShutIs DEF StopIo, ShutStep, Life, TypeOK, Shutting, Pools, Consoles, Closed, EndsInOrder, Complete, Alive, InShutdown, directoryVars
<1>13. CASE ShutdownComplete
  BY <1>13, ShutIs DEF ShutdownComplete, ShutStep, PoolJoined, Thread, Life, TypeOK, Shutting, Pools, Consoles, Closed, EndsInOrder, Complete, Alive, InShutdown, directoryVars
<1>14. CASE EarlySignal
  BY <1>14 DEF EarlySignal, Life, TypeOK, Shutting, Pools, Consoles, Closed, EndsInOrder, Complete, Alive, InShutdown, directoryVars
<1>15. CASE TuiQuits
  BY <1>15 DEF TuiQuits, Life, TypeOK, Shutting, Pools, Consoles, Closed, EndsInOrder, Complete, Alive, InShutdown, directoryVars
<1>16. ASSUME NEW w \in Worker, JoinThread(w) PROVE EndsInOrder'
  BY <1>16 DEF JoinThread, Thread, Life, TypeOK, Shutting, Pools, Consoles, Closed, EndsInOrder, Complete, Alive, InShutdown, directoryVars
<1>17. ASSUME NEW t \in Thread, Signal(t) PROVE EndsInOrder'
  BY <1>17, BeginIs DEF Signal, Thread, Life, TypeOK, Shutting, Pools, Consoles, Closed, EndsInOrder, Complete, Alive, InShutdown, directoryVars
<1>18. ASSUME NEW w \in Worker, AdminShutdown(w) PROVE EndsInOrder'
  BY <1>18, BeginIs DEF AdminShutdown, Takes, Thread, Life, TypeOK, Shutting, Pools, Consoles, Closed, EndsInOrder, Complete, Alive, InShutdown, directoryVars
<1>19. ASSUME NEW w \in Worker, ListenerOnSignal(w) PROVE EndsInOrder'
  BY <1>19 DEF ListenerOnSignal, Takes, Life, TypeOK, Shutting, Pools, Consoles, Closed, EndsInOrder, Complete, Alive, InShutdown, directoryVars
<1>20. ASSUME NEW w \in Worker, WorkerMoves(w) PROVE EndsInOrder'
  BY <1>20 DEF WorkerMoves, Life, TypeOK, Shutting, Pools, Consoles, Closed, EndsInOrder, Complete, Alive, InShutdown, Job, Periodic
<1>21. CASE Still
  BY <1>21 DEF Still, Life, TypeOK, Shutting, Pools, Consoles, Closed, EndsInOrder, Complete, Alive, InShutdown
<1> QED BY <1>1, <1>2, <1>3, <1>4, <1>5, <1>6, <1>7, <1>8, <1>9, <1>10, <1>11,
           <1>12, <1>13, <1>14, <1>15, <1>16, <1>17, <1>18, <1>19, <1>20, <1>21,
           WorkerStep, StillStep DEF Life, Next, MainStep, ShutdownStep

(* The types of the server's own variables.                                *)
ServerTypes ==
    /\ config \in Config
    /\ running \in BOOLEAN /\ stopped \in BOOLEAN /\ early \in BOOLEAN /\ listenerDown \in BOOLEAN
    /\ pool \in [Worker -> Job \cup {"none", "idle", "returned", "joined"}]
    /\ lock \in Worker \cup {None}
    /\ tui \in {"off", "none", "running", "ended", "joined"}
    /\ main \in Stage
    /\ shut \in [by : Thread \cup {None}, at : ShutStep, during : Stage]
    /\ armed \subseteq Periodic
    /\ ended \in {"no", "orderly", "aborted"}

LEMMA TypeStep ==
  ASSUME Life, Unstarted, Client, [Next]_vars
  PROVE  TypeOK'
<1>1. SUFFICES ServerTypes'
  BY ClientStep DEF Client, TypeOK, ServerTypes
<1>t. ServerTypes
  BY DEF Life, TypeOK, ServerTypes
<1>2. CASE MainStep
  <2>1. CASE Install \/ StartServices \/ Leave
    BY <2>1, <1>t DEF Install, StartServices, Leave, ServerTypes, Periodic, Stage
  <2>2. CASE CreatePool
    BY <2>2, <1>t DEF CreatePool, ServerTypes, Stage
  <2>3. CASE StartConsole
    BY <2>3, <1>t DEF StartConsole, ServerTypes, Periodic, Stage
  <2>4. CASE Destroy
    BY <2>4, <1>t DEF Destroy, ServerTypes, Stage
  <2> QED BY <1>2, <2>1, <2>2, <2>3, <2>4 DEF MainStep
<1>3. CASE ShutdownStep
  <2>1. ASSUME NEW w \in Worker, JoinThread(w) PROVE ServerTypes'
    BY <2>1, <1>t DEF JoinThread, ServerTypes
  <2>2. ASSUME NEW from \in ShutStep, NEW to \in ShutStep, Shuts(from, to),
               UNCHANGED <<config, pool, lock, tui, ended>>, stopped' \in BOOLEAN, listenerDown' \in BOOLEAN,
               armed' \subseteq armed
        PROVE  ServerTypes'
    BY <1>t, <2>2, ShutIs DEF Life, ServerTypes
  <2>3. ShutDirectory \/ ShutTimers \/ ShutListener \/ ShutSessions \/ StopIo \/ ShutdownComplete
          => \E from, to \in ShutStep :
               /\ Shuts(from, to) /\ UNCHANGED <<config, pool, lock, tui, ended>>
               /\ stopped' \in BOOLEAN /\ listenerDown' \in BOOLEAN /\ armed' \subseteq armed
    BY <1>t DEF ShutDirectory, ShutTimers, ShutListener, ShutSessions, StopIo, ShutdownComplete, Shuts,
                ServerTypes, ShutStep
  <2>4. CASE JoinTui
    BY <2>4, <1>t DEF JoinTui, ServerTypes, ShutStep
  <2> QED BY <1>3, <2>1, <2>2, <2>3, <2>4 DEF ShutdownStep
<1>4. CASE EarlySignal \/ TuiQuits \/ Environment \/ Reactor \/ UNCHANGED vars
  BY <1>4, <1>t DEF EarlySignal, TuiQuits, Environment, Reactor, vars, serverVars, ServerTypes
<1>5. ASSUME NEW t \in Thread, Signal(t) PROVE ServerTypes'
  BY <1>5, <1>t DEF Signal, BeginShutdown, ServerTypes, ShutStep
<1>6. ASSUME NEW w \in Worker,
             ListenerOnSignal(w) \/ DisconnectAll(w) \/ LockSessions(w) \/ UnlockSessions(w)
      PROVE  ServerTypes'
  BY <1>6, <1>t DEF ListenerOnSignal, DisconnectAll, LockSessions, UnlockSessions, Unlocked, ServerTypes, Job
<1>7. ASSUME NEW w \in Worker, AdminShutdown(w) PROVE ServerTypes'
  BY <1>7, <1>t DEF AdminShutdown, BeginShutdown, ServerTypes, ShutStep, Job, Thread
<1>8. ASSUME NEW w \in Worker, DirectoryBegins(w) \/ DirectoryEnds(w) \/ ReturnFromRun(w)
      PROVE  ServerTypes'
  BY <1>8, <1>t DEF DirectoryBegins, DirectoryEnds, ReturnFromRun, ServerTypes, Job
<1>9. ASSUME NEW w \in Worker, NEW p \in Periodic, PeriodicBegins(w, p) \/ PeriodicFinishes(w, p)
      PROVE  ServerTypes'
  BY <1>9, <1>t DEF PeriodicBegins, PeriodicFinishes, Unlocked, ServerTypes, Job
<1> QED BY <1>2, <1>3, <1>4, <1>5, <1>6, <1>7, <1>8, <1>9 DEF Next, WorkerEnds

LEMMA UnstartedStep ==
  ASSUME Life, Unstarted, [Next]_vars
  PROVE  Unstarted'
<1> SUFFICES ASSUME main' \in {"built", "installed"}
             PROVE  Quiet' /\ timer' = "off" /\ ~active'
  BY DEF Unstarted
<1> USE ServerAssumption
<1>1. CASE UNCHANGED directoryVars /\ main \in {"built", "installed"}
  BY <1>1 DEF directoryVars, Unstarted, Quiet
<1>2. CASE MainStep
  <2>1. Install
    BY <1>2 DEF MainStep, StartServices, CreatePool, StartConsole, Leave, Destroy
  <2> QED BY <1>1, <2>1 DEF Install
<1>3. CASE ShutdownStep
  <2>1. main \in {"built", "installed"}
    BY <1>3 DEF ShutdownStep, ShutDirectory, ShutTimers, JoinTui, ShutListener, ShutSessions, StopIo,
                ShutdownComplete, JoinThread, Shuts
  <2>2. CASE ShutDirectory \/ ShutTimers
    BY <2>1, <2>2 DEF ShutDirectory, ShutTimers, Stop, CancelTimer, directoryVars, Unstarted, Quiet
  <2>3. CASE JoinTui \/ ShutListener \/ ShutSessions \/ StopIo \/ ShutdownComplete
             \/ \E w \in Worker : JoinThread(w)
    BY <1>1, <2>1, <2>3 DEF JoinTui, ShutListener, ShutSessions, StopIo, ShutdownComplete, JoinThread
  <2> QED BY <1>3, <2>2, <2>3 DEF ShutdownStep
<1>4. CASE Environment
  BY <1>4 DEF Environment, serverVars, Unstarted
<1>5. CASE Reactor
  BY <1>5 DEF Reactor, serverVars, Life, Pools
<1>6. ASSUME NEW w \in Worker, pool[w] # "none", UNCHANGED main PROVE FALSE
  BY <1>6 DEF Life, Pools
<1>7. ASSUME NEW w \in Worker,
             \/ ListenerOnSignal(w) \/ AdminShutdown(w) \/ LockSessions(w) \/ DirectoryBegins(w)
             \/ WorkerEnds(w)
             \/ \E p \in Periodic : PeriodicBegins(w, p)
      PROVE  FALSE
  <2>1. pool[w] # "none" /\ UNCHANGED main
    BY <1>7 DEF ListenerOnSignal, AdminShutdown, LockSessions, DirectoryBegins, WorkerEnds, PeriodicFinishes,
                UnlockSessions, DisconnectAll, DirectoryEnds, ReturnFromRun, PeriodicBegins, Takes, Periodic
  <2> QED BY <1>6, <2>1
<1>8. CASE EarlySignal \/ TuiQuits \/ UNCHANGED vars \/ \E t \in Thread : Signal(t)
  BY <1>1, <1>8 DEF EarlySignal, TuiQuits, vars, serverVars, Signal
<1> QED BY <1>2, <1>3, <1>4, <1>5, <1>7, <1>8 DEF Next

(* A step that touches neither the timers nor their handlers.              *)
Untouched ==
    /\ armed' = armed
    /\ \A w \in Worker : pool'[w] = pool[w] \/ (pool[w] \notin Periodic /\ pool'[w] \notin Periodic)
    /\ running' => running
    /\ main' \in {"pooled", "waiting"} => main' = main
    /\ main' \in {"installed", "started"} => main \in {"installed", "started"}
    /\ main \in Threaded => main' \in Threaded

LEMMA UntouchedPeriodics ==
  ASSUME Periodics, Untouched
  PROVE  Periodics'
<1>1. ASSUME NEW p \in Periodic PROVE OnePeriodic(p)'
  <2>1. \A w \in Worker : pool'[w] = p <=> pool[w] = p
    BY <1>1 DEF Untouched
  <2>2. OnePeriodic(p)
    BY DEF Periodics
  <2> QED BY <2>1, <2>2 DEF Untouched, OnePeriodic
<1>2. \A w \in Worker, p \in Periodic : pool'[w] = p <=> pool[w] = p
  BY DEF Untouched
<1>3. "cleanup" \in Periodic /\ "state" \in Periodic
  BY DEF Periodic
<1> QED BY <1>1, <1>2, <1>3 DEF Periodics, Untouched

LEMMA UntouchedStep ==
  ASSUME Life,
         \/ StartServices \/ Leave \/ Destroy
         \/ ShutDirectory \/ JoinTui \/ ShutListener \/ ShutSessions \/ StopIo \/ ShutdownComplete
         \/ EarlySignal \/ TuiQuits \/ Environment \/ Reactor \/ UNCHANGED vars
         \/ \E t \in Thread : Signal(t)
         \/ \E w \in Worker : \/ JoinThread(w) \/ ListenerOnSignal(w) \/ AdminShutdown(w)
                              \/ LockSessions(w) \/ UnlockSessions(w) \/ DisconnectAll(w)
                              \/ DirectoryBegins(w) \/ DirectoryEnds(w) \/ ReturnFromRun(w)
  PROVE  Untouched
<1>p. pool \in [Worker -> Job \cup {"none", "idle", "returned", "joined"}]
  BY DEF Life, TypeOK
<1>1. CASE StartServices \/ Leave \/ Destroy
  BY <1>1 DEF StartServices, Leave, Destroy, Untouched, Threaded
<1>2. CASE ShutDirectory \/ JoinTui \/ ShutListener \/ ShutSessions \/ StopIo \/ ShutdownComplete
  BY <1>2 DEF ShutDirectory, JoinTui, ShutListener, ShutSessions, StopIo, ShutdownComplete, Shuts, Untouched
<1>3. CASE EarlySignal \/ TuiQuits \/ Environment \/ Reactor \/ UNCHANGED vars
  BY <1>3 DEF EarlySignal, TuiQuits, Environment, Reactor, vars, serverVars, Untouched
<1>4. ASSUME NEW t \in Thread, Signal(t) PROVE Untouched
  BY <1>4 DEF Signal, BeginShutdown, Untouched
<1>5. ASSUME NEW w \in Worker, NEW x, pool' = [pool EXCEPT ![w] = x],
             pool[w] \notin Periodic, x \notin Periodic
      PROVE  \A v \in Worker : pool'[v] = pool[v] \/ (pool[v] \notin Periodic /\ pool'[v] \notin Periodic)
  BY <1>5, <1>p
<1>6. ASSUME NEW w \in Worker,
             \/ JoinThread(w) \/ ListenerOnSignal(w)
             \/ LockSessions(w) \/ UnlockSessions(w) \/ DisconnectAll(w)
      PROVE  Untouched
  <2>1. UNCHANGED <<armed, running, main>>
    BY <1>6 DEF JoinThread, ListenerOnSignal, LockSessions, UnlockSessions, DisconnectAll
  <2>2. \/ pool' = pool
        \/ pool[w] = "returned" /\ pool' = [pool EXCEPT ![w] = "joined"]
        \/ pool[w] = "idle" /\ pool' = [pool EXCEPT ![w] = "listener"]
        \/ pool[w] = "idle" /\ pool' = [pool EXCEPT ![w] = "session"]
        \/ pool[w] \in {"session", "listener"} /\ pool' = [pool EXCEPT ![w] = "idle"]
    BY <1>6 DEF JoinThread, ListenerOnSignal, LockSessions, UnlockSessions, DisconnectAll, Takes
  <2> QED BY <2>1, <2>2, <1>5 DEF Untouched, Periodic
<1>7. ASSUME NEW w \in Worker, AdminShutdown(w) PROVE Untouched
  <2>1. UNCHANGED <<armed, main>> /\ ~running'
    BY <1>7 DEF AdminShutdown, BeginShutdown
  <2>2. pool[w] = "idle" /\ pool' = [pool EXCEPT ![w] = "shutdown"]
    BY <1>7 DEF AdminShutdown, Takes
  <2> QED BY <2>1, <2>2, <1>5 DEF Untouched, Periodic
<1>8. ASSUME NEW w \in Worker, DirectoryBegins(w) \/ DirectoryEnds(w) \/ ReturnFromRun(w) PROVE Untouched
  <2>1. UNCHANGED <<armed, running, main>>
    BY <1>8 DEF DirectoryBegins, DirectoryEnds, ReturnFromRun
  <2>2. \/ pool' = pool
        \/ pool[w] = "idle" /\ pool' = [pool EXCEPT ![w] = "directory"]
        \/ pool[w] = "directory" /\ pool' = [pool EXCEPT ![w] = "idle"]
        \/ pool[w] = "idle" /\ pool' = [pool EXCEPT ![w] = "returned"]
    BY <1>8 DEF DirectoryBegins, DirectoryEnds, ReturnFromRun, Takes
  <2> QED BY <2>1, <2>2, <1>5 DEF Untouched, Periodic
<1> QED BY <1>1, <1>2, <1>3, <1>4, <1>6, <1>7, <1>8

LEMMA PeriodicsStep ==
  ASSUME Life, Periodics, [Next]_vars
  PROVE  Periodics'
<1>p. pool \in [Worker -> Job \cup {"none", "idle", "returned", "joined"}]
  BY DEF Life, TypeOK
<1>1. CASE Install
  <2>1. /\ \A w \in Worker : pool'[w] = "none"
        /\ main' = "installed" /\ armed' = armed \cup {"cleanup"} /\ "state" \notin armed
    BY <1>1 DEF Install, Life, Pools, Periodics, Threaded
  <2> QED BY <2>1 DEF Periodics, OnePeriodic, Periodic
<1>2. CASE CreatePool
  <2>1. /\ \A w \in Worker : pool'[w] = "idle"
        /\ main' = "pooled" /\ armed' = armed /\ "cleanup" \in armed /\ "state" \notin armed
    BY <1>2 DEF CreatePool, Periodics, Threaded
  <2> QED BY <2>1 DEF Periodics, OnePeriodic, Periodic
<1>3. CASE ShutTimers
  <2>1. /\ UNCHANGED <<pool, running, main>> /\ armed' = armed \ {"state"} /\ shut.at # "none"
    BY <1>3 DEF ShutTimers, Shuts
  <2>2. ~running
    BY <2>1 DEF Life, Shutting
  <2> QED BY <2>1, <2>2 DEF Periodics, OnePeriodic, Threaded
<1>4. ASSUME NEW w \in Worker, NEW p \in Periodic, PeriodicBegins(w, p) PROVE Periodics'
  <2>1. /\ UNCHANGED <<running, main>> /\ p \in armed /\ armed' = armed \ {p} /\ pool[w] = "idle"
        /\ pool' = IF running THEN [pool EXCEPT ![w] = p] ELSE pool
    BY <1>4 DEF PeriodicBegins, Takes
  <2>2. main \notin {"installed", "started"}
    BY <2>1 DEF Life, Pools
  <2>3. ASSUME NEW q \in Periodic PROVE OnePeriodic(q)'
    <3>1. OnePeriodic(q) /\ OnePeriodic(p)
      BY DEF Periodics
    <3>2. "idle" \notin Periodic
      BY DEF Periodic
    <3>3. CASE running
      <4>1. pool'[w] = p /\ \A v \in Worker : v # w => pool'[v] = pool[v]
        BY <1>p, <2>1, <3>3
      <4>2. CASE q = p
        BY <2>1, <3>1, <4>1, <4>2 DEF OnePeriodic
      <4>3. CASE q # p
        <5>1. \A v \in Worker : pool'[v] = q <=> pool[v] = q
          BY <2>1, <3>2, <4>1, <4>3
        <5> QED BY <2>1, <3>1, <4>3, <5>1 DEF OnePeriodic
      <4> QED BY <4>2, <4>3
    <3>4. CASE ~running
      BY <2>1, <3>1, <3>4 DEF OnePeriodic
    <3> QED BY <3>3, <3>4
  <2>4. pool'[w] = p \/ ~running
    BY <1>p, <2>1
  <2>5. running /\ main = "pooled" => "cleanup" \in armed' \/ \E v \in Worker : pool'[v] = "cleanup"
    <3>1. CASE p = "cleanup"
      BY <2>4, <3>1
    <3>2. CASE p # "cleanup"
      <4>1. \A v \in Worker : pool[v] = "cleanup" => pool'[v] = "cleanup"
        BY <1>p, <2>1
      <4> QED BY <2>1, <3>2, <4>1 DEF Periodics
    <3> QED BY <3>1, <3>2
  <2>6. main \notin Threaded => "state" \notin armed' /\ \A v \in Worker : pool'[v] # "state"
    BY <1>p, <2>1 DEF Periodics
  <2> QED BY <2>1, <2>2, <2>3, <2>5, <2>6 DEF Periodics
<1>5. ASSUME NEW w \in Worker, NEW p \in Periodic, PeriodicFinishes(w, p) PROVE Periodics'
  <2>1. /\ UNCHANGED <<running, main>> /\ armed' = armed \cup {p} /\ pool[w] = p
        /\ pool' = [pool EXCEPT ![w] = "idle"]
    BY <1>5 DEF PeriodicFinishes
  <2>2. pool'[w] = "idle" /\ \A v \in Worker : v # w => pool'[v] = pool[v]
    BY <1>p, <2>1
  <2>3. ASSUME NEW q \in Periodic PROVE OnePeriodic(q)'
    <3>1. OnePeriodic(q) /\ OnePeriodic(p)
      BY DEF Periodics
    <3>2. "idle" \notin Periodic
      BY DEF Periodic
    <3>3. CASE q = p
      <4>1. \A v \in Worker : pool'[v] # p
        BY <2>1, <2>2, <3>1, <3>2 DEF OnePeriodic
      <4> QED BY <2>1, <3>3, <4>1 DEF OnePeriodic
    <3>4. CASE q # p
      <4>1. \A v \in Worker : pool'[v] = q <=> pool[v] = q
        BY <2>1, <2>2, <3>2, <3>4
      <4> QED BY <2>1, <3>1, <3>4, <4>1 DEF OnePeriodic
    <3> QED BY <3>3, <3>4
  <2>5. running /\ main = "pooled" => "cleanup" \in armed' \/ \E v \in Worker : pool'[v] = "cleanup"
    <3>1. CASE p = "cleanup"
      BY <2>1, <3>1
    <3>2. CASE p # "cleanup"
      <4>1. \A v \in Worker : pool[v] = "cleanup" => pool'[v] = "cleanup"
        BY <2>1, <2>2, <3>2
      <4> QED BY <2>1, <4>1 DEF Periodics
    <3> QED BY <3>1, <3>2
  <2>6. main \notin Threaded => "state" \notin armed' /\ \A v \in Worker : pool'[v] # "state"
    BY <2>1, <2>2 DEF Periodics
  <2> QED BY <2>1, <2>3, <2>5, <2>6 DEF Periodics
<1>6. CASE StartConsole
  <2>1. /\ UNCHANGED <<pool, running>> /\ main = "pooled" /\ main' = "waiting"
        /\ armed' = armed \cup {"state"}
    BY <1>6 DEF StartConsole
  <2>2. \A w \in Worker : pool[w] # "state"
    BY <2>1 DEF Periodics, Threaded
  <2> QED BY <2>1, <2>2 DEF Periodics, OnePeriodic, Periodic, Threaded
<1> QED BY <1>1, <1>2, <1>3, <1>4, <1>5, <1>6, UntouchedStep, UntouchedPeriodics
        DEF Next, MainStep, ShutdownStep, WorkerEnds

LEMMA PeriodicsSuffice ==
  ASSUME Periodics, pool \in [Worker -> Job \cup {"none", "idle", "returned", "joined"}]
  PROVE  PeriodicHolds
<1> SUFFICES ASSUME NEW p \in Periodic
             PROVE  Links(p) <= 1 /\ (running /\ main = "waiting" => Links(p) = 1)
  BY DEF PeriodicHolds
<1> DEFINE S == {w \in Worker : pool[w] = p}
           turn == IF p \in armed THEN 1 ELSE 0
<1>1. OnePeriodic(p)
  BY DEF Periodics
<1>2. Links(p) = Cardinality(S) + turn
  BY DEF Links
<1>3. turn \in {0, 1} /\ (p \in armed => turn = 1) /\ (p \notin armed => turn = 0)
  OBVIOUS
<1>4. Cardinality({}) = 0 /\ \A x : Cardinality({x}) = 1
  BY FS_EmptySet, FS_Singleton
<1>5. CASE S = {}
  <2>1. running /\ main = "waiting" => p \in armed
    BY <1>1, <1>5 DEF OnePeriodic
  <2>2. Cardinality(S) = 0
    BY <1>4, <1>5
  <2> HIDE DEF S, turn
  <2> QED BY <1>2, <1>3, <2>1, <2>2
<1>6. CASE S # {}
  <2>1. PICK w \in Worker : w \in S
    BY <1>6
  <2>2. S = {w}
    BY <1>1, <2>1 DEF OnePeriodic
  <2>3. Cardinality(S) = 1
    BY <1>4, <2>2
  <2>4. p \notin armed
    BY <1>1, <2>1 DEF OnePeriodic
  <2> HIDE DEF S, turn
  <2> QED BY <1>2, <1>3, <2>3, <2>4
<1> QED BY <1>5, <1>6

-----------------------------------------------------------------------------
Inv == Life /\ Unstarted /\ Client /\ Periodics /\ EndsInOrder

LEMMA InitInv == Init => Inv
<1> SUFFICES ASSUME Init PROVE Inv
  OBVIOUS
<1> USE DirectoryAssumption, ServerAssumption
<1>1. Client
  BY DEF Init, DirectoryInit, Client, DirectoryTypeOK, OneLink, Named, Quiet
<1>2. TypeOK
  BY <1>1 DEF Init, Client, TypeOK, ShutStep, Stage
<1>3. Shutting /\ Pools /\ Consoles
  BY DEF Init, Shutting, Pools, Pooled, Consoles, Threaded
<1>4. Closed /\ Unstarted /\ EndsInOrder
  BY DEF Init, DirectoryInit, Closed, Pooled, Unstarted, Quiet, EndsInOrder
<1>5. Periodics
  BY DEF Init, Periodics, OnePeriodic, Periodic, Threaded
<1> QED BY <1>1, <1>2, <1>3, <1>4, <1>5 DEF Inv, Life

LEMMA InvStep == Inv /\ [Next]_vars => Inv'
<1> SUFFICES ASSUME Inv, [Next]_vars PROVE Inv'
  OBVIOUS
<1> USE DEF Inv
<1>1. Life'
  BY TypeStep, ShuttingStep, PoolsStep, ConsolesStep, ClosedStep DEF Life
<1>2. Unstarted' /\ Client'
  BY UnstartedStep, ClientStep
<1>3. Periodics' /\ EndsInOrder'
  BY PeriodicsStep, EndsStep
<1> QED BY <1>1, <1>2, <1>3

(* Types of the server, its threads and its directory client. *)
THEOREM TypeCorrect == Spec => []TypeOK
<1>1. Inv => TypeOK
  BY DEF Inv, Life
<1> QED BY <1>1, InitInv, InvStep, PTL DEF Spec

(* The timers re-arm themselves exactly once and the directory client has  *)
(* exactly one callback to come, with any number of threads taking them    *)
(* and stop() and shutdown() coming between a check and what depends on it.*)
THEOREM Chains == Spec => []ChainsHold
<1>1. Inv => ChainsHold
  BY ClientSuffices, PeriodicsSuffice DEF Inv, Life, TypeOK, ChainsHold
<1> QED BY <1>1, InitInv, InvStep, PTL DEF Spec

(* The process ends in order if and only if shutdown() ran on the main     *)
(* thread with all its threads there, on a machine with any number of them.*)
THEOREM OrderlyEnd == Spec => []EndsInOrder
<1>1. Inv => EndsInOrder
  BY DEF Inv
<1> QED BY <1>1, InitInv, InvStep, PTL DEF Spec

(* Nothing but a signal before signal_handler is installed takes the       *)
(* listener away from a server that runs.                                  *)
THEOREM Accepting == Spec => []AcceptsWhileRunning
<1>1. Inv => AcceptsWhileRunning
  BY DEF Inv, Life, Shutting, Closed, AcceptsWhileRunning
<1> QED BY <1>1, InitInv, InvStep, PTL DEF Spec
=============================================================================
