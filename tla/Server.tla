------------------------------- MODULE Server -------------------------------
(***************************************************************************)
(* Server (src/server.cpp, src/main.cpp): the life of the process.  main   *)
(* builds the server, run() starts its parts and the thread pool, waits    *)
(* until running_ is false and destroys everything; shutdown() stops the   *)
(* parts in turn, joins the console's thread, which ends when its operator *)
(* quits it, takes the listener's sessions_mutex_ and joins the pool.  The *)
(* periodic handlers of the pool (the hourly cleanup, the state for the    *)
(* console, the directory client) are chains of timers that re-arm         *)
(* themselves.                                                             *)
(*                                                                         *)
(* shutdown() is called from a signal handler, which may run on any thread,*)
(* from the pool, where the console posts it, and from ~Server.  Of the    *)
(* frames and accepts the pool also handles, which are the subject of      *)
(* Connections, only those that hold sessions_mutex_ matter here; the rest  *)
(* are idle workers.  A signal may interrupt a worker that holds it, which *)
(* then waits for itself.  What else a signal handler must not do          *)
(* (allocate, log) is below the model.                                     *)
(***************************************************************************)
EXTENDS DirectoryClient

CONSTANTS
    Worker,       \* threads of the pool
    Main,         \* the main thread
    Tui,          \* the thread of the integrated console, tui_thread_
    Config        \* configurations of the server

\* create_thread_pool makes two threads at least.
ASSUME ServerAssumption ==
    /\ Main \notin Worker /\ Tui \notin Worker \cup {Main} /\ None \notin Worker \cup {Main, Tui}
    /\ Worker # {}
    /\ Config \subseteq [public : BOOLEAN, headless : BOOLEAN]

\* public is is_public && directory_enabled: there is a directory client.

VARIABLES
    config,       \* how the server of this behaviour is configured
    running,      \* running_
    stopped,      \* ioc_.stop() has been called
    pool,         \* what each thread of thread_pool_ does
    lock,         \* the worker that holds sessions_mutex_, or None
    tui,          \* tui_thread_: "off" on a headless server
    main,         \* how far main has come in Server, run() and ~Server
    shut,         \* the call of shutdown() that found running_ true: who, where, and main's stage then
    armed,        \* which of cleanup_timer_ and state_timer_ have a handler waiting
    early,        \* a signal came while only the listener handled signals
    listenerDown, \* Listener::shutting_down_
    ended         \* "no", "orderly" or "aborted": how the process ended

serverVars == <<config, running, stopped, pool, lock, tui, main, shut, armed, early, listenerDown, ended>>
vars == <<serverVars, directoryVars>>

Periodic == {"cleanup", "state"}
Thread   == Worker \cup {Main, Tui}
Job      == Periodic \cup {"directory", "shutdown", "session", "listener"}
Stage    == {"built", "installed", "started", "pooled", "waiting", "left", "gone"}
ShutStep == {"none", "directory", "timers", "tui", "listener", "sessions", "stop", "join", "done"}

TypeOK ==
    /\ DirectoryTypeOK
    /\ config \in Config
    /\ running \in BOOLEAN /\ stopped \in BOOLEAN /\ early \in BOOLEAN /\ listenerDown \in BOOLEAN
    /\ pool \in [Worker -> Job \cup {"none", "idle", "returned", "joined"}]
    /\ lock \in Worker \cup {None}
    /\ tui \in {"off", "none", "running", "ended", "joined"}
    /\ main \in Stage
    /\ shut \in [by : Thread \cup {None}, at : ShutStep, during : Stage]
    /\ armed \subseteq Periodic
    /\ ended \in {"no", "orderly", "aborted"}

\* The listener has been built: its signal set is in place, main is about to
\* call run().  With --headless there is no console thread.
Init ==
    /\ DirectoryInit
    /\ running = FALSE /\ stopped = FALSE /\ early = FALSE /\ listenerDown = FALSE
    /\ pool = [w \in Worker |-> "none"]
    /\ lock = None
    /\ config \in Config
    /\ tui = IF config.headless THEN "off" ELSE "none"
    /\ main = "built"
    /\ shut = [by |-> None, at |-> "none", during |-> "built"]
    /\ armed = {}
    /\ ended = "no"

Alive == ended = "no"

\* A thread inside shutdown() does nothing else until the call returns.
InShutdown(t) == shut.by = t /\ shut.at # "done"

\* A worker that ioc_.run() may give the next completion.
Takes(w) == Alive /\ ~stopped /\ pool[w] = "idle" /\ ~InShutdown(w)

-----------------------------------------------------------------------------
\* main.

\* The first half of run(): the cleanup timer and the signal handlers, which
\* take the signals from the listener's signal set.
Install ==
    /\ Alive /\ main = "built"
    /\ main' = "installed" /\ running' = TRUE
    /\ armed' = armed \cup {"cleanup"}
    /\ UNCHANGED <<config, stopped, pool, lock, tui, shut, early, listenerDown, ended, directoryVars>>

\* listener_->run() and directory_client_->start().
StartServices ==
    /\ Alive /\ main = "installed" /\ ~InShutdown(Main)
    /\ main' = "started"
    /\ IF config.public THEN Start ELSE UNCHANGED directoryVars
    /\ UNCHANGED <<config, running, stopped, pool, lock, tui, shut, armed, early, listenerDown, ended>>

\* create_thread_pool and the socket of the console.
CreatePool ==
    /\ Alive /\ main = "started" /\ ~InShutdown(Main)
    /\ main' = "pooled"
    /\ pool' = [w \in Worker |-> "idle"]
    /\ UNCHANGED <<config, running, stopped, lock, tui, shut, armed, early, listenerDown, ended, directoryVars>>

\* The console's timer and, unless headless, its thread, also when a worker
\* is in shutdown() meanwhile.
StartConsole ==
    /\ Alive /\ main = "pooled" /\ ~InShutdown(Main)
    /\ main' = "waiting"
    /\ tui' = IF tui = "none" THEN "running" ELSE tui
    /\ armed' = armed \cup {"state"}
    /\ UNCHANGED <<config, running, stopped, pool, lock, shut, early, listenerDown, ended, directoryVars>>

\* run() returns; ~Server calls shutdown(), which finds running_ false.
Leave ==
    /\ Alive /\ main = "waiting" /\ ~running /\ ~InShutdown(Main)
    /\ main' = "left"
    /\ UNCHANGED <<config, running, stopped, pool, lock, tui, shut, armed, early, listenerDown, ended, directoryVars>>

PoolJoined == \A w \in Worker : pool[w] \in {"none", "joined"}

\* The members are destroyed: a thread that nobody has joined terminates the
\* process, whatever it waits for.
Destroy ==
    /\ Alive /\ main = "left"
    /\ main' = "gone"
    /\ ended' = IF PoolJoined /\ tui \in {"off", "none", "joined"} THEN "orderly" ELSE "aborted"
    /\ UNCHANGED <<config, running, stopped, pool, lock, tui, shut, armed, early, listenerDown, directoryVars>>

-----------------------------------------------------------------------------
\* shutdown(), step by step, on thread shut.by.

BeginShutdown(t) ==
    /\ running' = FALSE
    /\ shut' = [by |-> t, at |-> "directory", during |-> main]

Shuts(from, to) ==
    /\ Alive /\ shut.at = from
    /\ shut' = [shut EXCEPT !.at = to]
    /\ UNCHANGED <<config, running, lock, main, early>>

\* directory_client_->stop() sets its running_, and cancels its timer, unless
\* it was not running.
ShutDirectory ==
    /\ Shuts("directory", "timers")
    /\ IF active THEN Stop ELSE UNCHANGED directoryVars
    /\ UNCHANGED <<stopped, pool, tui, armed, listenerDown, ended>>

\* The timer of the directory client and the one of the console; nobody
\* cancels the cleanup timer.
ShutTimers ==
    /\ Shuts("timers", "tui")
    /\ CancelTimer
    /\ armed' = armed \ {"state"}
    /\ UNCHANGED <<stopped, pool, tui, listenerDown, ended>>

\* tui_thread_->join(), if there is a thread to join: it waits until the
\* operator has quit the console, and on that very thread it throws.
JoinTui ==
    /\ Alive /\ shut.at = "tui"
    /\ IF shut.by = Tui
       THEN ended' = "aborted" /\ UNCHANGED <<shut, tui>>
       ELSE /\ tui # "running"
            /\ shut' = [shut EXCEPT !.at = "listener"]
            /\ tui' = IF tui = "ended" THEN "joined" ELSE tui
            /\ UNCHANGED ended
    /\ UNCHANGED <<config, running, stopped, pool, lock, main, armed, early, listenerDown, directoryVars>>

\* Listener::shutdown() returns at once if the listener is shut down already.
ShutListener ==
    /\ Shuts("listener", IF listenerDown THEN "stop" ELSE "sessions")
    /\ listenerDown' = TRUE
    /\ UNCHANGED <<stopped, pool, tui, armed, ended, directoryVars>>

\* Then it takes sessions_mutex_ to disconnect the sessions; the worker that
\* already held it when the signal came waits here for ever.
ShutSessions ==
    /\ lock = None
    /\ Shuts("sessions", "stop")
    /\ UNCHANGED <<stopped, pool, tui, armed, listenerDown, ended, directoryVars>>

\* Mutant: only the work guard is dropped; the periodic timers go on.
StopIoByGuard ==
    /\ Shuts("stop", "join")
    /\ UNCHANGED <<stopped, pool, tui, armed, listenerDown, ended, directoryVars>>

StopIo ==
    /\ Shuts("stop", "join")
    /\ stopped' = TRUE
    /\ UNCHANGED <<pool, tui, armed, listenerDown, ended, directoryVars>>

\* stop_thread_pool: each thread is joined when it has returned from
\* ioc_.run(); a thread that joins itself gets an exception nobody catches.
JoinThread(w) ==
    /\ Alive /\ shut.at = "join"
    /\ \/ /\ w = shut.by
          /\ ended' = "aborted" /\ UNCHANGED pool
       \/ /\ pool[w] = "returned"
          /\ pool' = [pool EXCEPT ![w] = "joined"] /\ UNCHANGED ended
    /\ UNCHANGED <<config, running, stopped, lock, tui, main, shut, armed, early, listenerDown, directoryVars>>

\* Mutant: nobody waits for the threads.
ShutdownCompleteUnjoined ==
    /\ Shuts("join", "done")
    /\ UNCHANGED <<stopped, pool, tui, armed, listenerDown, ended, directoryVars>>

ShutdownComplete ==
    /\ PoolJoined
    /\ Shuts("join", "done")
    /\ UNCHANGED <<stopped, pool, tui, armed, listenerDown, ended, directoryVars>>

ShutdownStep ==
    \/ ShutDirectory \/ ShutTimers \/ JoinTui \/ ShutListener \/ ShutSessions \/ StopIo \/ ShutdownComplete
    \/ \E w \in Worker : JoinThread(w)

-----------------------------------------------------------------------------
\* Signals and the console.

\* Before run() has installed signal_handler the listener's signal set keeps
\* the signal until there is a pool.
EarlySignal ==
    /\ Alive /\ main = "built" /\ ~early
    /\ early' = TRUE
    /\ UNCHANGED <<config, running, stopped, pool, lock, tui, main, shut, armed, listenerDown, ended, directoryVars>>

\* signal_handler on thread t; it is a call of shutdown().
Signal(t) ==
    /\ Alive /\ running
    /\ t \in Worker => pool[t] \notin {"none", "returned", "joined"}
    /\ t = Tui => tui = "running"
    /\ BeginShutdown(t)
    /\ UNCHANGED <<config, stopped, pool, lock, tui, main, armed, early, listenerDown, ended, directoryVars>>

\* Mutant: the signal set of the listener keeps the signals.
ListenerOnSignalAlways(w) ==
    /\ Takes(w) /\ ~listenerDown
    /\ listenerDown' = TRUE
    /\ pool' = [pool EXCEPT ![w] = "listener"]
    /\ UNCHANGED <<config, running, stopped, lock, tui, main, shut, armed, early, ended, directoryVars>>

\* Listener::on_signal for a signal that came early: only the listener stops,
\* and its sessions are disconnected under the lock.
ListenerOnSignal(w) ==
    /\ Takes(w) /\ early /\ ~listenerDown
    /\ listenerDown' = TRUE
    /\ pool' = [pool EXCEPT ![w] = "listener"]
    /\ UNCHANGED <<config, running, stopped, lock, tui, main, shut, armed, early, ended, directoryVars>>

DisconnectAll(w) ==
    /\ Alive /\ pool[w] = "listener" /\ ~InShutdown(w) /\ lock = None
    /\ pool' = [pool EXCEPT ![w] = "idle"]
    /\ UNCHANGED <<config, running, stopped, lock, tui, main, shut, armed, early, listenerDown, ended, directoryVars>>

\* The operator quits the integrated console; the server keeps running.
TuiQuits ==
    /\ Alive /\ tui = "running" /\ ~InShutdown(Tui)
    /\ tui' = "ended"
    /\ UNCHANGED <<config, running, stopped, pool, lock, main, shut, armed, early, listenerDown, ended, directoryVars>>

\* The console's shutdown and restart commands post shutdown() to the pool;
\* a worker takes the closure.
AdminShutdown(w) ==
    /\ Takes(w)
    /\ running
    /\ BeginShutdown(w)
    /\ pool' = [pool EXCEPT ![w] = "shutdown"]
    /\ UNCHANGED <<config, stopped, lock, tui, main, armed, early, listenerDown, ended, directoryVars>>

-----------------------------------------------------------------------------
\* The pool.

\* A handler of a session (find_session, broadcast, a login, an end) or the
\* one of the console's timer (get_online_users) takes sessions_mutex_.
LockSessions(w) ==
    /\ lock = None
    /\ \/ Takes(w) /\ pool' = [pool EXCEPT ![w] = "session"]
       \/ Alive /\ pool[w] = "state" /\ ~InShutdown(w) /\ UNCHANGED pool
    /\ lock' = w
    /\ UNCHANGED <<config, running, stopped, tui, main, shut, armed, early, listenerDown, ended, directoryVars>>

Unlocked(w) == IF lock = w THEN None ELSE lock

UnlockSessions(w) ==
    /\ Alive /\ pool[w] = "session" /\ ~InShutdown(w)
    /\ lock' = Unlocked(w)
    /\ pool' = [pool EXCEPT ![w] = "idle"]
    /\ UNCHANGED <<config, running, stopped, tui, main, shut, armed, early, listenerDown, ended, directoryVars>>

\* The cleanup or state timer has elapsed; its handler looks at running_ first.
PeriodicBegins(w, p) ==
    /\ Takes(w) /\ p \in armed
    /\ armed' = armed \ {p}
    /\ pool' = IF running THEN [pool EXCEPT ![w] = p] ELSE pool
    /\ UNCHANGED <<config, running, stopped, lock, tui, main, shut, early, listenerDown, ended, directoryVars>>

\* The handler has done its work and arms the timer again.
PeriodicFinishes(w, p) ==
    /\ Alive /\ pool[w] = p /\ ~InShutdown(w)
    /\ pool' = [pool EXCEPT ![w] = "idle"]
    /\ armed' = armed \cup {p}
    /\ lock' = Unlocked(w)
    /\ UNCHANGED <<config, running, stopped, tui, main, shut, early, listenerDown, ended, directoryVars>>

\* A handler of the directory client keeps its worker from its check of
\* running_ to its end.
DirectoryBegins(w) ==
    /\ Takes(w) /\ DirectoryHandler
    /\ pool' = IF handlers' # handlers THEN [pool EXCEPT ![w] = "directory"] ELSE pool
    /\ UNCHANGED <<config, running, stopped, lock, tui, main, shut, armed, early, listenerDown, ended>>

DirectoryEnds(w) ==
    /\ Alive /\ pool[w] = "directory" /\ ~InShutdown(w) /\ DirectoryFinishes
    /\ pool' = [pool EXCEPT ![w] = "idle"]
    /\ UNCHANGED <<config, running, stopped, lock, tui, main, shut, armed, early, listenerDown, ended>>

\* ioc_.run() returns once the io_context is stopped.
ReturnFromRun(w) ==
    /\ Alive /\ stopped /\ pool[w] = "idle" /\ ~InShutdown(w)
    /\ pool' = [pool EXCEPT ![w] = "returned"]
    /\ UNCHANGED <<config, running, stopped, lock, tui, main, shut, armed, early, listenerDown, ended, directoryVars>>

\* The reactor, which runs in the threads of the pool, and the directory.
Reactor ==
    /\ Alive /\ ~stopped /\ (\E w \in Worker : pool[w] # "none")
    /\ TimerElapses \/ RequestEnds
    /\ UNCHANGED serverVars

\* What becomes of the directory while the client is stopped concerns nobody
\* here.
Environment == Alive /\ active /\ DirectoryEnvironment /\ UNCHANGED serverVars

MainStep == Install \/ StartServices \/ CreatePool \/ StartConsole \/ Leave \/ Destroy
WorkerEnds(w) ==
    \/ \E p \in Periodic : PeriodicFinishes(w, p)
    \/ UnlockSessions(w) \/ DisconnectAll(w) \/ DirectoryEnds(w) \/ ReturnFromRun(w)

Next ==
    \/ MainStep \/ ShutdownStep \/ EarlySignal \/ TuiQuits \/ Environment \/ Reactor
    \/ \E t \in Thread : Signal(t)
    \/ \E w \in Worker :
         \/ ListenerOnSignal(w) \/ AdminShutdown(w) \/ LockSessions(w) \/ DirectoryBegins(w)
         \/ WorkerEnds(w)
         \/ \E p \in Periodic : PeriodicBegins(w, p)

\* Every thread goes on, timers elapse, a directory that can be reached
\* answers, and a completion is not passed over for ever: the io_context
\* serves its queue in order.  A mutex that is free again and again is got.
\* Nothing makes the operator quit the console.
Fairness ==
    /\ WF_vars(MainStep) /\ WF_vars(ShutdownStep) /\ WF_vars(Reactor)
    /\ SF_vars(ShutSessions)
    /\ \A w \in Worker : WF_vars(WorkerEnds(w))
    /\ SF_vars(\E w \in Worker : DirectoryBegins(w))

Spec == Init /\ [][Next]_vars
LiveSpec == Spec /\ Fairness

-----------------------------------------------------------------------------
\* The periodic work neither stops nor doubles while the server runs: each
\* timer is armed, or exactly one worker is in its handler, which will arm it
\* again (schedule_cleanup and send_periodic_state at the end of their own
\* handlers, each on a check of running_ that a shutdown can overtake).
Links(p) == Cardinality({w \in Worker : pool[w] = p}) + (IF p \in armed THEN 1 ELSE 0)
PeriodicHolds ==
    \A p \in Periodic :
        /\ Links(p) <= 1
        /\ running /\ main = "waiting" => Links(p) = 1

\* Every chain of callbacks holds: the two periodic ones and the directory
\* client's, whose two records of its registration agree.
ChainsHold == PeriodicHolds /\ ChainHolds /\ RegisteredHasId

\* The process ends in order exactly when shutdown() ran on the main thread
\* after run() had created every thread it creates.  Then each has been joined
\* before the stores and the listener are destroyed, and no handler is left
\* halfway.  On a thread of the pool (the console's shutdown, or a signal
\* delivered there) shutdown() joins its own thread, waits for a lock that
\* thread holds, or leaves it to ~Server unjoined; on the console's thread it
\* joins itself; before the threads exist it joins nobody: std::terminate.
Complete(stage) == stage = "waiting" \/ (stage = "pooled" /\ tui = "off")
EndsInOrder ==
    /\ ended = "orderly" =>
          /\ shut.by = Main /\ Complete(shut.during) /\ listenerDown /\ ~active
          /\ \A w \in Worker : pool[w] = "joined"
          /\ tui \in {"off", "joined"}
    /\ ended = "aborted" => shut.by # Main \/ ~Complete(shut.during)

\* While the server runs it accepts connections, unless a signal came between
\* the construction of the listener and the installation of signal_handler:
\* that one only stops the listener, and the server stays up without it.
AcceptsWhileRunning == running /\ listenerDown => early

\* The main thread waits in shutdown() for the operator to quit the console.
WaitsForConsole == Alive /\ shut.by = Main /\ shut.at = "tui" /\ tui = "running"

\* Whoever calls shutdown(), and whenever, the process ends, in order or not,
\* unless the main thread waits for ever for the operator to quit the console.
\* No other wait of it is without end: a worker that waits for itself, for its
\* own sessions_mutex_ or at its own join, and one that waits for the console
\* end with the process, which main's return from run() terminates.
ShutdownEnds == <>[]~WaitsForConsole => (shut.at # "none" ~> ended # "no")

\* A public server gets listed and stays so: if the directory can be reached
\* from some time on and left no request unanswered before, then again and
\* again the server is listed under the id it pings with, whatever was lost
\* before (registration retries and "not found").
Listed ==
    <>[](reachable /\ ~Waiting) => []<>(config.public /\ running => serverId \in known)
=============================================================================
