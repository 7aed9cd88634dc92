# ircord-server in TLA+

A verification project kept beside the C++ code of ircord-server, a chat server
with direct messages, channels, voice rooms, file transfer and key distribution.
It holds TLA+ modules translated from the source, TLC configurations that check
them on small instances, and theorems checked by TLAPS that hold for every value
of the constants. `PROJECT.json` lists the components, runs, mutants, hazards and
theorems, and for every definition the lines of the source it stands for.
Paths of code below are relative to the repository's `src/`, those of documents
(`docs/`) to its root.

## 1. The system

One process. `main.cpp` reads the configuration and runs `Server` (`server.cpp`),
which owns an `io_context` run by a pool of threads, the SQLite database, the
`Listener`, the `VoiceRoomManager`, the `CommandHandler`, the virus scanner and
the directory client.

| Part | State it keeps | Operations | Modelled in |
|---|---|---|---|
| `net/session.cpp` (one object per socket) | `state_`, `user_id_`, the strand, `ping_timer_`, `ping_sent_`, `active_uploads_` | handshake, HELLO, AUTH_RESPONSE, PING/PONG, chat, key and file frames, `disconnect()`, failed reads and writes | `Connections`; its services in `Delivery`, `Files`, `Accounts` |
| `net/listener.cpp` | `sessions_by_user_`, `users_by_session_`, `active_connections_`, `shutting_down_` | accept, `on_session_authenticated`, `on_session_disconnected`, `is_nickname_available`, `find_session`, broadcasts, `shutdown` | `Connections`, `SessionDirectory`; the presence broadcasts in `Presence` |
| `voice/voice_room_manager.cpp` | `rooms_`, `user_room_` | join, leave, `on_disconnect`, notifications | `VoiceRooms` |
| `commands/command_handler.cpp` | `channels_`, `nick_to_user_id_`, `user_id_to_nick_` | /join /part /quit /nick /topic /kick /ban /invite /set /mode /password ... | `Channels`; /password in `Accounts` |
| the same file, and `net/rate_limiter.hpp` | `user_rate_limits_`, `abuse_records_`, a mutex for each; windows and counts | `allow()`, `track_abuse`, `is_abuser` | `RateLimits` |
| `db/offline_store.cpp` | table `offline_messages` | `save`, `fetch_and_delete`, `cleanup_expired` | `Delivery`, `MessageFate` |
| `db/file_store.cpp` | tables `files`, `file_chunks` | `createFile`, `storeChunk`, `getFile`, `getChunk`, `deleteFile`, `markComplete`, `cleanupExpired` | `Files`, `FileLife` |
| `db/user_store.cpp` | tables `users`, `signed_prekeys`, `one_time_prekeys` | lookup, insert, passwords, identity keys, pre-keys | `Accounts` |
| `db/database.cpp` | the connection and its mutex | one statement at a time | the granularity of the three above |
| `net/directory_client.cpp` | `running_`, `registered_`, `server_id_`, `timer_` | `start`, `stop`, register, ping, register again | `DirectoryClient`, composed in `Server` |
| `server.cpp`, `main.cpp` | `running_`, the pool, the work guard, `cleanup_timer_`, `state_timer_` | start, periodic work, signals, the console's commands, `shutdown`, destruction | `Server`; what the cleanup, a kick and a restart do to others in `Files`, `Delivery`, `Connections`, `Accounts` |
| TLS context, configuration, utilities, crypto, `ChannelManager`, server owner | none that changes while serving, or code that is never reached | | no (section 5) |

How they interact. A `Session` calls the listener through a callback interface
and finds other sessions through it; the listener calls the voice rooms when a
registered session ends; the command handler gets `find_session` as a function.
The admin console and the signals reach `Server::shutdown`, from a thread of the
pool or from any thread. There are these locks: `sessions_mutex_` of the
listener, `mu_` of the voice rooms, the database's mutex, and one for each of the two maps of
the rate limits, under which a limiter is looked up but not asked. No handler
holds one of them over its whole run, and the command handler's other maps have
none: two commands of different sessions interleave read by read and write by
write.

What is hard:

* Handlers of one session are serialised by its strand; handlers of different
  sessions, the accept loop, the console and the timers interleave freely, and
  a handler gives up its lock between any two calls.
* A session ends in five ways (failed read, failed write, refused length, ping
  timeout, `disconnect()`), several may happen to one session, and each does a
  different part of the cleaning up.
* No handler uses a transaction: a stop of the server, or a statement that
  fails, leaves the first half of what it was doing.
* Clients are told of changes by notifications sent after the lock is released;
  nobody ever sends them the whole state again.
* Three chains of callbacks re-arm themselves on a check of `running_`, which a
  shutdown on another thread overtakes; the same shutdown joins those threads,
  waits for the console's, and takes a lock that the thread it interrupted as a
  signal handler may hold.

What makes each part correct: one session per user and only authenticated ones
in the registry; a session only moves towards its end and reads one frame at a
time; clients' views of presence, rooms and channels agree with the server's
once nothing is under way; a message is in one place and keeps its order; a
complete file is clean and frozen; keys handed out belong to the identity they
are handed out with; limits hold and bans are earned; the periodic work goes on
exactly once, and the process ends when it is told to.

## 2. The modules

An action is one step under one lock. A handler that takes several locks is
split at them, with a program counter (`pc`, `phase`, `step`, `handler`, `task`,
`running`, `leaving`, `handlers`) in between; everything a handler does within a
lock section, the writes it starts included, is in one action. A frame that only
produces an error message is a stuttering step. Mutants (definitions preceded
by a comment starting "Mutant:") are the plausible errors that the properties
are shown to exclude; no specification uses them.

**`Connections`** models `Session` and `Listener`. `strand[s]` is the queue of
handlers posted to the session's strand, in order; `reading[s]` and `writes[s]`
the operations outstanding at the reactor, which ends them in any order and
with any result; `timer[s]` what `ping_timer_` waits for. A timer that has
expired is already in the strand and can no longer be cancelled, which is the
race the code has. `sessionsByUser` and `usersBySession` are the two maps.
Authentication is three steps (`CheckNickname`, `Authenticate`,
`AnnounceOnline`), because the nickname is checked and the session registered
under two locks; a disconnect is two (`ConnectionLost` or a timer's handler,
`AnnounceOffline`). `Referenced(s)` says that a `shared_ptr` to the session
exists; the timer's handlers hold none. Header and payload reads are one read.
Frames of the services below are one action, `HandleFrame`, which sends to any
of the sessions they can send to.

**`SessionDirectory`** is the abstract specification of the registry: users log
in and out, a login replaces, nobody comes back after a removal.
`Connections` is shown to implement it (`ImplementsDirectory`), by TLC and by
proof, with `online <- sessionsByUser` and `served` as the sessions that have
authenticated; `Presence` and `Delivery` by proof. A `Clear` may add to `served`,
because a restart (of `Delivery`) ends sessions that were about to be entered.

**`Presence`** looks at the same logins and logouts from the clients. A login is
the lock section that enters the session and collects the users that are online
(`OnSessionAuthenticated`), the messages of that snapshot one by one, the lock
section that collects the recipients of ONLINE (`Collect`), and one send for
each; a logout is the removal, `Collect` and the sends of OFFLINE. `view[s]` is
what the client of `s` believes. A session's own handlers keep their order (its
strand), those of two sessions do not: `crossed` is history and holds the
clients to whom ONLINE and OFFLINE of one user were under way together.

**`VoiceRooms`** models the voice rooms with the notifications: `viewRoom` and
`viewMembers` are what a client knows from the frames it was sent. The listener
unregisters a user before it calls `on_disconnect`, so `leaving` holds the users
in between; one that was unregistered by a ping timeout is still `connected` and
goes on sending requests.

**`Channels`** models the command handler's channels and nicknames. There is no
lock, so a step is one look-up, one check or one change, and `task[w]` is how far
the command on thread `w` has come: /mode reads the operators (`CheckOperator`), the nicknames
(`Lookup`, `Bearer`), the members (`CheckMember`) and then gives the right (`Grant`); /join inserts,
counts, crowns, reads the list and sends it member by member (`Insert`, `Count`,
`Crown`, `FindList`, `Send`). A command keeps a reference to its channel; when
another one destroys the channel meanwhile the reference dangles (`Freed`), and
what the command then reads can be anything, what it writes lands in a channel
created since or nowhere (`Reach`). `nick_to_user_id_.count(n)` and the
`nick_to_user_id_[n]` after it are two steps; between them the nickname can be
given up, and then `[]` makes an entry for the empty user id (`Subscript`,
`Nobody`). `session` says whether the registry finds a session of a user; one
that it has lost (a PING without answer) goes on sending commands. `view` is the last
user list the session found was sent; of a list the names are kept, not the nicknames
and signs in front of them, which /nick and /mode do not push. `stored`
are members whose NICK_CHANGE went to the offline store. Four histories name what the
interleaving can break, and the properties say that nothing else does:
`slipped` (entered after the check of bans had expired), `strays` (a right given
or left after the check of membership had), `mixed` (a change of members while an
earlier one is being told), `forked` (one user, two /nick at once).

**`RateLimits`** models the limiters of one user (the maps are keyed by user) and
the ban that follows refusals, with two sessions of the user handling commands
at once. `allow()` is two steps, `AllowReads` and `AllowGrants` or
`AllowRefuses`, because it is called after the mutex is released. Times are ages
that grow with `Tick` and stop where the code no longer tells them apart.
`grants` and `refusals` are history, the ages of the latest ones; `overlap` marks
strands that were in one `allow()` together, `late` handlers that had passed
`is_abuser` when the ban began.

**`Delivery`** models a direct message from `handle_chat` to the recipient's
client, directly or through the offline store: lookup (`FindSession`), then
`Route` or `Save`; login as check, registration, fetch, and one send per stored
message. `inbox` and `dropped` are history: what clients received, and what the
code gave up for a reason of its own (refused, evicted, expired, sent to a
connection that was gone, held by a server that stopped).

**`MessageFate`** is the abstract specification of that: a message is unsent, held,
delivered or lost. It is accepted once, in its sender's order, it leaves "held" once,
for "delivered" or for "lost", and never again. `Delivery` is proved to implement it;
`NothingVanishes` adds that what is lost was given up for a reason. What it does
not say is that a message is delivered only once: that is `AtMostOneCopy`, which a
failing `DELETE` breaks.

**`Files`** models uploads, the virus scan, completion, downloads chunk by chunk
and the cleanup. A chunk is its file, its index and whether the scanner would
object (`bad`). `Reuse` says whether clients use a file id again after its file
is gone (the protocol calls ids unique, the server does not enforce it),
`Faults` which calls of the store may fail unnoticed. A frame over 65536 bytes
(`kMaxMessageSize`, `net/session.hpp:121`) is refused and ends the session
(`OversizedChunk`), so the data of a chunk, `FrameData`, is less than the 64 KB
(`DownloadChunk`) in which downloads count; how much a chunk holds is compared
with nothing else. `received` is history: what the present or last download of a
complete file by a session was sent.

**`FileLife`** is the abstract specification of that, for ids that are not used twice:
a file is new, open, complete, abandoned or gone. Chunks are written to an open
file only, nothing opens a file a second time, and a removed file takes its
chunks with it. With a scanner whose reads succeed, what is completed is clean.
`Files` is proved to implement it.

**`Accounts`** models registration, login, recovery by password, the upload and
the hand-out of pre-keys and /password, one call of the user store a step. An
identity carries the number of times the account's identity was written, so
that a pre-key of an earlier identity can be told from one of the present. A ping
timeout takes a session off the registry and does not end it (`PingTimeout`): it
goes on uploading keys until it is closed (`EndSession`).

**`DirectoryClient`** models the chain of callbacks that lists a public server:
`requests` under way, `replies` whose completion no thread has taken, `handlers`
that have passed their check of `running_`, and the `timer`. The directory
itself is external and does what the network allows: it answers, it cannot be
reached and the request fails (after it was taken, perhaps), it forgets ids, or
it goes away with a connection open and the request is never answered
(`silent`).

**`Server`** EXTENDS `DirectoryClient` and composes it with the life of the
process: `main` is how far the main thread has come in the constructor, `run()`
and the destructor; `pool[w]` what each thread is doing; `shut` the call of
`shutdown()` that found `running_` true, the thread it runs on and how far it
is. A signal may run it on any thread, in the middle of a handler; the console
posts it to the pool. `armed` are the timers of the hourly cleanup and of the
console's state. A handler of the directory client takes a worker, so what
`stop()` and `ioc_.stop()` cut off is cut off in both modules. Unless headless,
the server has a console thread (`tui`), which its operator ends (`TuiQuits`) or
does not, and `shutdown()` joins it (`JoinTui`). `lock` is the worker that holds
`sessions_mutex_` (`LockSessions`, `UnlockSessions`), which `shutdown()` takes
(`ShutSessions`): a signal that interrupts that worker waits for itself. The
`config` of a behaviour says whether the server is public and whether it is headless.

The state of the services is otherwise disjoint: `Delivery`, `VoiceRooms`,
`Presence` and `Accounts` keep the part of the registry they depend on
(`online`, `registered`, `entry`, `registry`). That `Connections`, `Presence` and
`Delivery` move it in the steps of `SessionDirectory` (a login that may replace, the
end of a session, a shutdown) is proved. `VoiceRooms`, which keeps users and not
sessions, and `Accounts`, whose sessions are used again for later connections,
correspond to it by reading.

## 3. The runs

`tlc -config X.cfg M` for every run. All variables are bounded by constants
named in the modules; no run uses a state constraint.

| Run | Instance | States | Properties |
|---|---|---|---|
| `connections` | 2 sessions, 2 users with one folded nickname | 3.1 million | `RegistrySound` `SingleReadChain` `SessionsOnlyEnd` `ImplementsDirectory` |
| `connections_live` | 1 session, queue of 3 | 81 thousand | `PingResolved` `ClosingEnds` |
| `voice_rooms` | 3 users, 2 rooms of 2 | 237 thousand | `RoomsSound` `ViewsAgree` |
| `channels` | 2 users, 1 channel, 2 threads, 5 commands of a mix of kinds (4 with lists) | 2.2 million (2 min) | `BannedAreOut` `RightsOfOutsiders` `NicksAreCurrent` `ListsAgree` |
| `delivery` | 2 senders with 2 messages, 2 logins, 2 recipients, a store of 3 with 2 per user | 1.4 million | `OneCopyOrDropped` `InOrderByTheSameWay` `OneStrandedPerSender` |
| `files` | 2 sessions, 2 files of at most 3 units (sizes 0, 1, 3, 4 asked for), chunks of 1 and 2, a frame of 1, downloads in 2 | 1.2 million | `NoOrphans` `CompleteIsClean` `DownloadsSound` `OnlyUploadersWrite` |
| `accounts` | 2 sessions and 2 requesters on one account, 2 keys, failing statements | 4.5 million (3 min) | `OwnerOnly` `KeysMatchIdentity` `BundlesFresh` |
| `presence` | 3 sessions of 2 users | 298 thousand | `ViewsSettle` |
| `rate_limits` | 2 sessions of a user, 1 command and 1 join in a window of 2, a ban of 2 after 2 violations within 1 | 1.1 million | `GrantsBounded` `BansJust` `BanEnds` |
| `server` | main thread, 2 workers and the console's thread; a public server with 2 directory ids, and servers that are not public, headless and not | 539 thousand | `ChainsHold` `EndsInOrder` `AcceptsWhileRunning` `ShutdownEnds` `Listed` |

Each passing run but `connections_live` checks the module's `TypeOK` too. Every
property is stated in its module, with the behaviour of the code it is about.

Why the bounds are enough for the questions asked. The properties of the
registry speak of two sessions at most: the one that acts and the one that is
replaced, for one user or for two whose nicknames fold to the same; that the
strand queue is bounded at one entry before the reactor adds more
(`MaxQueue`) still lets `disconnect()` be posted behind it, and
`connections_live` uses three. Presence needs a session that ends, its
successor and a third that watches. Two rooms of two with a third user reach
the full room, the move from a room to a full one and the last leaver. Two
messages of two senders reach the limit per user and, with three rows, the
eviction. A file of three units takes three chunks of one, of which a download
counts two, sizes 0 and 4 are refused, and the clock of one tick reaches the
expiry. The
window of the limiter and the ban are longer than the violation window, as the
ban is in the code, so that every order of their ends happens. Two workers
allow a shutdown on one while the other is in any handler. The public server of
the run is left alone with its directory; the frames that hold `sessions_mutex_`
and the signals before `run()` are those of the others (`MCNext`), because what they
disturb, the sessions and the listener, is nothing the directory client uses.

The commands of two threads interleave at every step, so `channels` bounds what is
given: in one behaviour the commands are of one mix of kinds (`MCMixes`), at most five
(`MaxCommands`), or four when users are online and lists are sent
(`MaxListed`). Three commands set up an interleaving (two joins, one of which crowns,
and a ban or a right) and two interleave. With these bounds each of `slipped`, `strays`,
`mixed` and `forked` becomes nonempty, channels are destroyed under commands
that hold a reference, and entries for nobody are made. Where an invariant
is proved as well (section 4) the bound is of no importance.

Deadlock is checked except in `Connections`, `Presence` and `Server`: there a
server that has shut down, or whose sessions have all been used, really has
nothing left to do.

Fairness is assumed in four places. `Connections!LiveSpec`: the pool goes on
running posted handlers (weak fairness of each strand), a timer that is not
cancelled expires, and a closed socket ends its outstanding operations, all of
which asio guarantees. Nothing is assumed of peers: a read of an open socket
need not ever end. `Delivery!LiveSpec`: a handler that has started runs to its
end; nobody need send, log in or leave. `RateLimits!RateLiveSpec`: time passes,
handlers run to their end, and the user tries again and again, which is what
`BanEnds` is about: attempts during a ban must not prolong it.
`Server!LiveSpec`: each thread goes on with what it is doing, timers elapse and
a directory that can be reached ends requests (weak fairness); a completion of
the directory client is not passed over for ever (strong fairness, because it
is disabled whenever both workers are busy): the `io_context` serves its queue
in order. Nothing is assumed of signals, the console and the directory's coming
back; `Listed` has the latter as its condition.

### What the documentation says and the code does not do

Two runs check a sentence of the repository's comments or documents and end
in a counterexample.

* `connection_count`: `active_connections_` is the "Total active connections"
  (`net/listener.hpp:127`), but a session reports its end once per failed
  operation and the counter goes below zero, so it no longer limits connections.
* `reconnect`: the offline queue delivers "reconnectissa"
  (`docs/server-architecture.md:659`). A message looked up before a login and
  saved after its fetch stays while the recipient is online. `OneStrandedPerSender`
  (run `delivery`) shows the extent: one message of each sender.

Met while modelling, and visible in the modules; the properties are stated
around them:

* `disconnect()` leaves `on_session_disconnected` ("Called when a session
  disconnects", `net/session.hpp:160`) to the outstanding read. When it runs
  between two frames there is none and none is started, and the session stays in
  the registry (`net/session.cpp:174`; second half of `ClosingEnds`).
* A ban is to "Kick if currently in channel" (`commands/command_handler.cpp:402`)
  but, unlike a kick, leaves operator status: the banned operator commands the
  channel from outside (`RightsOfOutsiders` names this as the only way).
* `is_last` is "True if this is the final chunk" (`proto/ircord.proto:253`).
  Uploads are cut into chunks of the client's choice, downloads count in chunks
  of 64 KB. Full chunks of 64 KB do not fit in a frame, so uploads come in
  smaller ones, and of a file that takes more of them than `total` counts a
  download sends the first part and flags it as the end (with larger ones, not
  filled up, it would end in an error). The client's `is_last` completes a file
  whichever chunks have arrived, and `handle_file_download` serves files that are
  not complete. What is left to be said of a download is `DownloadsSound`.
* The console's `shutdown` posts `shutdown()` to the pool, whose threads it then
  joins, itself among them: the exception ends the process by `std::terminate`,
  not gracefully (`docs/plans/ADMIN_RESERVED_PLAN.md:270`). So does a signal
  delivered to a thread of the pool, and one that comes before the pool exists
  (`EndsInOrder` says when the end is orderly: exactly on the main thread, with a
  pool). A signal on the main thread waits for the operator to quit the console
  (`server.cpp:331`), for ever if need be; that is what `ShutdownEnds` excludes.
  A worker that waits for itself, in its own join or for the `sessions_mutex_` it
  holds, does not keep the process: `running_` is false by then, main leaves
  `run()`, and the destruction of threads that are not joined terminates it.
* Until `run()` installs `signal_handler` the listener's own signal set catches
  signals: one that comes then stops the listener only, and the server stays up
  without it (`AcceptsWhileRunning`).
* No request to the directory has a timeout: a directory that falls silent with
  the connection open ends the listing (`Listed` presumes it did not).
* A handler that has passed `is_abuser` when a ban begins, and is refused after
  the violation window, starts the record over and lifts the ban (`late` in
  `BansJust`); `allow()`, "not thread-safe" (`net/rate_limiter.hpp:8`), is called
  without a lock, and two sessions of a user can lose a count (`overlap`).
* Two spellings of a nickname can both log in (`CheckNickname` and
  `Authenticate` are two lock sections).
* A ping timeout unregisters a session and leaves its socket open, and the
  session goes on sending, joining voice rooms included, with nobody to clean up
  after it; a timeout that has expired wins over a PONG handled before it.
* ONLINE and OFFLINE of one user that are under way together may arrive in
  either order, and clients keep the wrong one until the user's next login or
  logout (`crossed`).
* Commands of different sessions interleave without a lock, and each of the
  rules has its exception: a /ban after the check of a /join leaves a banned
  member (`slipped` in `BannedAreOut`), a /part or /kick between the check and the
  insertion of /mode or /join leaves an operator outside the channel (`strays`
  in `RightsOfOutsiders`), lists of two changes that overlap arrive in either order
  (`mixed` in `ListsAgree`), and a channel found empty is destroyed under the
  commands that refer to it.
* A `DELETE` that fails in `fetch_and_delete` delivers the rows again at the
  next login.
* With file ids used twice an old upload can write into the new file; with two
  sessions of one account at once the older can upload keys after the newer has
  recovered the account (`overlap` of `Accounts`).

## 4. The proofs

`tlapm M.tla` checks each of the eight proof modules. The theorems assume what
the ASSUMEs of the component's module say of its constants (distinctness of
`None`, natural numbers that are not zero, at least one worker) and nothing
else, unless the theorem says so. Together they cover every invariant of the
passing runs.

**`ConnectionsProofs`**: the invariants of the run, three action
properties and the refinement. None of the invariants is inductive alone. That
the two maps are inverse (`RegistryBijection`) survives a login only if the
session that logs in has no entry yet; that follows from its state
(`AuthPending` during the handler: `StrandMatchesState`) and
`RegisteredAreAuthenticated`; that no second AUTH_RESPONSE is handled meanwhile
is `SingleReadChain`, which in turn needs `StrandMatchesState` for the handshake. Their
conjunction `Inv` with the types is inductive. There is one lemma per group of
actions, and lemmas on `Append` and `Tail` for what a strand holds. A step of `Authenticate` is a
`Login` of the directory, the handlers that end in `on_session_disconnected` a
`Logout` or a stutter, `Shutdown` a `Clear`, every other step a stutter.

**`VoiceRoomsProofs`**: the invariants. `RoomBound` is about cardinalities,
so the inductive invariant adds that rooms are finite (`FiniteRooms`);
`ViewsAgree` is inductive together with `RoomsConsistent`: a notification
reaches exactly the participants because both maps agree who they are.

**`CommandProofs`**: `Channels` and `RateLimits`, the two parts of the command
handler. For the channels the types, `BannedAreOut`, `RightsOfOutsiders`,
`NicksAreCurrent` and `ListsAgree`, for any number of threads whose commands
interleave step by step, destroyed channels included. `WellFormed` says what a
command knows at each step, and the rest of the inductive invariant what it may rely on
while others run: a /join past its check enters somebody not banned (`Bans`), and
/mode gives a right to a member (`Rights`), unless `ref` says that the check has
expired; a user that is not `forked` has one /nick under way, which erases the only
entry it has (`Nicks`); and whoever has not the present list is about to be sent it
(`ListsSure`). For
the rate limits the types, `GrantsBounded` and `BansJust`. The inductive
invariant `RateInv` ties the histories to the maps. For every limiter some
number `n` of the counted grants lies in its current window (`WindowHolds`): `n`
is at most the count, and at most the count any strand has read; every grant
beyond the `n` latest is at least as old as the window, every one beyond `n +
max` a whole window old. A strand that counts a grant without having overlapped
another is alone inside (`Overlapping`), so no stale count is written after it.
For the bans, the violations of the record are the latest refusals, none older
than `first` (`Recorded`), and whoever is past `is_abuser` during a ban was so
when it began (`PassedBefore`). From the same invariant `BansRunOut`: attempts during a
ban do not prolong it, but for those handlers, once each; that the ban then ends is
`BanEnds`, which only TLC checks.

**`FilesProofs`**: the types, `NoOrphans`, `CompleteIsClean`, `DownloadsSound` and the
two action properties of which `OnlyUploadersWrite` is made.
The strengthening is in two parts. `Uploads`: with ids not used twice, whatever
is uploaded was requested, one session uploads a file, a complete file has no
upload, and a scan belongs to an upload. `Contents`: the chunks of a file that
is being uploaded are within what its upload expects, and a scan has seen every
chunk before its position (`ScanHasSeen`), so when it reaches the end without
objection there is no bad chunk, which is `CompleteIsClean`. The two action properties rest
on one lemma, `OnlyUploadsWrite`: a file nobody uploads is changed by no step
but its removal. `DownloadsSound` adds `Readers`: there is one chunk to an index
(`ChunksUnique`), and while the file exists a reader of a complete file has been
sent what the store holds (`Sent`), which nothing writes to any more; two readers
were therefore sent the same, and that stays so when the file is removed.
`LifeImplemented`: under `~Reuse` every step is one of
`FileLife`, with any calls of the store failing. `lives` reads the stage of a file
off its row, the ids that were requested and the uploads of all sessions; the end
of a session, a restart and a `markComplete` that failed or came after the cleanup
abandon files (`LifeAbandoned`), an infected file and the cleanup remove them
(`LifeRemoved`).

**`PresenceProofs`**: `ViewsSettle`. It speaks of moments when nothing is under
way; the inductive form, `NewsRight`, speaks of all: as long as nothing has
crossed, whatever is under way to a client about a user says what the registry
says, and what the client does not know yet is under way. `Shape` is what a
login needs: a session that is not entered has been sent nothing, and an entry
is of a session that authenticated as its user. From the same invariant:
`DirectoryImplemented`, the registry of this module is a `SessionDirectory`.

**`DeliveryProofs`**: `NothingVanishes` (half of `OneCopyOrDropped`) and
`InOrderByTheSameWay` whatever statements fail; `OneCopyOrDropped` and
`OneStrandedPerSender` under `~Faults`, because a failed `DELETE` does deliver
twice. `Base` says where a message can be: everything in a place has been sent
(`Known`), batches fit the phase of the login (`Phases`), what a handler holds is
nowhere else (`HandlerAlone`) and every message sent has a place or was dropped
(`Accounted`); faults do not disturb it. `Once` says that the other places exclude
each other, which they do without faults only. `Order` says that row ids grow with
a sender's numbers (`GrowingRows`) and that a batch is behind what was delivered
from the store (`StoredFirst`); it needs `Base` alone. What is stranded is what was
looked up before the registration: one handler per sender (`Stranded`).
`TwiceOnlyFromStore` bounds the damage of a failed `DELETE`: what was sent directly
is in no row and no batch (`DirectAlone`), so nobody gets it again, and within one
login what comes from the store has growing numbers (`Order`), so none comes twice.

Two refinements hold whatever statements fail. `DirectoryImplemented`: the registry
of this module is a `SessionDirectory`, across restarts; the end of a session that
was replaced is a stutter (`Registry`: an entry is of a session that logged in as
its user). `FateImplemented`: `fates` reads what has become of a message off the
places it is in, a delivery before a copy and a copy before nothing, and every
step is one of `MessageFate`: `find_session` accepts the next message of its
sender, a send delivers one or gives it up, eviction, expiry, a failed insert and
a restart give up any number, and the rest is a stutter, a repeated fetch and a
second delivery included (`FateGivenUp`, `FateSent`, `FateAccepted`).

**`AccountsProofs`**: the types, `OwnerOnly`, `KeysMatchIdentity` and
`BundlesFresh`, with failing statements and restarts. `Shape` says what each
`pc` implies for the account it works on. `OwnerOnly` rests on the generations of
an identity, which only grow (`Grows`): the identity a handler logs in with is
the account's or an earlier one (`Owners`).
`KeysMatchIdentity` needs the history: `Single` says that an account outside
`overlap` has one session in use at most, `Cleared` that a recovery between its
deletes and its update has left no keys. For the bundles, `Collection` says of
each half-made bundle that its identity is no newer than what is still to be
read, and `Ids` that one-time keys are numbered once.

**`ServerProofs`**: `ChainsHold` (with that of the directory client),
`EndsInOrder`, `AcceptsWhileRunning` and the types, for any number of threads.
`OneLink` replaces the count of `ChainHolds` by a case for each link, which a
step can only exchange; `Named` follows the id from the reply to the request.
`Shutting`, `Pools` and `Closed` relate the steps of `shutdown()` to what it has
already turned off, `Consoles` its thread to the console's; `Unstarted` says what there is
before `run()`.

Only model-checked: the liveness properties (`PingResolved`, `ClosingEnds`,
`BanEnds`, `ShutdownEnds`, `Listed`), which are out of the prover's reach. The run
`delivery` has no failing statements, because two of its invariants presume that.

## 5. Not modelled

Below the level of the models, because the code leaves it undefined: frames torn
by overlapping `async_write` calls, buffers and timer handlers that outlive their
session, two threads inside one container of the command handler at the same
instant (the order of their steps is modelled, a broken container is not), what a
signal handler may not call besides taking a lock.

I/O and pure functions: TLS, SQL text, protobuf, HTTP, the ClamAV protocol,
cryptography, configuration (read once at start; its values are constants),
logging and string handling.

Never reached: `ChannelManager`, `cleanup_dead_sessions`,
`cleanup_old_abuse_records`, `check_rate_limit`, the reserved identities and the
server owner, the file encryption, `listFiles` and the other reports of the file
store.

Left out of a module that models the rest: messages to channels, which the code
sends to every registered session (part of `HandleFrame`); the limiters of
messages and of addresses, which are the class of `RateLimits` and only refuse,
which the modules allow at any time (`ip_rate_map_` never shrinks); the console
commands that only report or set a limit (one sets the connection rate to -1
with the message rate); the HTTP server; of the integrated console all but its
thread; the text of a topic, and the option "moderated", which nothing reads;
/resetdb, which deletes users before the rows that refer to them, so that it
fails once one of them has uploaded keys.

## 6. Plan

Done, in this order: the connection core with its abstract specification and
proofs, voice rooms, channels, direct messages, files, accounts; then the
server's life with the directory client, presence and the rate limits, and the
proofs of presence, delivery, accounts, the server, downloads and the rate
limits, the refinements of `SessionDirectory`, `MessageFate` and `FileLife`; last the
commands step by step, and the console's thread and `sessions_mutex_` in `Server`.

Left:

1. More refinements: what a directory server may assume of `DirectoryClient`, what
   a client may assume of the pre-keys of `Accounts`.
2. /resetdb and the console's limits, with `Accounts` and `Connections`.
