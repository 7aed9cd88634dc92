------------------------------ MODULE Delivery ------------------------------
(***************************************************************************)
(* Direct messages: handle_chat and the end of handle_auth_response        *)
(* (net/session.cpp), the registry they consult (net/listener.cpp) and the *)
(* store for recipients that are offline (db/offline_store.cpp).           *)
(*                                                                         *)
(* handle_chat asks the registry for the recipient under one lock and      *)
(* sends to the session it got, or saves to the store, after releasing it; *)
(* a login enters the registry and empties the store under two locks.      *)
(* Handlers of different sessions interleave between these steps.  The     *)
(* store is on disk and survives a restart, nothing else does.             *)
(***************************************************************************)
EXTENDS Integers, Sequences, FiniteSets

CONSTANTS
    Sender,       \* sessions that send direct messages
    Session,      \* sessions that log in to receive; each at most once
    User,         \* the recipients
    None,
    MaxPerUser,   \* kMaxMessagesPerUser
    MaxTotal,     \* kMaxTotalMessages
    Ttl,          \* kTtlSeconds
    MaxMessages,  \* bound: messages of a sender
    MaxTime,      \* bound: the clock
    Faults        \* whether statements of SQLite may fail

ASSUME DeliveryAssumption ==
    /\ None \notin Session /\ None \notin User
    /\ MaxPerUser \in Nat \ {0} /\ MaxTotal \in Nat \ {0}
    /\ Ttl \in Nat \ {0}
    /\ MaxMessages \in Nat /\ MaxTime \in Nat
    /\ Faults \in BOOLEAN

VARIABLES
    now,      \* now_unix()
    rows,     \* the table offline_messages
    lastId,   \* the id AUTOINCREMENT gave last
    online,   \* sessions_by_user_
    phase,    \* how far a session has come in its login
    user,     \* the user a session logs in as
    alive,    \* sessions whose connection still takes what is sent
    batch,    \* rows a login has fetched and not yet sent
    inbox,    \* what a session's client has received, in order
    sent,     \* how many messages a sender has sent
    handler,  \* the handle_chat of a sender between lookup and send or save
    dropped   \* messages given up: refused, evicted, expired, or sent in vain

receivers == <<online, phase, user>>
senders   == <<sent, handler>>
store     == <<rows, lastId>>
vars == <<now, rows, lastId, online, phase, user, alive, batch, inbox, sent, handler, dropped>>

Message == Sender \X (1..MaxMessages)
Row     == [id : Nat, to : User, msg : Message, expires : Nat]
Idle    == [to |-> None, msg |-> None, session |-> None]
Lookup  == [to : User, msg : Message, session : Session \cup {None}]
Receipt == [msg : Message, stored : BOOLEAN]

RowsOf(u) == {r \in rows : r.to = u}
Expired(R) == {r \in R : r.expires <= now}
Messages(R) == {r.msg : r \in R}
Oldest(R) == {r \in R : \A q \in R : r.id <= q.id}

Init ==
    /\ now = 0
    /\ rows = {} /\ lastId = 0
    /\ online = [u \in User |-> None]
    /\ phase = [s \in Session |-> "new"]
    /\ user = [s \in Session |-> None]
    /\ alive = {}
    /\ batch = [s \in Session |-> {}]
    /\ inbox = [s \in Session |-> <<>>]
    /\ sent = [p \in Sender |-> 0]
    /\ handler = [p \in Sender |-> Idle]
    /\ dropped = {}

(* send(): a connection that is gone swallows the message. *)
SendTo(s, m, stored) ==
    IF s \in alive
    THEN /\ inbox' = [inbox EXCEPT ![s] = Append(@, [msg |-> m, stored |-> stored])]
         /\ UNCHANGED dropped
    ELSE /\ dropped' = dropped \cup {m}
         /\ UNCHANGED inbox

-----------------------------------------------------------------------------
(* The sender's handle_chat. *)

(* Mutant: the recipient is forgotten with the session that was not found. *)
FindSessionForgets(p, u) ==
    /\ handler[p] = Idle /\ sent[p] < MaxMessages
    /\ sent' = [sent EXCEPT ![p] = @ + 1]
    /\ handler' = [handler EXCEPT ![p] =
                     [to |-> None, msg |-> <<p, sent[p] + 1>>, session |-> online[u]]]
    /\ UNCHANGED <<now, store, receivers, alive, batch, inbox, dropped>>

(* Mutant: the registry is asked for something that is never a key of it.  *)
FindSessionNever(p, u) ==
    /\ handler[p] = Idle /\ sent[p] < MaxMessages
    /\ sent' = [sent EXCEPT ![p] = @ + 1]
    /\ handler' = [handler EXCEPT ![p] =
                     [to |-> u, msg |-> <<p, sent[p] + 1>>, session |-> None]]
    /\ UNCHANGED <<now, store, receivers, alive, batch, inbox, dropped>>

(* find_session. *)
FindSession(p, u) ==
    /\ handler[p] = Idle /\ sent[p] < MaxMessages
    /\ sent' = [sent EXCEPT ![p] = @ + 1]
    /\ handler' = [handler EXCEPT ![p] =
                     [to |-> u, msg |-> <<p, sent[p] + 1>>, session |-> online[u]]]
    /\ UNCHANGED <<now, store, receivers, alive, batch, inbox, dropped>>

(* The recipient was online: the message goes to the session that was      *)
(* found, whatever has become of it.                                       *)
Route(p) ==
    /\ handler[p] # Idle /\ handler[p].session # None
    /\ handler' = [handler EXCEPT ![p] = Idle]
    /\ SendTo(handler[p].session, handler[p].msg, FALSE)
    /\ UNCHANGED <<now, store, receivers, alive, batch, sent>>

(* The rows of u, expired ones included, have reached the limit. *)
UserFull(u) == Cardinality(RowsOf(u)) >= MaxPerUser

(* OfflineStore::save: a user at its limit is refused, at the global limit *)
(* the row with the smallest id makes room.  A count that fails lifts its  *)
(* limit, an insert that fails refuses the message.                        *)
OfflineSave(u, m, userCount, totalCount, insert) ==
    LET gone == IF totalCount /\ Cardinality(rows) >= MaxTotal THEN Oldest(rows) ELSE {}
        row  == [id |-> lastId + 1, to |-> u, msg |-> m, expires |-> now + Ttl]
    IN  \/ /\ userCount /\ UserFull(u)
           /\ dropped' = dropped \cup {m}
           /\ UNCHANGED store
        \/ /\ ~(userCount /\ UserFull(u)) /\ insert
           /\ rows' = (rows \ gone) \cup {row}
           /\ lastId' = lastId + 1
           /\ dropped' = dropped \cup Messages(gone)
        \/ /\ ~(userCount /\ UserFull(u)) /\ ~insert
           /\ rows' = rows \ gone
           /\ dropped' = dropped \cup Messages(gone) \cup {m}
           /\ UNCHANGED lastId

(* The recipient was offline: the message goes to the store.  One that is  *)
(* refused is reported to the sender.                                      *)
Save(p, userCount, totalCount, insert) ==
    /\ handler[p] # Idle /\ handler[p].session = None
    /\ Faults \/ (userCount /\ totalCount /\ insert)
    /\ handler' = [handler EXCEPT ![p] = Idle]
    /\ OfflineSave(handler[p].to, handler[p].msg, userCount, totalCount, insert)
    /\ UNCHANGED <<now, receivers, alive, batch, inbox, sent>>

-----------------------------------------------------------------------------
(* The recipient's login and its end. *)

(* is_nickname_available: nobody is online as u. *)
CheckNickname(s, u) ==
    /\ phase[s] = "new" /\ online[u] = None
    /\ phase' = [phase EXCEPT ![s] = "checked"]
    /\ user' = [user EXCEPT ![s] = u]
    /\ alive' = alive \cup {s}
    /\ UNCHANGED <<now, store, online, batch, inbox, senders, dropped>>

(* on_session_authenticated: the session takes the place of any other. *)
EnterRegistry(s) ==
    /\ phase[s] = "checked"
    /\ phase' = [phase EXCEPT ![s] = "entered"]
    /\ online' = [online EXCEPT ![user[s]] = s]
    /\ UNCHANGED <<now, store, user, alive, batch, inbox, senders, dropped>>

(* Mutant: the rows are deleted where their time is over, not where they   *)
(* were fetched.                                                           *)
FetchAndDeleteExpired(s, delete) ==
    /\ phase[s] = "entered"
    /\ Faults \/ delete
    /\ phase' = [phase EXCEPT ![s] = "fetched"]
    /\ LET R == RowsOf(user[s]) IN
       /\ batch' = [batch EXCEPT ![s] = R \ Expired(R)]
       /\ rows' = rows \ Expired(R)
       /\ dropped' = dropped \cup Messages(Expired(R))
    /\ UNCHANGED <<now, lastId, online, user, alive, inbox, senders>>

(* Mutant: the delete has no WHERE. *)
FetchAndDeleteEverybody(s, delete) ==
    /\ phase[s] = "entered"
    /\ Faults \/ delete
    /\ phase' = [phase EXCEPT ![s] = "fetched"]
    /\ LET R == RowsOf(user[s]) IN
       /\ batch' = [batch EXCEPT ![s] = R \ Expired(R)]
       /\ rows' = {}
       /\ dropped' = dropped \cup Messages(Expired(R))
    /\ UNCHANGED <<now, lastId, online, user, alive, inbox, senders>>

(* fetch_and_delete: the rows of the user that have not expired are read   *)
(* by id and all its rows deleted.  When a statement fails, what was read  *)
(* until then is returned all the same.                                    *)
FetchAndDelete(s, delete) ==
    /\ phase[s] = "entered"
    /\ Faults \/ delete
    /\ phase' = [phase EXCEPT ![s] = "fetched"]
    /\ LET R    == RowsOf(user[s])
           live == R \ Expired(R)
       IN  /\ \E read \in SUBSET live :
                 /\ \A q \in read, r \in live : r.id <= q.id => r \in read
                 /\ delete => read = live
                 /\ batch' = [batch EXCEPT ![s] = read]
           /\ rows' = IF delete THEN rows \ R ELSE rows
           /\ dropped' = IF delete THEN dropped \cup Messages(Expired(R)) ELSE dropped
    /\ UNCHANGED <<now, lastId, online, user, alive, inbox, senders>>

(* Mutant: the fetched messages are sent last first. *)
SendStoredLastFirst(s) ==
    /\ \E r \in batch[s] :
          /\ \A q \in batch[s] : q.id <= r.id
          /\ batch' = [batch EXCEPT ![s] = @ \ {r}]
          /\ SendTo(s, r.msg, TRUE)
    /\ UNCHANGED <<now, store, receivers, alive, senders>>

(* One round of the loop that sends the fetched messages, by id. *)
SendStored(s) ==
    /\ \E r \in Oldest(batch[s]) :
          /\ batch' = [batch EXCEPT ![s] = @ \ {r}]
          /\ SendTo(s, r.msg, TRUE)
    /\ UNCHANGED <<now, store, receivers, alive, senders>>

(* on_session_disconnected, on the strand of s once the login is through:  *)
(* a session that was replaced has no entry left to remove.                *)
Leave(s) ==
    /\ phase[s] = "fetched" /\ batch[s] = {}
    /\ phase' = [phase EXCEPT ![s] = "gone"]
    /\ online' = [u \in User |-> IF online[u] = s THEN None ELSE online[u]]
    /\ UNCHANGED <<now, store, user, alive, batch, inbox, senders, dropped>>

(* The connection breaks, or is closed by disconnect(). *)
ConnectionBreaks(s) ==
    /\ s \in alive
    /\ alive' = alive \ {s}
    /\ UNCHANGED <<now, store, receivers, batch, inbox, senders, dropped>>

-----------------------------------------------------------------------------
(* The server around them. *)

Tick ==
    /\ now < MaxTime
    /\ now' = now + 1
    /\ UNCHANGED <<store, receivers, alive, batch, inbox, senders, dropped>>

(* schedule_cleanup, once an hour: cleanup_expired. *)
CleanupExpired ==
    /\ rows' = rows \ Expired(rows)
    /\ dropped' = dropped \cup Messages(Expired(rows))
    /\ UNCHANGED <<now, lastId, receivers, alive, batch, inbox, senders>>

(* The server stops and starts again: sessions and handlers are gone, and  *)
(* with them the messages they held.                                       *)
Restart ==
    /\ online' = [u \in User |-> None]
    /\ phase' = [s \in Session |-> IF phase[s] = "new" THEN "new" ELSE "gone"]
    /\ alive' = {}
    /\ batch' = [s \in Session |-> {}]
    /\ handler' = [p \in Sender |-> Idle]
    /\ dropped' = dropped
         \cup {handler[p].msg : p \in {q \in Sender : handler[q] # Idle}}
         \cup Messages(UNION {batch[s] : s \in Session})
    /\ UNCHANGED <<now, store, user, inbox, sent>>

Send(p) ==
    \/ \E u \in User : FindSession(p, u)
    \/ Route(p)
    \/ \E userCount, totalCount, insert \in BOOLEAN : Save(p, userCount, totalCount, insert)

Receive(s) ==
    \/ \E u \in User : CheckNickname(s, u)
    \/ EnterRegistry(s)
    \/ \E delete \in BOOLEAN : FetchAndDelete(s, delete)
    \/ SendStored(s)
    \/ Leave(s)
    \/ ConnectionBreaks(s)

Next ==
    \/ \E p \in Sender : Send(p)
    \/ \E s \in Session : Receive(s)
    \/ Tick \/ CleanupExpired \/ Restart

Spec == Init /\ [][Next]_vars

(* Handlers that have started run to their end; nobody has to log in,      *)
(* leave, or send anything.                                                *)
Fairness ==
    /\ \A p \in Sender :
          WF_vars(Route(p) \/ \E a, b, c \in BOOLEAN : Save(p, a, b, c))
    /\ \A s \in Session :
          WF_vars(EnterRegistry(s) \/ SendStored(s)
                  \/ \E delete \in BOOLEAN : FetchAndDelete(s, delete))

LiveSpec == Spec /\ Fairness

-----------------------------------------------------------------------------
(* Properties. *)

(* Every variable has its type. *)
TypeOK ==
    /\ now \in Nat
    /\ rows \in SUBSET Row /\ lastId \in Nat
    /\ online \in [User -> Session \cup {None}]
    /\ phase \in [Session -> {"new", "checked", "entered", "fetched", "gone"}]
    /\ user \in [Session -> User \cup {None}]
    /\ alive \in SUBSET Session
    /\ batch \in [Session -> SUBSET Row]
    /\ inbox \in [Session -> Seq(Receipt)]
    /\ sent \in [Sender -> 0..MaxMessages]
    /\ handler \in [Sender -> Lookup \cup {Idle}]
    /\ dropped \in SUBSET Message

(* Where the copies of m are: with a handler, in the store, in a batch, or *)
(* with a client.                                                          *)
Copies(m) ==
    {<<"handler", p>> : p \in {q \in Sender : handler[q] # Idle /\ handler[q].msg = m}}
    \cup {<<"row", r.id>> : r \in {q \in rows : q.msg = m}}
    \cup (UNION {{<<"batch", s, r.id>> : r \in {q \in batch[s] : q.msg = m}} : s \in Session})
    \cup (UNION {{<<"inbox", s, i>> : i \in {j \in 1..Len(inbox[s]) : inbox[s][j].msg = m}}
                 : s \in Session})

(* A message is never in two places, so no client receives it twice: not   *)
(* by way of the store and directly, not in two logins, and not because of *)
(* a restart between the store and the client.                             *)
AtMostOneCopy ==
    \A m \in Message : \A x, y \in Copies(m) : x = y

(* Every message that was sent is somewhere or was given up for a reason   *)
(* the code has: no interleaving of save, fetch_and_delete, eviction and   *)
(* cleanup makes one vanish.                                               *)
NothingVanishes ==
    \A m \in Message :
        m[2] <= sent[m[1]] => Copies(m) # {} \/ m \in dropped

(* Every message is in one place, or given up for a reason the code has.   *)
OneCopyOrDropped == AtMostOneCopy /\ NothingVanishes

(* Two messages of a sender that reach a session in the same way, both     *)
(* stored or both direct, arrive in the order they were sent in.           *)
InOrderByTheSameWay ==
    \A s \in Session : \A i, j \in 1..Len(inbox[s]) :
        /\ i < j
        /\ inbox[s][i].stored = inbox[s][j].stored
        /\ inbox[s][i].msg[1] = inbox[s][j].msg[1]
        => inbox[s][i].msg[2] < inbox[s][j].msg[2]

(* What the lookup before a login can leave behind in the store of a user  *)
(* that is online is one message of each sender: the next one finds the    *)
(* session.                                                                *)
OneStrandedPerSender ==
    \A u \in User : \A q, r \in RowsOf(u) :
        /\ online[u] # None /\ phase[online[u]] = "fetched"
        /\ q.msg[1] = r.msg[1]
        => q = r

-----------------------------------------------------------------------------
(* What comments and documents say of the server, and the code does not do. *)

(* docs/server-architecture.md: "Offline queue: puskuroi, toimita          *)
(* reconnectissa" (buffer, deliver at the reconnect): a message in the     *)
(* store of a user that is online gets to the user.                        *)
DeliveredAtReconnect ==
    \A m \in Message, u \in User :
        (online[u] \in alive /\ m \in Messages(RowsOf(u)))
            ~> (online[u] \notin alive \/ m \notin Messages(RowsOf(u)))
=============================================================================
