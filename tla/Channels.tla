------------------------------ MODULE Channels ------------------------------
(***************************************************************************)
(* commands/command_handler.cpp: the channels, their members and their     *)
(* operators, the two nickname maps, and the user lists clients are sent.  *)
(*                                                                         *)
(* A command runs on the strand of the session that sent it, on one of the *)
(* pool's threads, and CommandHandler has no lock: between two steps of a  *)
(* command come those of others, of other users and of other sessions of   *)
(* its own.  A step is one look-up, one check or one change.  A command    *)
(* whose channel was destroyed meanwhile goes on with a dangling reference *)
(* (see Reach).                                                            *)
(*                                                                         *)
(* An argument is chosen by the step that first uses it.  The rate limiter *)
(* can refuse any command, which changes nothing here.  The text of a      *)
(* topic is left out, and so is the option "moderated", which is stored    *)
(* and never read.  That two steps can touch the same container at the     *)
(* same instant, and break it, is left out too.                            *)
(***************************************************************************)
EXTENDS FiniteSets

CONSTANTS
    User,        \* user ids
    Nick,        \* nicknames that are not user ids
    Channel,
    Worker,      \* threads of the pool, each with at most one command under way
    Nobody,      \* the empty string, which is nobody's user id
    None

ASSUME ChannelsAssumption ==
    /\ None \notin User \cup Nick \cup Channel
    /\ Nobody \notin User \cup {None}

(* Nicknames and user ids are strings of one kind. *)
Name == User \cup Nick
Target == Name \cup {Nobody}
Option == {"invite_only", "topic_restricted"}

VARIABLES
    open,     \* the keys of channels_
    chan,     \* channels_, NewChannel where there is no key
    userOf,   \* nick_to_user_id_
    nickOf,   \* user_id_to_nick_
    session,  \* whether find_session_ returns a session of a user ("found"),
              \* or one that the registry has lost still sends commands ("lost")
    view,     \* the user list that the session found has been sent for a channel
    stored,   \* users for whom a NICK_CHANGE lies in the offline store
    task,     \* the command under way on a worker
    (* Histories, for the properties. *)
    slipped,  \* users banned after their /join had passed its check
    strays,   \* users whose rights were given, or left behind, after a check had expired
    mixed,    \* channels whose members changed while an earlier change was being told
    forked    \* users with two /nick at once

nicks == <<userOf, nickOf>>
histories == <<slipped, strays, mixed, forked>>
vars  == <<open, chan, nicks, session, view, stored, task, histories>>

(* The ChannelState that get_or_create_channel inserts. *)
NewChannel == [members |-> {}, operators |-> {}, voiced |-> {}, banned |-> {},
               invites |-> {}, options |-> {"topic_restricted"}]

(* A command of user by on the channel on, about the user whom; at is its  *)
(* next step.  ref tells what became of its channel since the last check:  *)
(* nothing that matters ("fresh"), whom was banned or taken out of the     *)
(* members ("crossed"), or the channel was destroyed ("freed").  list and  *)
(* sent belong to the user list being sent, todo to /quit, old to /nick.   *)
NoTask == [cmd |-> "none", by |-> None, on |-> None, whom |-> None, old |-> None,
         at |-> "done", ref |-> "fresh", list |-> {}, sent |-> {}, todo |-> {}]

Init ==
    /\ open = {}
    /\ chan = [c \in Channel |-> NewChannel]
    /\ userOf = [n \in Name |-> None]
    /\ nickOf = [u \in User |-> None]
    /\ session = [u \in User |-> "none"]
    /\ view = [u \in User |-> [c \in Channel |-> None]]
    /\ stored = {}
    /\ task = [w \in Worker |-> NoTask]
    /\ slipped = [c \in Channel |-> {}]
    /\ strays = [c \in Channel |-> {}]
    /\ mixed = {}
    /\ forked = {}

At(w, step) == task[w].at = step

(* The command of w goes on with a step, or is done. *)
Advanced(w, step) == IF step = "done" THEN NoTask ELSE [task[w] EXCEPT !.at = step]
Go(w, step) == task' = [task EXCEPT ![w] = Advanced(w, step)]

(* The channel that the reference of w leads to.  Once it is freed, its    *)
(* memory may belong to a channel that was created later, or to none: what *)
(* is written is lost, and what is read can be anything.                   *)
Freed(w) == task[w].ref = "freed"
Reach(w) == IF Freed(w) THEN {{}} \cup {{d} : d \in open} ELSE {{task[w].on}}

(* x has changed the members of c, or read them for a list, and has not    *)
(* told everybody yet.                                                     *)
Telling(x, c) ==
    /\ task[x].on = c
    /\ \/ task[x].at \in {"count", "crown", "strip", "list", "send", "own", "reply"}
       \/ task[x].cmd = "quit" /\ task[x].at \in {"empty", "destroy"}

(* The channels of D whose members w changes out of turn. *)
OutOfTurn(w, D) ==
    {c \in D : Freed(w) \/ \E x \in Worker \ {w} : Telling(x, c)}

(* w goes on with step; the commands X lose the check they rely on. *)
GoCrossing(w, step, X) ==
    task' = [x \in Worker |->
               IF x = w THEN Advanced(w, step)
               ELSE IF x \in X /\ task[x].ref = "fresh" THEN [task[x] EXCEPT !.ref = "crossed"]
               ELSE task[x]]

-----------------------------------------------------------------------------
(* A command starts, with the channel it names: /join creates the channel  *)
(* if need be, the others are refused without one.  A session that was     *)
(* lost to the registry sends commands like any other.                     *)
FirstStep ==
    [join |-> "banned", part |-> "member", topic |-> "member", kick |-> "operator",
     ban |-> "operator", invite |-> "operator", set |-> "operator", mode |-> "operator"]

Start(w, u, t) ==
    /\ task[w] = NoTask
    /\ session[u] # "none"
    /\ task' = [task EXCEPT ![w] = t]

Begin(w, u, cmd, c) ==
    /\ Start(w, u, [NoTask EXCEPT !.cmd = cmd, !.by = u, !.on = c, !.whom = u,
                                !.at = FirstStep[cmd]])
    /\ cmd = "join" \/ c \in open
    /\ open' = open \cup {c}
    /\ UNCHANGED <<chan, nicks, session, view, stored, histories>>

(* What the command reads in its channel decides how it goes on; one that  *)
(* fails a check is refused.                                               *)
Decide(w, p, yes, no) ==
    /\ \/ (Freed(w) \/ p) /\ Go(w, yes)
       \/ (Freed(w) \/ ~p) /\ Go(w, no)
    /\ UNCHANGED <<open, chan, nicks, session, view, stored, histories>>

Check(w, p, step) == Decide(w, p, step, "done")

CheckBanned(w) ==
    /\ At(w, "banned")
    /\ Check(w, task[w].by \notin chan[task[w].on].banned, "invited")

CheckInvited(w) ==
    /\ At(w, "invited")
    /\ LET ch == chan[task[w].on] IN
       Check(w, "invite_only" \in ch.options => task[w].by \in ch.invites \cup ch.operators, "insert")

(* Operators need not be members; /topic only asks for one if restricted. *)
CheckOperator(w) ==
    /\ At(w, "operator")
    /\ LET ch == chan[task[w].on] IN
       Check(w, \/ task[w].by \in ch.operators
                \/ task[w].cmd = "topic" /\ "topic_restricted" \notin ch.options,
             CASE task[w].cmd = "topic" -> "list"
               [] task[w].cmd = "set" -> "option"
               [] OTHER -> "lookup")

(* Mutant: /mode takes whoever is named. *)
CheckMemberNotMode(w) ==
    /\ At(w, "member")
    /\ Check(w, task[w].cmd = "mode" \/ task[w].whom \in chan[task[w].on].members,
             CASE task[w].cmd = "topic" -> "operator"
               [] task[w].cmd = "mode" -> "grant"
               [] OTHER -> "leave")

(* Whether the user is in the channel: /part and /topic ask for the sender, *)
(* /kick, /ban and /mode for the target.                                    *)
CheckMember(w) ==
    /\ At(w, "member")
    /\ Check(w, task[w].whom \in chan[task[w].on].members,
             CASE task[w].cmd = "topic" -> "operator"
               [] task[w].cmd = "mode" -> "grant"
               [] OTHER -> "leave")

(* The user a nickname stands for: count() and then operator[], which makes *)
(* an entry for nobody if the nickname was given up between the two.  What  *)
(* is no nickname is taken for a user id.                                   *)
Subscript(n) == userOf' = [userOf EXCEPT ![n] = IF @ = None THEN Nobody ELSE @]

AfterLookup(w) == IF task[w].cmd \in {"kick", "mode"} THEN "member" ELSE "record"

Lookup(w, n) ==
    /\ At(w, "lookup")
    /\ task' = [task EXCEPT ![w] =
                  [@ EXCEPT !.whom = n,
                            !.at = IF userOf[n] # None THEN "bearer" ELSE AfterLookup(w)]]
    /\ UNCHANGED <<open, chan, nicks, session, view, stored, histories>>

Bearer(w) ==
    /\ At(w, "bearer")
    /\ Subscript(task[w].whom)
    /\ task' = [task EXCEPT ![w] =
                  [@ EXCEPT !.whom = userOf'[task[w].whom], !.at = AfterLookup(w)]]
    /\ UNCHANGED <<open, chan, nickOf, session, view, stored, histories>>

-----------------------------------------------------------------------------
(* /join: the entry; an only member becomes operator. *)
Insert(w) ==
    /\ At(w, "insert")
    /\ \E D \in Reach(w) :
          /\ chan' = [c \in Channel |-> IF c \in D
                        THEN [chan[c] EXCEPT !.members = @ \cup {task[w].whom}] ELSE chan[c]]
          /\ slipped' = [c \in Channel |-> IF c \in D /\ task[w].ref # "fresh"
                        THEN slipped[c] \cup {task[w].whom} ELSE slipped[c]]
          /\ mixed' = mixed \cup OutOfTurn(w, D)
    /\ Go(w, "count")
    /\ UNCHANGED <<open, nicks, session, view, stored, strays, forked>>

(* Mutant: only the joiner gets the list. *)
CountSilent(w) ==
    /\ At(w, "count")
    /\ Decide(w, Cardinality(chan[task[w].on].members) = 1, "crown", "own")

Count(w) ==
    /\ At(w, "count")
    /\ Decide(w, Cardinality(chan[task[w].on].members) = 1, "crown", "list")

(* A right is given, or written to what is no longer that channel. *)
Right(w, D) ==
    strays' = [c \in Channel |-> IF c \in D /\ task[w].ref # "fresh"
                 THEN strays[c] \cup {task[w].whom} ELSE strays[c]]

Crown(w) ==
    /\ At(w, "crown")
    /\ \E D \in Reach(w) :
          /\ chan' = [c \in Channel |-> IF c \in D
                        THEN [chan[c] EXCEPT !.operators = @ \cup {task[w].whom}] ELSE chan[c]]
          /\ Right(w, D)
    /\ Go(w, "list")
    /\ UNCHANGED <<open, nicks, session, view, stored, slipped, mixed, forked>>

(* /mode: +o, -o, +v and -v; nobody is told. *)
WithStatus(ch, t, f, on) ==
    CASE f = "o" /\ on  -> [ch EXCEPT !.operators = @ \cup {t}]
      [] f = "o" /\ ~on -> [ch EXCEPT !.operators = @ \ {t}]
      [] f = "v" /\ on  -> [ch EXCEPT !.voiced = @ \cup {t}]
      [] f = "v" /\ ~on -> [ch EXCEPT !.voiced = @ \ {t}]

Grant(w, f, on) ==
    /\ At(w, "grant")
    /\ \E D \in Reach(w) :
          /\ chan' = [c \in Channel |-> IF c \in D
                        THEN WithStatus(chan[c], task[w].whom, f, on) ELSE chan[c]]
          /\ Right(w, D)
    /\ Go(w, "done")
    /\ UNCHANGED <<open, nicks, session, view, stored, slipped, mixed, forked>>

(* /set: an option of the channel is switched on or off. *)
Set(w, o, on) ==
    /\ At(w, "option")
    /\ \E D \in Reach(w) :
          chan' = [c \in Channel |-> IF c \in D
                     THEN [chan[c] EXCEPT !.options = IF on THEN @ \cup {o} ELSE @ \ {o}]
                     ELSE chan[c]]
    /\ Go(w, "done")
    /\ UNCHANGED <<open, nicks, session, view, stored, histories>>

(* Mutant: the wrong argument of /invite is recorded. *)
InviteChannel(w) ==
    /\ At(w, "record") /\ task[w].cmd = "invite"
    /\ \E D \in Reach(w) :
          chan' = [c \in Channel |-> IF c \in D
                     THEN [chan[c] EXCEPT !.invites = @ \cup {task[w].on}] ELSE chan[c]]
    /\ Go(w, "done")
    /\ UNCHANGED <<open, nicks, session, view, stored, histories>>

Invite(w) ==
    /\ At(w, "record") /\ task[w].cmd = "invite"
    /\ \E D \in Reach(w) :
          chan' = [c \in Channel |-> IF c \in D
                     THEN [chan[c] EXCEPT !.invites = @ \cup {task[w].whom}] ELSE chan[c]]
    /\ Go(w, "done")
    /\ UNCHANGED <<open, nicks, session, view, stored, histories>>

(* The commands that rely on t not being banned from c. *)
Entering(c, t) ==
    {x \in Worker : task[x].on = c /\ task[x].whom = t /\ task[x].at \in {"invited", "insert"}}

(* Mutant: a user that is banned stays until it leaves. *)
BanKeepsMember(w) ==
    /\ At(w, "record") /\ task[w].cmd = "ban"
    /\ \E D \in Reach(w) :
          /\ chan' = [c \in Channel |-> IF c \in D
                        THEN [chan[c] EXCEPT !.banned = @ \cup {task[w].whom}] ELSE chan[c]]
          /\ GoCrossing(w, "done", UNION {Entering(c, task[w].whom) : c \in D})
    /\ UNCHANGED <<open, nicks, session, view, stored, histories>>

(* /ban: the ban is recorded, then a member is taken out of the members,   *)
(* and of nothing else.                                                    *)
Ban(w) ==
    /\ At(w, "record") /\ task[w].cmd = "ban"
    /\ \E D \in Reach(w) :
          /\ chan' = [c \in Channel |-> IF c \in D
                        THEN [chan[c] EXCEPT !.banned = @ \cup {task[w].whom}] ELSE chan[c]]
          /\ slipped' = [c \in Channel |-> IF c \in D /\ Freed(w)
                        THEN slipped[c] \cup {task[w].whom} ELSE slipped[c]]
          /\ GoCrossing(w, "member", UNION {Entering(c, task[w].whom) : c \in D})
    /\ UNCHANGED <<open, nicks, session, view, stored, strays, mixed, forked>>

(* The commands that rely on t being a member of c. *)
Relying(c, t) ==
    {x \in Worker : task[x].on = c /\ task[x].whom = t /\ task[x].at \in {"count", "crown", "grant"}}

(* /part, /kick, /ban and /quit take the user out of the members ... *)
Leave(w) ==
    /\ At(w, "leave")
    /\ \E D \in Reach(w) :
          /\ chan' = [c \in Channel |-> IF c \in D
                        THEN [chan[c] EXCEPT !.members = @ \ {task[w].whom}] ELSE chan[c]]
          /\ slipped' = [c \in Channel |-> IF c \in D THEN slipped[c] \ {task[w].whom} ELSE slipped[c]]
          /\ strays' = [c \in Channel |-> IF c \in D /\ Freed(w)
                          THEN strays[c] \cup {task[w].whom} ELSE strays[c]]
          /\ mixed' = mixed \cup OutOfTurn(w, D)
          /\ GoCrossing(w, IF task[w].cmd = "ban" THEN "list" ELSE "strip",
                        UNION {Relying(c, task[w].whom) : c \in D})
    /\ UNCHANGED <<open, nicks, session, view, stored, forked>>

(* ... and all but /ban then take the rights: each step of another command *)
(* has to do with the operators or with the voiced, so that both go at once *)
(* here.                                                                    *)
Strip(w) ==
    /\ At(w, "strip")
    /\ \E D \in Reach(w) :
          /\ chan' = [c \in Channel |-> IF c \in D
                        THEN [chan[c] EXCEPT !.operators = @ \ {task[w].whom},
                                             !.voiced = @ \ {task[w].whom}]
                        ELSE chan[c]]
          /\ strays' = [c \in Channel |-> IF c \in D THEN strays[c] \ {task[w].whom} ELSE strays[c]]
    /\ Go(w, IF task[w].cmd = "quit" THEN "empty" ELSE "list")
    /\ UNCHANGED <<open, nicks, session, view, stored, slipped, mixed, forked>>

(* /part and /quit: a channel found empty is destroyed; all references to  *)
(* it dangle.                                                              *)
AfterEmpty(w) == IF task[w].cmd = "quit" THEN "list" ELSE "done"

CheckEmpty(w) ==
    /\ At(w, "empty")
    /\ Decide(w, chan[task[w].on].members = {}, "destroy", AfterEmpty(w))

Destroy(w) ==
    /\ At(w, "destroy")
    /\ \E D \in Reach(w) :
          /\ open' = open \ D
          /\ chan' = [c \in Channel |-> IF c \in D THEN NewChannel ELSE chan[c]]
          /\ slipped' = [c \in Channel |-> IF c \in D THEN {} ELSE slipped[c]]
          /\ strays' = [c \in Channel |-> IF c \in D THEN {} ELSE strays[c]]
          /\ mixed' = mixed \cup {c \in D : \E x \in Worker \ {w} : Telling(x, c)}
          /\ task' = [x \in Worker |->
                        LET t == IF x # w THEN task[x]
                                 ELSE Advanced(w, AfterEmpty(w))
                        IN  IF t.on \in D THEN [t EXCEPT !.ref = "freed"] ELSE t]
    /\ UNCHANGED <<nicks, session, view, stored, forked>>

-----------------------------------------------------------------------------
(* broadcast_user_list: the channel is looked up by its name, the list is  *)
(* put together, and each member that is online gets it.                   *)
AfterList(w) ==
    CASE task[w].cmd = "join" -> "own"
      [] task[w].cmd = "part" -> "empty"
      [] task[w].cmd = "quit" -> "next"
      [] OTHER -> "done"

FindList(w) ==
    /\ At(w, "list")
    /\ LET c == task[w].on IN
       IF c \in open
       THEN /\ task' = [task EXCEPT ![w].at = "send", ![w].list = chan[c].members, ![w].sent = {}]
            /\ mixed' = IF ~Freed(w) /\ \A x \in Worker \ {w} : ~Telling(x, c)
                        THEN mixed \ {c} ELSE mixed
       ELSE Go(w, AfterList(w)) /\ UNCHANGED mixed
    /\ UNCHANGED <<open, chan, nicks, session, view, stored, slipped, strays, forked>>

(* The loop runs over the members as they are by then. *)
Send(w, u) ==
    /\ At(w, "send")
    /\ u \in (task[w].list \cup chan[task[w].on].members) \ task[w].sent
    /\ view' = IF session[u] = "found" THEN [view EXCEPT ![u][task[w].on] = task[w].list] ELSE view
    /\ task' = [task EXCEPT ![w].sent = @ \cup {u}]
    /\ UNCHANGED <<open, chan, nicks, session, stored, histories>>

SendEnd(w) ==
    /\ At(w, "send")
    /\ Freed(w) \/ task[w].list \cap chan[task[w].on].members \subseteq task[w].sent
    /\ Go(w, AfterList(w))
    /\ UNCHANGED <<open, chan, nicks, session, view, stored, histories>>

(* send_user_list: the session that has joined gets the list once more; it *)
(* may not be the one that find_session_ returns.                          *)
OwnList(w) ==
    /\ At(w, "own")
    /\ IF task[w].on \in open
       THEN task' = [task EXCEPT ![w].at = "reply", ![w].list = chan[task[w].on].members]
       ELSE Go(w, "done")
    /\ UNCHANGED <<open, chan, nicks, session, view, stored, histories>>

OwnReply(w) ==
    /\ At(w, "reply")
    /\ \/ UNCHANGED view
       \/ /\ session[task[w].by] = "found"
          /\ view' = [view EXCEPT ![task[w].by][task[w].on] = task[w].list]
    /\ Go(w, "done")
    /\ UNCHANGED <<open, chan, nicks, session, stored, histories>>

-----------------------------------------------------------------------------
(* /nick: without a nickname the user id counts as the old one. *)
NickBegin(w, u) ==
    /\ Start(w, u, [NoTask EXCEPT !.cmd = "nick", !.by = u, !.at = "taken",
                                !.old = IF nickOf[u] # None THEN nickOf[u] ELSE u])
    /\ forked' = IF \E x \in Worker : task[x].cmd = "nick" /\ task[x].by = u
                 THEN forked \cup {u} ELSE forked
    /\ UNCHANGED <<open, chan, nicks, session, view, stored, slipped, strays, mixed>>

NickCheck(w, n) ==
    /\ At(w, "taken")
    /\ task' = [task EXCEPT ![w] =
                  [@ EXCEPT !.whom = n, !.at = IF userOf[n] # None THEN "owner" ELSE "erase"]]
    /\ UNCHANGED <<open, chan, nicks, session, view, stored, histories>>

NickOwner(w) ==
    /\ At(w, "owner")
    /\ Subscript(task[w].whom)
    /\ Go(w, IF userOf'[task[w].whom] = task[w].by THEN "erase" ELSE "done")
    /\ UNCHANGED <<open, chan, nickOf, session, view, stored, histories>>

(* Mutant: the old nickname keeps its entry. *)
NickKeepsOld(w) ==
    /\ At(w, "erase")
    /\ Go(w, "claim")
    /\ UNCHANGED <<open, chan, nicks, session, view, stored, histories>>

NickErase(w) ==
    /\ At(w, "erase")
    /\ userOf' = [userOf EXCEPT ![task[w].old] = None]
    /\ Go(w, "claim")
    /\ UNCHANGED <<open, chan, nickOf, session, view, stored, histories>>

NickClaim(w) ==
    /\ At(w, "claim")
    /\ userOf' = [userOf EXCEPT ![task[w].whom] = task[w].by]
    /\ Go(w, "name")
    /\ UNCHANGED <<open, chan, nickOf, session, view, stored, histories>>

NickName(w) ==
    /\ At(w, "name")
    /\ nickOf' = [nickOf EXCEPT ![task[w].by] = task[w].whom]
    /\ Go(w, "announce")
    /\ UNCHANGED <<open, chan, userOf, session, view, stored, histories>>

(* broadcast_to_channel, for every channel the user is in: a member that   *)
(* is offline finds the NICK_CHANGE in the offline store, unless the store *)
(* takes no more, so that none of these steps has to be taken.             *)
NickStore(w, u) ==
    /\ At(w, "announce")
    /\ \E c \in open : {task[w].by, u} \subseteq chan[c].members
    /\ session[u] # "found"
    /\ stored' = stored \cup {u}
    /\ UNCHANGED <<open, chan, nicks, session, view, task, histories>>

NickEnd(w) ==
    /\ At(w, "announce")
    /\ Go(w, "done")
    /\ UNCHANGED <<open, chan, nicks, session, view, stored, histories>>

-----------------------------------------------------------------------------
(* /quit leaves every channel the user was in, one after the other, and    *)
(* the disconnect() it posts ends its session.                             *)
QuitBegin(w, u) ==
    /\ Start(w, u, [NoTask EXCEPT !.cmd = "quit", !.by = u, !.whom = u, !.at = "next",
                                !.todo = {c \in open : u \in chan[c].members}])
    /\ UNCHANGED <<open, chan, nicks, session, view, stored, histories>>

QuitChannel(w, c) ==
    /\ At(w, "next")
    /\ c \in task[w].todo
    /\ task' = [task EXCEPT ![w] =
                  [@ EXCEPT !.todo = task[w].todo \ {c}, !.on = IF c \in open THEN c ELSE None,
                            !.ref = "fresh", !.at = IF c \in open THEN "leave" ELSE "next"]]
    /\ UNCHANGED <<open, chan, nicks, session, view, stored, histories>>

(* What a user is left with when one of its sessions ends, or is taken out *)
(* of the registry only (a PING without answer).                           *)
Remaining(u) ==
    CASE session[u] = "found" -> {"found", "lost", "none"}
      [] session[u] = "lost"  -> {"lost", "none"}
      [] OTHER                -> {"none"}

QuitEnd(w) ==
    /\ At(w, "next")
    /\ task[w].todo = {}
    /\ \E s \in Remaining(task[w].by) : session' = [session EXCEPT ![task[w].by] = s]
    /\ Go(w, "done")
    /\ UNCHANGED <<open, chan, nicks, view, stored, histories>>

(* Sessions come and go (see Connections); channels and nicknames stay.    *)
(* The session that logs in is the one found from then on, and is handed   *)
(* what was stored.                                                        *)
Connect(u) ==
    /\ session' = [session EXCEPT ![u] = "found"]
    /\ view' = [view EXCEPT ![u] = [c \in Channel |-> None]]
    /\ stored' = stored \ {u}
    /\ UNCHANGED <<open, chan, nicks, task, histories>>

Disconnect(u) ==
    /\ \E s \in Remaining(u) \ {"found"} : session' = [session EXCEPT ![u] = s]
    /\ UNCHANGED <<open, chan, nicks, view, stored, task, histories>>

Sessions == \E u \in User : Connect(u) \/ Disconnect(u)

Beginning(w) ==
    \E u \in User :
        \/ NickBegin(w, u) \/ QuitBegin(w, u)
        \/ \E cmd \in DOMAIN FirstStep, c \in Channel : Begin(w, u, cmd, c)

Checks(w) ==
    \/ CheckBanned(w) \/ CheckInvited(w) \/ CheckOperator(w) \/ CheckMember(w)
    \/ Count(w) \/ CheckEmpty(w) \/ Bearer(w)
    \/ \E n \in Name : Lookup(w, n)

Changes(w) ==
    \/ Insert(w) \/ Crown(w) \/ Invite(w) \/ Ban(w) \/ Leave(w) \/ Strip(w) \/ Destroy(w)
    \/ \E on \in BOOLEAN :
          \/ \E f \in {"o", "v"} : Grant(w, f, on)
          \/ \E o \in Option : Set(w, o, on)

Lists(w) ==
    \/ FindList(w) \/ SendEnd(w) \/ OwnList(w) \/ OwnReply(w)
    \/ \E u \in User : Send(w, u)

Naming(w) ==
    \/ NickOwner(w) \/ NickErase(w) \/ NickClaim(w) \/ NickName(w) \/ NickEnd(w)
    \/ \E n \in Name : NickCheck(w, n)
    \/ \E u \in User : NickStore(w, u)

Quitting(w) == QuitEnd(w) \/ \E c \in Channel : QuitChannel(w, c)

Next ==
    \/ Sessions
    \/ \E w \in Worker :
          Beginning(w) \/ Checks(w) \/ Changes(w) \/ Lists(w) \/ Naming(w) \/ Quitting(w)

Spec == Init /\ [][Next]_vars

-----------------------------------------------------------------------------
(* Properties. *)

ChannelState ==
    [members : SUBSET User, operators : SUBSET Target, voiced : SUBSET Target,
     banned : SUBSET Target, invites : SUBSET Target, options : SUBSET Option]

Steps == {"banned", "invited", "operator", "member", "lookup", "bearer", "insert", "count", "crown",
          "grant", "option", "record", "leave", "strip", "empty", "destroy", "list", "send",
          "own", "reply", "taken", "owner", "erase", "claim", "name", "announce", "next", "done"}

Task ==
    [cmd : DOMAIN FirstStep \cup {"nick", "quit", "none"}, by : User \cup {None},
     on : Channel \cup {None}, whom : Target \cup {None}, old : Name \cup {None},
     at : Steps, ref : {"fresh", "crossed", "freed"},
     list : SUBSET User, sent : SUBSET User, todo : SUBSET Channel]

(* Every variable has its type. *)
TypeOK ==
    /\ open \in SUBSET Channel
    /\ chan \in [Channel -> ChannelState]
    /\ userOf \in [Name -> User \cup {Nobody, None}]
    /\ nickOf \in [User -> Name \cup {None}]
    /\ session \in [User -> {"none", "lost", "found"}]
    /\ view \in [User -> [Channel -> (SUBSET User) \cup {None}]]
    /\ stored \in SUBSET User
    /\ task \in [Worker -> Task]
    /\ slipped \in [Channel -> SUBSET Target]
    /\ strays \in [Channel -> SUBSET Target]
    /\ mixed \in SUBSET Channel
    /\ forked \in SUBSET User

(* Users that a /ban has recorded and not yet looked for in the channel. *)
Dropping(c) ==
    {task[w].whom : w \in {x \in Worker :
        /\ task[x].cmd = "ban" /\ task[x].at \in {"member", "leave"}
        /\ task[x].on = c /\ task[x].ref # "freed"}}

(* Whoever is banned from a channel is not in it once the /ban is through: *)
(* not the member it was aimed at, not by a later /join, not by way of a   *)
(* nickname.  The one way in is a /join that had passed its check when the *)
(* /ban was recorded, or that goes on in a channel that was destroyed.     *)
BannedAreOut ==
    \A c \in Channel : chan[c].members \cap chan[c].banned \subseteq slipped[c] \cup Dropping(c)

(* Users that were taken out of the members and are about to lose rights. *)
Stripping(c) ==
    {task[w].whom : w \in {x \in Worker :
        task[x].at = "strip" /\ task[x].on = c /\ task[x].ref # "freed"}}

(* Operator and voice status outlive membership in two ways only: a /ban,  *)
(* which leaves them, and a right that /mode or /join gives after another  *)
(* command has taken the user out again (or in a channel that was          *)
(* destroyed).  /part, /kick and /quit take all rights along, and a        *)
(* channel that is created anew starts without any.                        *)
RightsOfOutsiders ==
    \A c \in Channel :
        chan[c].operators \cup chan[c].voiced
            \subseteq chan[c].members \cup chan[c].banned \cup strays[c] \cup Stripping(c)

(* nick_to_user_id_ only leads to a user that bears the nickname now, or   *)
(* is just taking it, so a /kick, /ban or /mode by nickname never hits a   *)
(* former bearer, whatever users take, give up and take over at the same   *)
(* time.  Only a user that renames itself in two sessions at once can      *)
(* leave a nickname behind.                                                *)
NicksAreCurrent ==
    \A n \in Name, u \in User :
        userOf[n] = u /\ u \notin forked
            => \/ nickOf[u] = n
               \/ \E w \in Worker : task[w].at = "name" /\ task[w].by = u /\ task[w].whom = n

(* Once every change of a channel's members has been told, the last list   *)
(* that a member's session was sent is the present one, unless the members *)
(* changed while another change was still being told; the next list sent   *)
(* on its own puts it right again.                                         *)
ListsAgree ==
    \A c \in Channel \ mixed, u \in User :
        /\ \A w \in Worker : ~Telling(w, c)
        /\ u \in chan[c].members /\ session[u] = "found" /\ view[u][c] # None
        => view[u][c] = chan[c].members
=============================================================================
