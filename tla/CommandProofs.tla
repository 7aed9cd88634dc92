---------------------------- MODULE CommandProofs ----------------------------
(***************************************************************************)
(* Proofs about the command handler: about Channels, for any users,        *)
(* nicknames, channels and threads, and about RateLimits, for any limits   *)
(* and any sessions of a user.                                             *)
(*                                                                         *)
(* Channels.  Commands overlap step by step, so the invariant says what    *)
(* each command under way may rely on: that its target is (still) a member *)
(* when it gives a right, and (still) not banned when it enters, unless    *)
(* its reference says otherwise; which entries a /nick has left behind;    *)
(* and whom a command that changed the members has still to tell.          *)
(*                                                                         *)
(* RateLimits.  RateInv says what ties the histories to the maps: how many *)
(* of the grants lie in the current window of a limiter, that the          *)
(* violations of the record are the latest refusals, and who can still be  *)
(* on the way during a ban.                                                *)
(***************************************************************************)
EXTENDS Channels, RateLimits, TLAPS

(* The steps of the commands that name a channel, and those of /nick. *)
OnChannel == {"banned", "invited", "operator", "member", "lookup", "bearer", "insert",
              "count", "crown", "grant", "option", "record", "leave", "strip", "empty",
              "destroy", "list", "send", "own", "reply"}
Renaming == {"taken", "owner", "erase", "claim", "name", "announce"}

(* What a command at a step knows. *)
Formed(t) ==
    /\ t.at \in OnChannel => /\ t.by \in User /\ t.on \in Channel /\ t.whom \in Target
                             /\ t.ref = "freed" \/ t.on \in open
                             /\ t.cmd \notin {"nick", "none"}
    /\ t.at \in {"banned", "invited", "insert"} => t.whom \in User /\ t.whom = t.by
    /\ t.at \in Renaming => t.cmd = "nick" /\ t.by \in User /\ t.old \in Name
    /\ t.at \in {"bearer", "owner", "erase", "claim", "name"} => t.whom \in Name
    /\ t.at = "next" => t.cmd = "quit" /\ t.by \in User /\ t.whom \in User
    /\ t.at = "done" => t.cmd = "none"
    /\ t.cmd = "quit" => /\ t.by \in User /\ t.whom \in User
                         /\ t.at \in {"next", "leave", "strip", "empty", "destroy", "list", "send"}
    /\ t.cmd = "join" => t.at \in {"banned", "invited", "insert", "count", "crown", "list", "send",
                                   "own", "reply"}
    /\ t.cmd = "ban" => t.at \in {"operator", "lookup", "bearer", "record", "member", "leave",
                                  "list", "send"}

WellFormed == \A w \in Worker : Formed(task[w])

Base == TypeOK /\ WellFormed

-----------------------------------------------------------------------------
(* What the steps have in common. *)

LEMMA ChannelStateFields ==
    ASSUME TypeOK, NEW c \in Channel
    PROVE  /\ chan[c] \in ChannelState
           /\ chan[c].members \in SUBSET User /\ chan[c].operators \in SUBSET Target
           /\ chan[c].voiced \in SUBSET Target /\ chan[c].banned \in SUBSET Target
           /\ chan[c].invites \in SUBSET Target /\ chan[c].options \in SUBSET Option
BY DEF TypeOK, ChannelState

LEMMA NewChannelType == NewChannel \in ChannelState
BY DEF NewChannel, ChannelState, Option

LEMMA NoTaskType == NoTask \in Task
BY DEF NoTask, Task, Steps

LEMMA TaskFields ==
    ASSUME TypeOK, NEW w \in Worker
    PROVE  /\ task[w] \in Task
           /\ task[w].by \in User \cup {None} /\ task[w].on \in Channel \cup {None}
           /\ task[w].whom \in Target \cup {None} /\ task[w].old \in Name \cup {None}
           /\ task[w].at \in Steps /\ task[w].ref \in {"fresh", "crossed", "freed"}
           /\ task[w].list \in SUBSET User /\ task[w].sent \in SUBSET User
           /\ task[w].todo \in SUBSET Channel
BY DEF TypeOK, Task

(* The command on x is where it was; only its reference may have suffered. *)
Kept(x) ==
    /\ task'[x].cmd = task[x].cmd /\ task'[x].by = task[x].by /\ task'[x].on = task[x].on
    /\ task'[x].whom = task[x].whom /\ task'[x].old = task[x].old /\ task'[x].at = task[x].at
    /\ task'[x].list = task[x].list /\ task'[x].sent = task[x].sent
    /\ task'[x].todo = task[x].todo
    /\ task'[x].ref = "fresh" => task[x].ref = "fresh"
    /\ task[x].ref = "freed" => task'[x].ref = "freed"

Others(w) == \A x \in Worker \ {w} : Kept(x)

(* No reference is freed. *)
Intact(w) == \A x \in Worker \ {w} : task'[x].ref = "freed" => task[x].ref = "freed"

(* What w's own command is like after a step of it. *)
Moved(w, step) ==
    /\ task'[w].at = step /\ task'[w].cmd = task[w].cmd /\ task'[w].by = task[w].by
    /\ task'[w].on = task[w].on /\ task'[w].whom = task[w].whom /\ task'[w].old = task[w].old
    /\ task'[w].ref = task[w].ref /\ task'[w].list = task[w].list /\ task'[w].sent = task[w].sent
    /\ task'[w].todo = task[w].todo

LEMMA AdvancedIs ==
    ASSUME TypeOK, NEW w \in Worker, NEW step \in Steps, task'[w] = Advanced(w, step)
    PROVE  /\ task'[w] \in Task
           /\ step # "done" => Moved(w, step)
           /\ step = "done" => task'[w] = NoTask
BY TaskFields, NoTaskType DEF Advanced, Moved, Task

LEMMA GoIs ==
    ASSUME TypeOK, NEW w \in Worker, NEW step \in Steps, Go(w, step)
    PROVE  /\ task' \in [Worker -> Task]
           /\ step # "done" => Moved(w, step)
           /\ step = "done" => task'[w] = NoTask
           /\ Others(w) /\ Intact(w)
<1>1. task'[w] = Advanced(w, step) /\ \A x \in Worker \ {w} : task'[x] = task[x]
  BY DEF Go, TypeOK
<1>2. task' = [x \in Worker |-> task'[x]]
  BY DEF Go, TypeOK
<1>3. \A x \in Worker : task'[x] \in Task
  BY <1>1, AdvancedIs, TaskFields
<1> QED BY <1>1, <1>2, <1>3, AdvancedIs DEF Others, Kept, Intact

LEMMA GoCrossingIs ==
    ASSUME TypeOK, NEW w \in Worker, NEW step \in Steps, NEW X, GoCrossing(w, step, X)
    PROVE  /\ task' \in [Worker -> Task]
           /\ step # "done" => Moved(w, step)
           /\ step = "done" => task'[w] = NoTask
           /\ Others(w) /\ Intact(w)
           /\ \A x \in (Worker \ {w}) \cap X : task'[x].ref # "fresh"
<1>1. /\ task'[w] = Advanced(w, step)
      /\ \A x \in Worker \ {w} :
            task'[x] = IF x \in X /\ task[x].ref = "fresh" THEN [task[x] EXCEPT !.ref = "crossed"]
                       ELSE task[x]
  BY DEF GoCrossing
<1>2. task' = [x \in Worker |-> task'[x]]
  BY DEF GoCrossing
<1>3. \A x \in Worker \ {w} :
         /\ task'[x] \in Task /\ Kept(x)
         /\ task'[x].ref = "freed" => task[x].ref = "freed"
         /\ x \in X => task'[x].ref # "fresh"
  <2> SUFFICES ASSUME NEW x \in Worker \ {w}
               PROVE  /\ task'[x] \in Task /\ Kept(x)
                      /\ task'[x].ref = "freed" => task[x].ref = "freed"
                      /\ x \in X => task'[x].ref # "fresh"
    OBVIOUS
  <2>1. CASE x \in X /\ task[x].ref = "fresh"
    <3>1. task[x] \in Task /\ task'[x] = [task[x] EXCEPT !.ref = "crossed"]
      BY <1>1, <2>1, TaskFields
    <3>2. task'[x] \in Task
      BY <3>1 DEF Task
    <3> QED BY <2>1, <3>1, <3>2 DEF Kept, Task
  <2>2. CASE ~(x \in X /\ task[x].ref = "fresh")
    BY <1>1, <2>2, TaskFields DEF Kept
  <2> QED BY <2>1, <2>2
<1>4. task'[w] \in Task
  BY <1>1, AdvancedIs
<1> QED BY <1>1, <1>2, <1>3, <1>4, AdvancedIs DEF Others, Intact

LEMMA ReachIs ==
    ASSUME Base, NEW w \in Worker, task[w].at \in OnChannel, NEW D \in Reach(w)
    PROVE  D \in SUBSET Channel /\ D \subseteq open /\ (~Freed(w) => D = {task[w].on})
BY DEF Base, TypeOK, WellFormed, Formed, Reach, Freed

(* The other commands stay well formed, unless a channel is destroyed. *)
LEMMA OthersFormed ==
    ASSUME Base, NEW w \in Worker, Others(w), Intact(w), open \subseteq open', Formed(task[w])'
    PROVE  WellFormed'
<1> SUFFICES ASSUME NEW x \in Worker \ {w} PROVE Formed(task[x])'
  BY DEF WellFormed
<1>1. Formed(task[x]) /\ Kept(x) /\ (task'[x].ref = "freed" <=> task[x].ref = "freed")
  BY DEF Base, WellFormed, Others, Intact, Kept
<1> QED BY <1>1 DEF Formed, Kept

-----------------------------------------------------------------------------
(* The inductive invariant. *)

(* A right is given to a member, unless the check has expired since. *)
Rights ==
    /\ RightsOfOutsiders
    /\ \A w \in Worker :
          task[w].at \in {"count", "crown", "grant"} /\ task[w].ref = "fresh"
              => task[w].whom \in chan[task[w].on].members

(* Who enters is not banned, unless the check has expired since. *)
Bans ==
    /\ BannedAreOut
    /\ \A w \in Worker :
          task[w].at \in {"invited", "insert"} /\ task[w].ref = "fresh"
              => task[w].whom \notin chan[task[w].on].banned
    /\ \A w \in Worker :
          task[w].cmd = "ban" /\ task[w].at \in {"member", "leave"} /\ task[w].ref # "freed"
              => task[w].whom \in chan[task[w].on].banned

(* A user that is not forked has one /nick under way at most, which erases *)
(* the entry the user has and claims the only other one.                   *)
OldName(u) == IF nickOf[u] # None THEN nickOf[u] ELSE u

Nicks ==
    /\ NicksAreCurrent
    /\ \A w, x \in Worker :
          /\ task[w].cmd = "nick" /\ task[x].cmd = "nick"
          /\ task[w].by = task[x].by /\ task[w].by \notin forked
          => w = x
    /\ \A w \in Worker :
          task[w].by \notin forked =>
             /\ task[w].at \in {"taken", "owner", "erase"} => task[w].old = OldName(task[w].by)
             /\ task[w].at = "claim" => \A n \in Name : userOf[n] # task[w].by
             /\ task[w].at = "name" => \A n \in Name : userOf[n] = task[w].by => n = task[w].whom

(* w has still to tell u the members of c. *)
Owes(w, c, u) ==
    /\ task[w].on = c /\ ~Freed(w)
    /\ \/ task[w].at \in {"count", "crown", "strip", "list"}
       \/ task[w].cmd = "quit" /\ task[w].at \in {"empty", "destroy"}
       \/ task[w].at = "send" /\ u \notin task[w].sent

(* Who has not the present list of c is about to be sent it, and no other  *)
(* list of c is on the way.                                                *)
Sure(c) ==
    /\ \A w \in Worker :
          task[w].on = c /\ task[w].at \in {"send", "reply"} => task[w].list = chan[c].members
    /\ \A u \in chan[c].members :
          session[u] = "found" /\ view[u][c] # None
              => view[u][c] = chan[c].members \/ \E w \in Worker : Owes(w, c, u)

ListsSure == \A c \in Channel \ mixed : Sure(c)

Inv == Base /\ Rights /\ Bans /\ Nicks /\ ListsSure

LEMMA InitInv == Init => Inv
<1> SUFFICES ASSUME Init PROVE Inv
  OBVIOUS
<1>1. \A c \in Channel : /\ chan[c] = NewChannel /\ chan[c].members = {}
                         /\ chan[c].operators = {} /\ chan[c].voiced = {}
  BY DEF Init, NewChannel
<1>2. \A w \in Worker : task[w] = NoTask /\ task[w].at = "done" /\ task[w].cmd = "none"
  BY DEF Init, NoTask
<1>3. TypeOK
  <2>1. chan \in [Channel -> ChannelState]
    BY NewChannelType DEF Init
  <2>2. view \in [User -> [Channel -> (SUBSET User) \cup {None}]]
    BY DEF Init
  <2>3. task \in [Worker -> Task]
    BY NoTaskType DEF Init
  <2> QED BY <2>1, <2>2, <2>3 DEF Init, TypeOK
<1>4. WellFormed
  BY <1>2 DEF WellFormed, Formed, OnChannel, Renaming
<1>5. Rights /\ Bans
  BY <1>1, <1>2 DEF Rights, Bans, RightsOfOutsiders, BannedAreOut
<1>6. Nicks
  BY <1>2, ChannelsAssumption DEF Init, Nicks, NicksAreCurrent
<1>7. ListsSure
  BY <1>1, <1>2 DEF ListsSure, Sure
<1> QED BY <1>3, <1>4, <1>5, <1>6, <1>7 DEF Inv, Base

-----------------------------------------------------------------------------
(* What is left alone. *)

(* Removals under way stay so. *)
LEMMA StrippingKept ==
    ASSUME NEW w \in Worker, Others(w), Intact(w), task[w].at # "strip", NEW c \in Channel
    PROVE  Stripping(c) \subseteq Stripping(c)'
<1> SUFFICES ASSUME NEW x \in Worker, task[x].at = "strip", task[x].on = c, task[x].ref # "freed"
             PROVE  task[x].whom \in Stripping(c)'
  BY DEF Stripping
<1>1. x \in Worker \ {w}
  OBVIOUS
<1>2. /\ task'[x].at = "strip" /\ task'[x].on = c /\ task'[x].ref # "freed"
      /\ task'[x].whom = task[x].whom
  BY <1>1 DEF Others, Intact, Kept
<1> QED BY <1>2 DEF Stripping

LEMMA DroppingKept ==
    ASSUME NEW w \in Worker, Others(w), Intact(w), NEW c \in Channel, NEW u \in Dropping(c),
           task[w].cmd = "ban" /\ task[w].at \in {"member", "leave"} /\ task[w].ref # "freed"
           => u # task[w].whom \/ c # task[w].on
    PROVE  u \in Dropping(c)'
<1>1. PICK x \in Worker : /\ task[x].cmd = "ban" /\ task[x].at \in {"member", "leave"}
                          /\ task[x].on = c /\ task[x].ref # "freed" /\ task[x].whom = u
  BY DEF Dropping
<1>2. x \in Worker \ {w}
  BY <1>1
<1>3. /\ task'[x].cmd = "ban" /\ task'[x].at \in {"member", "leave"}
      /\ task'[x].on = c /\ task'[x].ref # "freed" /\ task'[x].whom = u
  BY <1>1, <1>2 DEF Others, Intact, Kept
<1> QED BY <1>3 DEF Dropping

LEMMA RightsKept ==
    ASSUME Inv, NEW w \in Worker, Others(w), Intact(w),
           \A c \in Channel :
              /\ chan'[c].members = chan[c].members
              /\ chan'[c].operators \subseteq chan[c].operators
              /\ chan'[c].voiced \subseteq chan[c].voiced
              /\ chan[c].banned \subseteq chan'[c].banned
              /\ strays'[c] = strays[c],
           task[w].at # "strip",
           /\ task'[w].at \in {"count", "crown", "grant"} /\ task'[w].ref = "fresh"
           => task'[w].whom \in chan'[task'[w].on].members
    PROVE  Rights'
<1>1. \A c \in Channel : Stripping(c) \subseteq Stripping(c)'
  BY StrippingKept
<1>2. RightsOfOutsiders'
  BY <1>1 DEF Inv, Rights, RightsOfOutsiders
<1>3. ASSUME NEW x \in Worker, task'[x].at \in {"count", "crown", "grant"}, task'[x].ref = "fresh"
      PROVE  task'[x].whom \in chan'[task'[x].on].members
  <2>1. CASE x = w
    BY <1>3, <2>1
  <2>2. CASE x # w
    <3>1. Kept(x) /\ Formed(task[x])
      BY <2>2 DEF Others, Inv, Base, WellFormed
    <3>2. task[x].on \in Channel
      BY <1>3, <3>1 DEF Kept, Formed, OnChannel
    <3> QED BY <1>3, <3>1, <3>2 DEF Kept, Inv, Rights
  <2> QED BY <2>1, <2>2
<1> QED BY <1>2, <1>3 DEF Rights

LEMMA RightsQuiet ==
    ASSUME Inv, NEW w \in Worker, Others(w), Intact(w), UNCHANGED <<chan, strays>>,
           task[w].at # "strip",
           /\ task'[w].at \in {"count", "crown", "grant"} /\ task'[w].ref = "fresh"
           => task'[w].whom \in chan[task'[w].on].members
    PROVE  Rights'
BY RightsKept

LEMMA BansKept ==
    ASSUME Inv, NEW w \in Worker, Others(w), Intact(w),
           \A c \in Channel :
              /\ chan'[c].members = chan[c].members /\ chan'[c].banned = chan[c].banned
              /\ slipped'[c] = slipped[c],
           /\ task[w].cmd = "ban" /\ task[w].at \in {"member", "leave"} /\ task[w].ref # "freed"
           => \/ task[w].whom \notin chan[task[w].on].members
              \/ /\ task'[w].cmd = "ban" /\ task'[w].at \in {"member", "leave"}
                 /\ task'[w].on = task[w].on /\ task'[w].whom = task[w].whom
                 /\ task'[w].ref # "freed",
           /\ task'[w].at \in {"invited", "insert"} /\ task'[w].ref = "fresh"
           => task'[w].whom \notin chan'[task'[w].on].banned,
           /\ task'[w].cmd = "ban" /\ task'[w].at \in {"member", "leave"}
           /\ task'[w].ref # "freed"
           => task'[w].whom \in chan'[task'[w].on].banned
    PROVE  Bans'
<1>1. ASSUME NEW c \in Channel, NEW u \in Dropping(c), u \in chan[c].members
      PROVE  u \in Dropping(c)'
  <2>1. PICK x \in Worker : /\ task[x].cmd = "ban" /\ task[x].at \in {"member", "leave"}
                            /\ task[x].on = c /\ task[x].ref # "freed" /\ task[x].whom = u
    BY DEF Dropping
  <2>2. /\ task'[x].cmd = "ban" /\ task'[x].at \in {"member", "leave"}
        /\ task'[x].on = c /\ task'[x].ref # "freed" /\ task'[x].whom = u
    <3>1. CASE x = w
      BY <1>1, <2>1, <3>1
    <3>2. CASE x # w
      BY <2>1, <3>2 DEF Others, Intact, Kept
    <3> QED BY <3>1, <3>2
  <2> QED BY <2>2 DEF Dropping
<1>2. BannedAreOut'
  BY <1>1 DEF Inv, Bans, BannedAreOut
<1>3. ASSUME NEW x \in Worker, task'[x].at \in {"invited", "insert"}, task'[x].ref = "fresh"
      PROVE  task'[x].whom \notin chan'[task'[x].on].banned
  <2>1. CASE x = w
    BY <1>3, <2>1
  <2>2. CASE x # w
    <3>1. Kept(x) /\ Formed(task[x])
      BY <2>2 DEF Others, Inv, Base, WellFormed
    <3>2. task[x].on \in Channel
      BY <1>3, <3>1 DEF Kept, Formed, OnChannel
    <3> QED BY <1>3, <3>1, <3>2 DEF Kept, Inv, Bans
  <2> QED BY <2>1, <2>2
<1>4. ASSUME NEW x \in Worker, task'[x].cmd = "ban", task'[x].at \in {"member", "leave"},
             task'[x].ref # "freed"
      PROVE  task'[x].whom \in chan'[task'[x].on].banned
  <2>1. CASE x = w
    BY <1>4, <2>1
  <2>2. CASE x # w
    <3>1. Kept(x) /\ Formed(task[x])
      BY <2>2 DEF Others, Inv, Base, WellFormed
    <3>2. task[x].on \in Channel
      BY <1>4, <3>1 DEF Kept, Formed, OnChannel
    <3> QED BY <1>4, <3>1, <3>2 DEF Kept, Inv, Bans
  <2> QED BY <2>1, <2>2
<1> QED BY <1>2, <1>3, <1>4 DEF Bans

LEMMA BansQuiet ==
    ASSUME Inv, NEW w \in Worker, Others(w), Intact(w), UNCHANGED <<chan, slipped>>,
           /\ task[w].cmd = "ban" /\ task[w].at \in {"member", "leave"} /\ task[w].ref # "freed"
           => \/ task[w].whom \notin chan[task[w].on].members
              \/ /\ task'[w].cmd = "ban" /\ task'[w].at \in {"member", "leave"}
                 /\ task'[w].on = task[w].on /\ task'[w].whom = task[w].whom
                 /\ task'[w].ref # "freed",
           /\ task'[w].at \in {"invited", "insert"} /\ task'[w].ref = "fresh"
           => task'[w].whom \notin chan[task'[w].on].banned,
           /\ task'[w].cmd = "ban" /\ task'[w].at \in {"member", "leave"}
           /\ task'[w].ref # "freed"
           => task'[w].whom \in chan[task'[w].on].banned
    PROVE  Bans'
BY BansKept

LEMMA NicksKept ==
    ASSUME Inv, NEW w \in Worker, Others(w), UNCHANGED <<nickOf, forked>>,
           \A n \in Name, u \in User : userOf'[n] = u => userOf[n] = u,
           task[w].at # "name", task'[w].at \notin {"taken", "owner", "erase", "claim", "name"},
           task'[w].cmd = "nick" => task[w].cmd = "nick" /\ task'[w].by = task[w].by
    PROVE  Nicks'
<1>1. NicksAreCurrent'
  <2> SUFFICES ASSUME NEW n \in Name, NEW u \in User, userOf'[n] = u, u \notin forked, nickOf[u] # n
               PROVE  \E x \in Worker : task'[x].at = "name" /\ task'[x].by = u /\ task'[x].whom = n
    BY DEF NicksAreCurrent
  <2>1. PICK x \in Worker : task[x].at = "name" /\ task[x].by = u /\ task[x].whom = n
    BY DEF Inv, Nicks, NicksAreCurrent
  <2>2. x # w /\ Kept(x)
    BY <2>1 DEF Others
  <2> QED BY <2>1, <2>2 DEF Kept
<1>2. \A x \in Worker \ {w} : Kept(x)
  BY DEF Others
<1>3. ASSUME NEW x \in Worker, NEW y \in Worker, task'[x].cmd = "nick", task'[y].cmd = "nick",
             task'[x].by = task'[y].by, task'[x].by \notin forked
      PROVE  x = y
  BY <1>2, <1>3 DEF Inv, Nicks, Kept
<1>4. ASSUME NEW x \in Worker, task'[x].by \notin forked
      PROVE  /\ task'[x].at \in {"taken", "owner", "erase"} => task'[x].old = OldName(task'[x].by)
             /\ task'[x].at = "claim" => \A n \in Name : userOf'[n] # task'[x].by
             /\ task'[x].at = "name" => \A n \in Name : userOf'[n] = task'[x].by => n = task'[x].whom
  <2>1. CASE task'[x].at \notin {"taken", "owner", "erase", "claim", "name"}
    BY <2>1
  <2>2. CASE task'[x].at \in {"taken", "owner", "erase", "claim", "name"}
    <3>1. x # w
      BY <2>2
    <3>2. Kept(x) /\ Formed(task[x])
      BY <1>2, <3>1 DEF Inv, Base, WellFormed
    <3>3. task[x].by \in User
      BY <2>2, <3>2 DEF Kept, Formed, Renaming
    <3> QED BY <1>4, <3>2, <3>3 DEF Inv, Nicks, Kept
  <2> QED BY <2>1, <2>2
<1> QED BY <1>1, <1>3, <1>4 DEF Nicks, OldName

LEMMA NicksQuiet ==
    ASSUME Inv, NEW w \in Worker, Others(w), UNCHANGED <<userOf, nickOf, forked>>,
           task[w].at # "name", task'[w].at \notin {"taken", "owner", "erase", "claim", "name"},
           task'[w].cmd = "nick" => task[w].cmd = "nick" /\ task'[w].by = task[w].by
    PROVE  Nicks'
BY NicksKept

LEMMA ListsKept ==
    ASSUME Inv, NEW w \in Worker, Others(w), Intact(w),
           \A c \in Channel : chan'[c].members = chan[c].members,
           UNCHANGED mixed,
           \A u \in User, c \in Channel :
              session'[u] = "found" /\ view'[u][c] # None
                  => session[u] = "found" /\ view'[u][c] = view[u][c],
           \A c \in Channel \ mixed : \A u \in chan[c].members : Owes(w, c, u) => Owes(w, c, u)',
           task'[w].at \notin {"send", "reply"}
    PROVE  ListsSure'
<1> SUFFICES ASSUME NEW c \in Channel \ mixed PROVE Sure(c)'
  BY DEF ListsSure
<1>1. Sure(c) /\ chan[c].members \in SUBSET User
  BY ChannelStateFields DEF Inv, ListsSure, Base
<1>2. \A x \in Worker \ {w} : Kept(x) /\ (task'[x].ref = "freed" => task[x].ref = "freed")
  BY DEF Others, Intact
<1>3. \A x \in Worker, u \in chan[c].members : Owes(x, c, u) => Owes(x, c, u)'
  BY <1>2 DEF Owes, Freed, Kept
<1>4. \A x \in Worker : task'[x].on = c /\ task'[x].at \in {"send", "reply"}
                           => task'[x].list = chan[c].members
  BY <1>1, <1>2 DEF Sure, Kept
<1> QED BY <1>1, <1>3, <1>4 DEF Sure

LEMMA ListsQuiet ==
    ASSUME Inv, NEW w \in Worker, Others(w), Intact(w), UNCHANGED <<chan, session, view, mixed>>,
           \A c \in Channel \ mixed : \A u \in chan[c].members : Owes(w, c, u) => Owes(w, c, u)',
           task'[w].at \notin {"send", "reply"}
    PROVE  ListsSure'
BY ListsKept

-----------------------------------------------------------------------------
(* Checks. *)

(* A command only goes on, or is refused. *)
LEMMA Onward ==
    ASSUME Inv, NEW w \in Worker, NEW step \in (OnChannel \ {"send", "reply"}) \cup {"done", "next"},
           Go(w, step),
           UNCHANGED <<open, chan, nicks, session, view, stored, histories>>,
           task[w].at \in OnChannel \ {"strip"},
           step # "done" => Formed(task[w])',
           step \in {"count", "crown", "grant"} /\ task[w].ref = "fresh"
               => task[w].whom \in chan[task[w].on].members,
           task[w].cmd = "ban" /\ task[w].at \in {"member", "leave"} /\ task[w].ref # "freed"
               => step \in {"member", "leave"} \/ task[w].whom \notin chan[task[w].on].members,
           step \in {"invited", "insert"} /\ task[w].ref = "fresh"
               => task[w].whom \notin chan[task[w].on].banned,
           task[w].cmd = "ban" /\ step \in {"member", "leave"} => task[w].at = "member",
           \A c \in Channel \ mixed : \A u \in chan[c].members : Owes(w, c, u) =>
               \/ step \in {"crown", "list"}
               \/ (task[w].cmd = "quit" /\ step = "destroy")
    PROVE  Inv'
<1>1. /\ TypeOK /\ WellFormed /\ step \in Steps
      /\ task[w].cmd # "nick"
  BY DEF Inv, Base, OnChannel, Steps, WellFormed, Formed
<1>2. /\ task' \in [Worker -> Task] /\ Others(w) /\ Intact(w)
      /\ step # "done" => Moved(w, step)
      /\ step = "done" => task'[w] = NoTask
  BY <1>1, GoIs
<1>3. step = "done" => /\ task'[w].at = "done" /\ task'[w].cmd = "none"
                       /\ task'[w].on = None
  BY <1>2 DEF NoTask
<1>4. Base'
  <2>1. TypeOK'
    BY <1>1, <1>2 DEF TypeOK, nicks, histories
  <2>2. Formed(task[w])'
    BY <1>3 DEF Formed, OnChannel, Renaming
  <2> QED BY <1>2, <2>1, <2>2, OthersFormed DEF Base, Inv
<1>5. Rights'
  BY <1>2, <1>3, RightsQuiet DEF Moved, histories
<1>6. Bans'
  <2>1. task[w].cmd = "ban" /\ task[w].at = "member" /\ task[w].ref # "freed"
           => task[w].whom \in chan[task[w].on].banned
    BY DEF Inv, Bans
  <2> QED BY <1>2, <1>3, <2>1, BansQuiet DEF Moved, histories
<1>7. Nicks'
  BY <1>1, <1>2, <1>3, NicksQuiet DEF Moved, nicks, histories, OnChannel
<1>8. ListsSure'
  <2>1. ASSUME NEW c \in Channel \ mixed, NEW u \in chan[c].members, Owes(w, c, u)
        PROVE  Owes(w, c, u)'
    <3>1. step \in {"crown", "list"} \/ (task[w].cmd = "quit" /\ step = "destroy")
      BY <2>1
    <3>2. Moved(w, step)
      BY <1>2, <3>1
    <3> QED BY <2>1, <3>1, <3>2 DEF Owes, Moved, Freed
  <2>2. task'[w].at \notin {"send", "reply"}
    BY <1>2, <1>3 DEF Moved
  <2> QED BY <1>2, <2>1, <2>2, ListsQuiet DEF histories
<1> QED BY <1>4, <1>5, <1>6, <1>7, <1>8 DEF Inv

LEMMA MovedFormed ==
    ASSUME Inv, NEW w \in Worker, NEW step \in Steps, Go(w, step), open' = open, step # "done"
    PROVE  Moved(w, step) /\ Formed(task[w])
BY GoIs DEF Inv, Base, WellFormed

(* A command that owes nothing ends. *)
LEMMA Ended ==
    ASSUME Inv, NEW w \in Worker, Go(w, "done"),
           UNCHANGED <<open, chan, nicks, session, view, stored, histories>>,
           task[w].at \in OnChannel \ {"strip"},
           task[w].cmd = "ban" /\ task[w].at \in {"member", "leave"} /\ task[w].ref # "freed"
               => task[w].whom \notin chan[task[w].on].members,
           \A c \in Channel \ mixed : \A u \in chan[c].members : ~Owes(w, c, u)
    PROVE  Inv'
BY Onward

LEMMA CheckBannedKeeps ==
    ASSUME Inv, NEW w \in Worker, CheckBanned(w) PROVE Inv'
<1>1. /\ task[w].at = "banned" /\ task[w].at \in OnChannel \ {"strip"} /\ Formed(task[w])
      /\ UNCHANGED <<open, chan, nicks, session, view, stored, histories>> /\ open' = open
  BY DEF CheckBanned, At, Check, Decide, OnChannel, Inv, Base, WellFormed
<1>2. \A c \in Channel, u \in User : ~Owes(w, c, u)
  BY <1>1 DEF Owes
<1>2a. \A c \in Channel : chan[c].members \subseteq User
  BY ChannelStateFields DEF Inv, Base
<1>3. CASE Go(w, "done")
  BY <1>1, <1>2, <1>2a, <1>3, Ended
<1>4. CASE Go(w, "invited") /\ (Freed(w) \/ task[w].by \notin chan[task[w].on].banned)
  <2>1. Moved(w, "invited")
    BY <1>1, <1>4, MovedFormed DEF Steps
  <2>2. Formed(task[w])'
    BY <1>1, <2>1 DEF Formed, Moved, OnChannel, Renaming
  <2>3. task[w].ref = "fresh" => task[w].whom \notin chan[task[w].on].banned
    BY <1>1, <1>4 DEF Freed, Formed
  <2> QED BY <1>1, <1>2, <1>2a, <1>4, <2>2, <2>3, Onward DEF OnChannel
<1> QED BY <1>3, <1>4 DEF CheckBanned, Check, Decide

LEMMA CheckInvitedKeeps ==
    ASSUME Inv, NEW w \in Worker, CheckInvited(w) PROVE Inv'
<1>1. /\ task[w].at = "invited" /\ task[w].at \in OnChannel \ {"strip"} /\ Formed(task[w])
      /\ UNCHANGED <<open, chan, nicks, session, view, stored, histories>> /\ open' = open
  BY DEF CheckInvited, At, Check, Decide, OnChannel, Inv, Base, WellFormed
<1>2. \A c \in Channel, u \in User : ~Owes(w, c, u)
  BY <1>1 DEF Owes
<1>2a. \A c \in Channel : chan[c].members \subseteq User
  BY ChannelStateFields DEF Inv, Base
<1>3. CASE Go(w, "done")
  BY <1>1, <1>2, <1>2a, <1>3, Ended
<1>4. CASE Go(w, "insert")
  <2>1. Moved(w, "insert")
    BY <1>1, <1>4, MovedFormed DEF Steps
  <2>2. Formed(task[w])'
    BY <1>1, <2>1 DEF Formed, Moved, OnChannel, Renaming
  <2>3. task[w].ref = "fresh" => task[w].whom \notin chan[task[w].on].banned
    BY <1>1 DEF Inv, Bans
  <2> QED BY <1>1, <1>2, <1>2a, <1>4, <2>2, <2>3, Onward DEF OnChannel
<1> QED BY <1>3, <1>4 DEF CheckInvited, Check, Decide

LEMMA CheckOperatorKeeps ==
    ASSUME Inv, NEW w \in Worker, CheckOperator(w) PROVE Inv'
<1>1. /\ task[w].at = "operator" /\ task[w].at \in OnChannel \ {"strip"} /\ Formed(task[w])
      /\ UNCHANGED <<open, chan, nicks, session, view, stored, histories>> /\ open' = open
  BY DEF CheckOperator, At, Check, Decide, OnChannel, Inv, Base, WellFormed
<1>2. \A c \in Channel, u \in User : ~Owes(w, c, u)
  BY <1>1 DEF Owes
<1>2a. \A c \in Channel : chan[c].members \subseteq User
  BY ChannelStateFields DEF Inv, Base
<1>3. CASE Go(w, "done")
  BY <1>1, <1>2, <1>2a, <1>3, Ended
<1>4. ASSUME NEW step \in {"list", "option", "lookup"}, Go(w, step),
             task[w].cmd = "ban" => step = "lookup"
      PROVE  Inv'
  <2>1. Moved(w, step)
    BY <1>1, <1>4, MovedFormed DEF Steps
  <2>2. Formed(task[w])'
    BY <1>1, <1>4, <2>1 DEF Formed, Moved, OnChannel, Renaming
  <2> QED BY <1>1, <1>2, <1>2a, <1>4, <2>2, Onward DEF OnChannel
<1>5. CASE task[w].cmd = "topic"
  BY <1>3, <1>4, <1>5 DEF CheckOperator, Check, Decide
<1>6. CASE task[w].cmd = "set"
  BY <1>3, <1>4, <1>6 DEF CheckOperator, Check, Decide
<1>7. CASE task[w].cmd \notin {"topic", "set"}
  BY <1>3, <1>4, <1>7 DEF CheckOperator, Check, Decide
<1> QED BY <1>5, <1>6, <1>7

LEMMA CheckMemberKeeps ==
    ASSUME Inv, NEW w \in Worker, CheckMember(w) PROVE Inv'
<1> DEFINE p == task[w].whom \in chan[task[w].on].members
<1>1. /\ task[w].at = "member" /\ task[w].at \in OnChannel \ {"strip"} /\ Formed(task[w])
      /\ UNCHANGED <<open, chan, nicks, session, view, stored, histories>> /\ open' = open
  BY DEF CheckMember, At, Check, Decide, OnChannel, Inv, Base, WellFormed
<1>2. \A c \in Channel, u \in User : ~Owes(w, c, u)
  BY <1>1 DEF Owes
<1>2a. \A c \in Channel : chan[c].members \subseteq User
  BY ChannelStateFields DEF Inv, Base
<1>3. CASE Go(w, "done") /\ (Freed(w) \/ ~p)
  BY <1>1, <1>2, <1>2a, <1>3, Ended DEF Freed
<1>4. ASSUME NEW step \in {"operator", "grant", "leave"}, Go(w, step), Freed(w) \/ p,
             task[w].cmd = "ban" => step = "leave", step = "operator" => task[w].cmd = "topic"
      PROVE  Inv'
  <2>1. Moved(w, step)
    BY <1>1, <1>4, MovedFormed DEF Steps
  <2>2. Formed(task[w])'
    BY <1>1, <1>4, <2>1 DEF Formed, Moved, OnChannel, Renaming
  <2> QED BY <1>1, <1>2, <1>2a, <1>4, <2>2, Onward DEF OnChannel, Freed
<1>5. CASE task[w].cmd = "topic"
  BY <1>3, <1>4, <1>5 DEF CheckMember, Check, Decide
<1>6. CASE task[w].cmd = "mode"
  BY <1>3, <1>4, <1>6 DEF CheckMember, Check, Decide
<1>7. CASE task[w].cmd \notin {"topic", "mode"}
  BY <1>3, <1>4, <1>7 DEF CheckMember, Check, Decide
<1> QED BY <1>5, <1>6, <1>7

LEMMA CountKeeps ==
    ASSUME Inv, NEW w \in Worker, Count(w) PROVE Inv'
<1>1. /\ task[w].at = "count" /\ task[w].at \in OnChannel \ {"strip"} /\ Formed(task[w])
      /\ UNCHANGED <<open, chan, nicks, session, view, stored, histories>> /\ open' = open
      /\ task[w].cmd # "ban"
  BY DEF Count, At, Decide, OnChannel, Inv, Base, WellFormed, Formed
<1>2. ASSUME NEW step \in {"crown", "list"}, Go(w, step) PROVE Inv'
  <2>1. Moved(w, step)
    BY <1>1, <1>2, MovedFormed DEF Steps
  <2>2. Formed(task[w])'
    BY <1>1, <1>2, <2>1 DEF Formed, Moved, OnChannel, Renaming
  <2>3. task[w].ref = "fresh" => task[w].whom \in chan[task[w].on].members
    BY <1>1 DEF Inv, Rights
  <2> QED BY <1>1, <1>2, <2>2, <2>3, Onward DEF OnChannel
<1> QED BY <1>2 DEF Count, Decide

LEMMA CheckEmptyKeeps ==
    ASSUME Inv, NEW w \in Worker, CheckEmpty(w) PROVE Inv'
<1>1. /\ task[w].at = "empty" /\ task[w].at \in OnChannel \ {"strip"} /\ Formed(task[w])
      /\ UNCHANGED <<open, chan, nicks, session, view, stored, histories>> /\ open' = open
      /\ task[w].cmd \notin {"ban", "join"}
  BY DEF CheckEmpty, At, Decide, OnChannel, Inv, Base, WellFormed, Formed
<1>2. ASSUME NEW step \in {"destroy", "list"}, Go(w, step), step = "list" => task[w].cmd = "quit"
      PROVE  Inv'
  <2>1. Moved(w, step)
    BY <1>1, <1>2, MovedFormed DEF Steps
  <2>2. Formed(task[w])'
    BY <1>1, <1>2, <2>1 DEF Formed, Moved, OnChannel, Renaming
  <2>3. ASSUME NEW c \in Channel, NEW u \in User, Owes(w, c, u) PROVE task[w].cmd = "quit"
    BY <1>1, <2>3 DEF Owes
  <2>4. \A c \in Channel : chan[c].members \subseteq User
    BY ChannelStateFields DEF Inv, Base
  <2> QED BY <1>1, <1>2, <2>2, <2>3, <2>4, Onward DEF OnChannel
<1>3. ASSUME Go(w, "done"), task[w].cmd # "quit" PROVE Inv'
  <2>1. \A c \in Channel \ mixed : \A u \in chan[c].members : ~Owes(w, c, u)
    BY <1>1, <1>3 DEF Owes
  <2> QED BY <1>1, <1>3, <2>1, Ended
<1> QED BY <1>2, <1>3 DEF CheckEmpty, Decide, AfterEmpty

(* One command changes, the others wait. *)
LEMMA TaskAimed ==
    ASSUME NEW t \in Task, NEW step \in Steps, NEW n \in Target
    PROVE  [t EXCEPT !.whom = n, !.at = step] \in Task
BY DEF Task

LEMMA SingleIs ==
    ASSUME TypeOK, NEW w \in Worker, NEW t \in Task, task' = [task EXCEPT ![w] = t]
    PROVE  task' \in [Worker -> Task] /\ task'[w] = t /\ Others(w) /\ Intact(w)
BY DEF TypeOK, Others, Intact, Kept

(* A command learns whom it is about. *)
LEMMA AimedKeeps ==
    ASSUME Inv, NEW w \in Worker, NEW t \in Target, NEW step \in {"bearer", "member", "record"},
           task[w].at \in {"lookup", "bearer"}, step = "bearer" => t \in Name,
           task[w].cmd = "ban" => step \in {"bearer", "record"},
           task' = [task EXCEPT ![w] = [task[w] EXCEPT !.whom = t, !.at = step]],
           UNCHANGED <<open, chan, nickOf, session, view, stored, histories>>, TypeOK',
           \A n \in Name, u \in User : userOf'[n] = u => userOf[n] = u
    PROVE  Inv'
<1>1. /\ Formed(task[w]) /\ TypeOK /\ task[w].at \in OnChannel
  BY DEF Inv, Base, WellFormed, OnChannel
<1>2. [task[w] EXCEPT !.whom = t, !.at = step] \in Task
  <2>1. task[w] \in Task /\ step \in Steps
    BY <1>1, TaskFields DEF Steps
  <2> QED BY <2>1, TaskAimed
<1>3. task' \in [Worker -> Task] /\ Others(w) /\ Intact(w)
      /\ task'[w] = [task[w] EXCEPT !.whom = t, !.at = step]
  BY <1>1, <1>2, SingleIs
<1>4. /\ task'[w].at = step /\ task'[w].whom = t /\ task'[w].by = task[w].by
      /\ task'[w].on = task[w].on /\ task'[w].cmd = task[w].cmd /\ task'[w].ref = task[w].ref
  BY <1>1, <1>3, TaskFields DEF Task
<1>5. Base'
  <2>1. Formed(task[w])'
    BY <1>1, <1>4 DEF Formed, OnChannel, Renaming
  <2> QED BY <1>3, <2>1, OthersFormed DEF Base, Inv
<1>6. Rights' /\ Bans'
  <2>1. Rights'
    BY <1>3, <1>4, RightsQuiet DEF histories
  <2> QED BY <1>3, <1>4, <2>1, BansQuiet DEF histories
<1>7. Nicks'
  BY <1>3, <1>4, NicksKept DEF histories
<1>8. ListsSure'
  <2>1. \A c \in Channel \ mixed : \A u \in chan[c].members : ~Owes(w, c, u)
    BY DEF Owes
  <2> QED BY <1>3, <1>4, <2>1, ListsQuiet DEF histories
<1> QED BY <1>5, <1>6, <1>7, <1>8 DEF Inv

LEMMA LookupKeeps ==
    ASSUME Inv, NEW w \in Worker, NEW n \in Name, Lookup(w, n) PROVE Inv'
<1>1. /\ task[w].at = "lookup" /\ TypeOK
      /\ UNCHANGED <<open, chan, nicks, session, view, stored, histories>>
  BY DEF Lookup, At, Inv, Base
<1>2. PICK step \in {"bearer", "member", "record"} :
         /\ step = IF userOf[n] # None THEN "bearer" ELSE AfterLookup(w)
         /\ task[w].cmd = "ban" => step \in {"bearer", "record"}
  BY DEF AfterLookup
<1>3. task' = [task EXCEPT ![w] = [task[w] EXCEPT !.whom = n, !.at = step]]
  BY <1>2 DEF Lookup
<1>4. n \in Target /\ [task[w] EXCEPT !.whom = n, !.at = step] \in Task
  <2>1. task[w] \in Task /\ step \in Steps /\ n \in Target
    BY <1>1, TaskFields DEF Steps, Target
  <2> QED BY <2>1, TaskAimed
<1>5. TypeOK'
  BY <1>1, <1>3, <1>4, SingleIs DEF TypeOK, nicks, histories
<1> QED BY <1>1, <1>2, <1>3, <1>4, <1>5, AimedKeeps DEF nicks

(* Reading an entry may make one, but for nobody. *)
LEMMA SubscriptIs ==
    ASSUME TypeOK, NEW n \in Name, Subscript(n)
    PROVE  /\ userOf' \in [Name -> User \cup {Nobody, None}]
           /\ userOf'[n] \in User \cup {Nobody}
           /\ \A m \in Name, u \in User : userOf'[m] = u <=> userOf[m] = u
BY ChannelsAssumption DEF TypeOK, Subscript

LEMMA BearerKeeps ==
    ASSUME Inv, NEW w \in Worker, Bearer(w) PROVE Inv'
<1>1. /\ task[w].at = "bearer" /\ TypeOK /\ task[w].whom \in Name
      /\ UNCHANGED <<open, chan, nickOf, session, view, stored, histories>>
      /\ Subscript(task[w].whom)
  BY DEF Bearer, At, Inv, Base, WellFormed, Formed
<1>2. /\ userOf' \in [Name -> User \cup {Nobody, None}]
      /\ userOf'[task[w].whom] \in User \cup {Nobody}
      /\ \A m \in Name, u \in User : userOf'[m] = u => userOf[m] = u
  BY <1>1, SubscriptIs
<1>3. PICK t \in Target : t = userOf'[task[w].whom]
  BY <1>2 DEF Target, Name
<1>4. PICK step \in {"member", "record"} :
         step = AfterLookup(w) /\ (task[w].cmd = "ban" => step = "record")
  BY DEF AfterLookup
<1>5. task' = [task EXCEPT ![w] = [task[w] EXCEPT !.whom = t, !.at = step]]
  BY <1>3, <1>4 DEF Bearer
<1>6. [task[w] EXCEPT !.whom = t, !.at = step] \in Task
  <2>1. task[w] \in Task /\ step \in Steps
    BY <1>1, TaskFields DEF Steps
  <2> QED BY <2>1, TaskAimed
<1>7. TypeOK'
  BY <1>1, <1>2, <1>5, <1>6, SingleIs DEF TypeOK, histories
<1> QED BY <1>1, <1>2, <1>4, <1>5, <1>7, AimedKeeps

-----------------------------------------------------------------------------
(* User lists. *)

(* The command goes on after a list, or without one. *)
LEMMA AfterListKeeps ==
    ASSUME Inv, NEW w \in Worker, Go(w, AfterList(w)),
           UNCHANGED <<open, chan, nicks, session, view, stored, histories>>,
           task[w].at \in {"list", "send"},
           \A c \in Channel \ mixed : \A u \in chan[c].members : ~Owes(w, c, u)
    PROVE  Inv'
<1>1. /\ task[w].at \in OnChannel \ {"strip"} /\ Formed(task[w]) /\ open' = open
  BY DEF OnChannel, Inv, Base, WellFormed
<1>3. CASE Go(w, "done")
  BY <1>1, <1>3, Ended
<1>4. ASSUME NEW step \in {"own", "empty", "next"}, Go(w, step),
             step = "own" => task[w].cmd = "join", step = "next" => task[w].cmd = "quit",
             step = "empty" => task[w].cmd = "part"
      PROVE  Inv'
  <2>1. Moved(w, step)
    BY <1>1, <1>4, MovedFormed DEF Steps
  <2>2. Formed(task[w])'
    BY <1>1, <1>4, <2>1 DEF Formed, Moved, OnChannel, Renaming
  <2> QED BY <1>1, <1>4, <2>2, Onward DEF OnChannel
<1>5. CASE task[w].cmd \notin {"join", "part", "quit"}
  BY <1>3, <1>5 DEF AfterList
<1>6. CASE task[w].cmd = "join"
  BY <1>4, <1>6 DEF AfterList
<1>7. CASE task[w].cmd = "part"
  BY <1>4, <1>7 DEF AfterList
<1>8. CASE task[w].cmd = "quit"
  BY <1>4, <1>8 DEF AfterList
<1> QED BY <1>5, <1>6, <1>7, <1>8

LEMMA SendEndKeeps ==
    ASSUME Inv, NEW w \in Worker, SendEnd(w) PROVE Inv'
<1>1. /\ task[w].at = "send" /\ task[w].at \in OnChannel \ {"strip"} /\ Formed(task[w])
      /\ UNCHANGED <<open, chan, nicks, session, view, stored, histories>> /\ open' = open
  BY DEF SendEnd, At, OnChannel, Inv, Base, WellFormed
<1>2. \A c \in Channel \ mixed : \A u \in chan[c].members : ~Owes(w, c, u)
  <2> SUFFICES ASSUME NEW c \in Channel \ mixed, NEW u \in chan[c].members, Owes(w, c, u)
               PROVE  FALSE
    OBVIOUS
  <2>1. task[w].on = c /\ ~Freed(w) /\ u \notin task[w].sent
    BY <1>1 DEF Owes
  <2>2. task[w].list = chan[c].members
    BY <1>1, <2>1 DEF Inv, ListsSure, Sure
  <2> QED BY <2>1, <2>2 DEF SendEnd
<1> QED BY <1>1, <1>2, AfterListKeeps DEF SendEnd

LEMMA FindListKeeps ==
    ASSUME Inv, NEW w \in Worker, FindList(w) PROVE Inv'
<1> DEFINE c == task[w].on
<1>1. /\ task[w].at = "list" /\ Formed(task[w]) /\ TypeOK /\ c \in Channel
      /\ UNCHANGED <<open, chan, nicks, session, view, stored, slipped, strays, forked>>
      /\ open' = open
  BY DEF FindList, At, Inv, Base, WellFormed, Formed, OnChannel
<1>2. CASE c \notin open
  <2>1. /\ Go(w, AfterList(w)) /\ task[w].at \in {"list", "send"}
        /\ UNCHANGED <<open, chan, nicks, session, view, stored, histories>>
    BY <1>1, <1>2 DEF FindList, histories
  <2>2. \A d \in Channel, u \in User : ~Owes(w, d, u)
    BY <1>1, <1>2 DEF Owes, Freed, Formed, OnChannel
  <2>3. \A d \in Channel : chan[d].members \subseteq User
    BY <1>1, ChannelStateFields
  <2>4. \A d \in Channel \ mixed : \A u \in chan[d].members : ~Owes(w, d, u)
    BY <2>2, <2>3
  <2> QED BY <2>1, <2>4, AfterListKeeps
<1>3. CASE c \in open
  <2> DEFINE t == [task[w] EXCEPT !.at = "send", !.list = chan[c].members, !.sent = {}]
  <2>1. chan[c].members \in SUBSET User
    BY <1>1, ChannelStateFields
  <2>2. t \in Task
    <3>1. task[w] \in Task
      BY <1>1, TaskFields
    <3> QED BY <2>1, <3>1, ZenonT(60) DEF Task, Steps
  <2>3. task' = [task EXCEPT ![w] = t]
    BY <1>1, <1>3, TaskFields DEF FindList, TypeOK
  <2> HIDE DEF t
  <2>4. task' \in [Worker -> Task] /\ task'[w] = t /\ Others(w) /\ Intact(w)
    BY <1>1, <2>2, <2>3, SingleIs
  <2>5. /\ task'[w].at = "send" /\ task'[w].list = chan[c].members /\ task'[w].sent = {}
        /\ task'[w].by = task[w].by /\ task'[w].whom = task[w].whom
        /\ task'[w].on = task[w].on /\ task'[w].cmd = task[w].cmd /\ task'[w].ref = task[w].ref
    BY <1>1, <2>4, TaskFields DEF t, Task
  <2>6. mixed' = IF ~Freed(w) /\ \A x \in Worker \ {w} : ~Telling(x, c) THEN mixed \ {c} ELSE mixed
    BY <1>3 DEF FindList
  <2>7. Base'
    <3>1. TypeOK'
      BY <1>1, <2>4, <2>6 DEF TypeOK, nicks
    <3>2. Formed(task[w])'
      BY <1>1, <2>5 DEF Formed, OnChannel, Renaming
    <3> QED BY <1>1, <2>4, <3>1, <3>2, OthersFormed DEF Base, Inv
  <2>8. Rights' /\ Bans'
    BY <1>1, <2>4, <2>5, RightsQuiet, BansQuiet DEF Formed
  <2>9. Nicks'
    BY <1>1, <2>4, <2>5, NicksQuiet DEF nicks, Formed, OnChannel
  <2>10. ListsSure'
    <3> SUFFICES ASSUME NEW d \in Channel \ mixed' PROVE Sure(d)'
      BY DEF ListsSure
    <3>1. \A x \in Worker \ {w} : Kept(x) /\ (task'[x].ref = "freed" => task[x].ref = "freed")
      BY <2>4 DEF Others, Intact
    <3>2. \A x \in Worker, u \in User : Owes(x, d, u) => Owes(x, d, u)'
      BY <1>1, <2>5, <3>1 DEF Owes, Freed, Kept
    <3>3. CASE d \notin mixed
      <4>1. Sure(d) /\ chan[d].members \in SUBSET User
        BY <1>1, <3>3, ChannelStateFields DEF Inv, ListsSure
      <4>2. \A x \in Worker : task'[x].on = d /\ task'[x].at \in {"send", "reply"}
                                  => task'[x].list = chan[d].members
        BY <2>5, <3>1, <4>1 DEF Sure, Kept
      <4> QED BY <1>1, <3>2, <4>1, <4>2 DEF Sure
    <3>4. CASE d \in mixed
      <4>1. d = c /\ ~Freed(w) /\ \A x \in Worker \ {w} : ~Telling(x, c)
        BY <2>6, <3>4
      <4>2. \A x \in Worker : task'[x].on = d /\ task'[x].at \in {"send", "reply"}
                                  => task'[x].list = chan[d].members
        BY <2>5, <3>1, <4>1 DEF Kept, Telling
      <4>3. \A u \in User : Owes(w, d, u)'
        BY <2>5, <4>1 DEF Owes, Freed
      <4> QED BY <1>1, <2>1, <4>1, <4>2, <4>3 DEF Sure
    <3> QED BY <3>3, <3>4
  <2> QED BY <2>7, <2>8, <2>9, <2>10 DEF Inv
<1> QED BY <1>2, <1>3

LEMMA SendKeeps ==
    ASSUME Inv, NEW w \in Worker, NEW u \in User, Send(w, u) PROVE Inv'
<1> DEFINE c == task[w].on
           t == [task[w] EXCEPT !.sent = @ \cup {u}]
<1>1. /\ task[w].at = "send" /\ Formed(task[w]) /\ TypeOK /\ c \in Channel
      /\ UNCHANGED <<open, chan, nicks, session, stored, histories>> /\ open' = open
  BY DEF Send, At, Inv, Base, WellFormed, Formed, OnChannel
<1>2. t \in Task
  BY <1>1, TaskFields DEF Task
<1>3. task' = [task EXCEPT ![w] = t]
  BY <1>1, TaskFields DEF Send, TypeOK
<1> HIDE DEF t
<1>4. task' \in [Worker -> Task] /\ task'[w] = t /\ Others(w) /\ Intact(w)
  BY <1>1, <1>2, <1>3, SingleIs
<1>5. /\ task'[w].at = task[w].at /\ task'[w].list = task[w].list
      /\ task'[w].sent = task[w].sent \cup {u}
      /\ task'[w].by = task[w].by /\ task'[w].whom = task[w].whom
      /\ task'[w].on = task[w].on /\ task'[w].cmd = task[w].cmd /\ task'[w].ref = task[w].ref
  BY <1>1, <1>4, TaskFields DEF t, Task
<1>6. /\ view' \in [User -> [Channel -> (SUBSET User) \cup {None}]]
      /\ \A v \in User, d \in Channel :
            view'[v][d] = IF v = u /\ d = c /\ session[u] = "found" THEN task[w].list ELSE view[v][d]
  BY <1>1, TaskFields DEF Send, TypeOK
<1>7. Base'
  <2>1. TypeOK'
    BY <1>1, <1>4, <1>6 DEF TypeOK, nicks, histories
  <2>2. Formed(task[w])'
    BY <1>1, <1>5 DEF Formed, OnChannel, Renaming
  <2> QED BY <1>1, <1>4, <2>1, <2>2, OthersFormed DEF Base, Inv
<1>8. Rights' /\ Bans'
  BY <1>1, <1>4, <1>5, RightsQuiet, BansQuiet DEF Formed, histories
<1>9. Nicks'
  BY <1>1, <1>4, <1>5, NicksQuiet DEF nicks, Formed, OnChannel, histories
<1>10. ListsSure'
  <2> SUFFICES ASSUME NEW d \in Channel \ mixed PROVE Sure(d)'
    BY <1>1 DEF ListsSure, histories
  <2>1. Sure(d) /\ chan[d].members \in SUBSET User
    BY <1>1, ChannelStateFields DEF Inv, ListsSure
  <2>2. \A x \in Worker \ {w} : Kept(x) /\ (task'[x].ref = "freed" => task[x].ref = "freed")
    BY <1>4 DEF Others, Intact
  <2>3. \A x \in Worker : task'[x].on = d /\ task'[x].at \in {"send", "reply"}
                              => task'[x].list = chan[d].members
    BY <1>5, <2>1, <2>2 DEF Sure, Kept
  <2>4. \A x \in Worker, v \in User : v # u \/ d # c => (Owes(x, d, v) => Owes(x, d, v)')
    BY <1>1, <1>5, <2>2 DEF Owes, Freed, Kept
  <2>5. ASSUME NEW v \in chan[d].members, session[v] = "found", view'[v][d] # None
        PROVE  view'[v][d] = chan[d].members \/ \E x \in Worker : Owes(x, d, v)'
    <3>1. CASE v = u /\ d = c
      BY <1>1, <1>6, <2>1, <2>5, <3>1 DEF Sure
    <3>2. CASE ~(v = u /\ d = c)
      BY <1>6, <2>1, <2>4, <2>5, <3>2 DEF Sure
    <3> QED BY <3>1, <3>2
  <2> QED BY <1>1, <2>3, <2>5 DEF Sure
<1> QED BY <1>7, <1>8, <1>9, <1>10 DEF Inv

LEMMA OwnListKeeps ==
    ASSUME Inv, NEW w \in Worker, OwnList(w) PROVE Inv'
<1> DEFINE c == task[w].on
<1>1. /\ task[w].at = "own" /\ Formed(task[w]) /\ TypeOK /\ c \in Channel
      /\ UNCHANGED <<open, chan, nicks, session, view, stored, histories>> /\ open' = open
  BY DEF OwnList, At, Inv, Base, WellFormed, Formed, OnChannel
<1>2. \A d \in Channel, u \in User : ~Owes(w, d, u)
  BY <1>1 DEF Owes
<1>3. \A d \in Channel : chan[d].members \subseteq User
  BY <1>1, ChannelStateFields
<1>4. CASE c \notin open
  <2>1. Go(w, "done")
    BY <1>4 DEF OwnList
  <2> QED BY <1>1, <1>2, <1>3, <2>1, Ended DEF OnChannel
<1>5. CASE c \in open
  <2> DEFINE t == [task[w] EXCEPT !.at = "reply", !.list = chan[c].members]
  <2>1. t \in Task
    <3>1. task[w] \in Task /\ chan[c].members \in SUBSET User
      BY <1>1, <1>3, TaskFields
    <3> QED BY <3>1, ZenonT(60) DEF Task, Steps
  <2>2. task' = [task EXCEPT ![w] = t]
    BY <1>1, <1>5, TaskFields DEF OwnList, TypeOK
  <2> HIDE DEF t
  <2>3. task' \in [Worker -> Task] /\ task'[w] = t /\ Others(w) /\ Intact(w)
    BY <1>1, <2>1, <2>2, SingleIs
  <2>4. /\ task'[w].at = "reply" /\ task'[w].list = chan[c].members
        /\ task'[w].by = task[w].by /\ task'[w].whom = task[w].whom
        /\ task'[w].on = task[w].on /\ task'[w].cmd = task[w].cmd /\ task'[w].ref = task[w].ref
    BY <1>1, <2>3, TaskFields DEF t, Task
  <2>5. Base'
    <3>1. TypeOK'
      BY <1>1, <2>3 DEF TypeOK, nicks, histories
    <3>2. Formed(task[w])'
      BY <1>1, <2>4 DEF Formed, OnChannel, Renaming
    <3> QED BY <1>1, <2>3, <3>1, <3>2, OthersFormed DEF Base, Inv
  <2>6. Rights' /\ Bans'
    BY <1>1, <2>3, <2>4, RightsQuiet, BansQuiet DEF Formed, histories
  <2>7. Nicks'
    BY <1>1, <2>3, <2>4, NicksQuiet DEF nicks, Formed, OnChannel, histories
  <2>8. ListsSure'
    <3> SUFFICES ASSUME NEW d \in Channel \ mixed PROVE Sure(d)'
      BY <1>1 DEF ListsSure, histories
    <3>1. Sure(d)
      BY DEF Inv, ListsSure
    <3>2. \A x \in Worker \ {w} : Kept(x) /\ (task'[x].ref = "freed" => task[x].ref = "freed")
      BY <2>3 DEF Others, Intact
    <3>3. \A x \in Worker : task'[x].on = d /\ task'[x].at \in {"send", "reply"}
                                => task'[x].list = chan[d].members
      BY <2>4, <3>1, <3>2 DEF Sure, Kept
    <3>4. \A x \in Worker, u \in chan[d].members : Owes(x, d, u) => Owes(x, d, u)'
      BY <1>2, <1>3, <3>2 DEF Owes, Freed, Kept
    <3> QED BY <1>1, <3>1, <3>3, <3>4 DEF Sure
  <2> QED BY <2>5, <2>6, <2>7, <2>8 DEF Inv
<1> QED BY <1>4, <1>5

LEMMA OwnReplyKeeps ==
    ASSUME Inv, NEW w \in Worker, OwnReply(w) PROVE Inv'
<1> DEFINE c == task[w].on
<1>1. /\ task[w].at = "reply" /\ Formed(task[w]) /\ TypeOK /\ c \in Channel /\ task[w].by \in User
      /\ UNCHANGED <<open, chan, nicks, session, stored, histories>> /\ open' = open
  BY DEF OwnReply, At, Inv, Base, WellFormed, Formed, OnChannel
<1>2. \A d \in Channel, u \in User : ~Owes(w, d, u)
  BY <1>1 DEF Owes
<1>3. \A d \in Channel : chan[d].members \subseteq User
  BY <1>1, ChannelStateFields
<1>4. task' \in [Worker -> Task] /\ Others(w) /\ Intact(w) /\ task'[w] = NoTask
  BY <1>1, GoIs DEF OwnReply, Steps
<1>5. task'[w].at = "done" /\ task'[w].cmd = "none" /\ task'[w].on = None
  BY <1>4 DEF NoTask
<1>6. /\ view' \in [User -> [Channel -> (SUBSET User) \cup {None}]]
      /\ \A v \in User, d \in Channel :
            \/ view'[v][d] = view[v][d]
            \/ d = c /\ view'[v][d] = task[w].list
  <2>1. CASE UNCHANGED view
    BY <1>1, <2>1 DEF TypeOK
  <2>2. CASE view' = [view EXCEPT ![task[w].by][c] = task[w].list]
    BY <1>1, <2>2, TaskFields DEF TypeOK
  <2> QED BY <2>1, <2>2 DEF OwnReply
<1>7. Base'
  <2>1. TypeOK'
    BY <1>1, <1>4, <1>6 DEF TypeOK, nicks, histories
  <2>2. Formed(task[w])'
    BY <1>5 DEF Formed, OnChannel, Renaming
  <2> QED BY <1>1, <1>4, <2>1, <2>2, OthersFormed DEF Base, Inv
<1>8. Rights' /\ Bans'
  BY <1>1, <1>4, <1>5, RightsQuiet, BansQuiet DEF histories
<1>9. Nicks'
  BY <1>1, <1>4, <1>5, NicksQuiet DEF nicks, histories
<1>10. ListsSure'
  <2> SUFFICES ASSUME NEW d \in Channel \ mixed PROVE Sure(d)'
    BY <1>1 DEF ListsSure, histories
  <2>1. Sure(d)
    BY DEF Inv, ListsSure
  <2>2. \A x \in Worker \ {w} : Kept(x) /\ (task'[x].ref = "freed" => task[x].ref = "freed")
    BY <1>4 DEF Others, Intact
  <2>3. \A x \in Worker : task'[x].on = d /\ task'[x].at \in {"send", "reply"}
                              => task'[x].list = chan[d].members
    BY <1>5, <2>1, <2>2 DEF Sure, Kept
  <2>4. \A x \in Worker, u \in chan[d].members : Owes(x, d, u) => Owes(x, d, u)'
    BY <1>2, <1>3, <2>2 DEF Owes, Freed, Kept
  <2>5. c = d => task[w].list = chan[d].members
    BY <1>1, <2>1 DEF Sure
  <2>6. ASSUME NEW v \in chan[d].members, session[v] = "found", view'[v][d] # None
        PROVE  view'[v][d] = chan[d].members \/ \E x \in Worker : Owes(x, d, v)'
    BY <1>3, <1>6, <2>1, <2>4, <2>5, <2>6 DEF Sure
  <2> QED BY <1>1, <2>3, <2>6 DEF Sure
<1> QED BY <1>7, <1>8, <1>9, <1>10 DEF Inv

-----------------------------------------------------------------------------
(* Changes. *)

(* Whoever changes the members of a channel alone owes everybody the list. *)
LEMMA ListsChanged ==
    ASSUME Inv, NEW w \in Worker, NEW D \in SUBSET Channel, Others(w), Intact(w),
           ~Freed(w) => D = {task[w].on},
           \A c \in Channel \ D : chan'[c].members = chan[c].members,
           mixed' = mixed \cup OutOfTurn(w, D), UNCHANGED <<session, view>>,
           task[w].at \in {"insert", "leave"},
           task'[w].at \in {"count", "strip", "list"}, task'[w].on = task[w].on,
           task'[w].ref = task[w].ref
    PROVE  ListsSure'
<1> SUFFICES ASSUME NEW c \in Channel \ mixed' PROVE Sure(c)'
  BY DEF ListsSure
<1>1. Sure(c) /\ chan[c].members \in SUBSET User
  BY ChannelStateFields DEF Inv, ListsSure, Base
<1>2. \A x \in Worker \ {w} : Kept(x) /\ (task'[x].ref = "freed" => task[x].ref = "freed")
  BY DEF Others, Intact
<1>3. CASE c \in D
  <2>1. ~Freed(w) /\ \A x \in Worker \ {w} : ~Telling(x, c)
    BY <1>3 DEF OutOfTurn
  <2>2. \A u \in chan'[c].members : Owes(w, c, u)'
    BY <1>3, <2>1 DEF Owes, Freed
  <2>3. \A x \in Worker : ~(task'[x].on = c /\ task'[x].at \in {"send", "reply"})
    BY <1>2, <2>1 DEF Kept, Telling
  <2> QED BY <2>2, <2>3 DEF Sure
<1>4. CASE c \notin D
  <2>1. \A u \in User : ~Owes(w, c, u)
    BY DEF Owes
  <2>2. \A x \in Worker, u \in chan[c].members : Owes(x, c, u) => Owes(x, c, u)'
    BY <1>1, <1>2, <2>1 DEF Owes, Freed, Kept
  <2>3. \A x \in Worker : task'[x].on = c /\ task'[x].at \in {"send", "reply"}
                              => task'[x].list = chan[c].members
    BY <1>1, <1>2 DEF Sure, Kept
  <2> QED BY <1>1, <1>4, <2>2, <2>3 DEF Sure
<1> QED BY <1>3, <1>4

LEMMA InsertKeeps ==
    ASSUME Inv, NEW w \in Worker, Insert(w) PROVE Inv'
<1>1. /\ task[w].at = "insert" /\ task[w].at \in OnChannel /\ Formed(task[w]) /\ TypeOK /\ Base
      /\ UNCHANGED <<open, nicks, session, view, stored, strays, forked>> /\ open' = open
      /\ task[w].cmd \notin {"ban", "nick", "quit"} /\ task[w].whom \in User
      /\ task[w].on \in Channel
  BY DEF Insert, At, Inv, Base, WellFormed, Formed, OnChannel
<1>2. task' \in [Worker -> Task] /\ Moved(w, "count") /\ Others(w) /\ Intact(w)
  BY <1>1, GoIs DEF Insert, Steps
<1>3. PICK D \in Reach(w) :
         /\ chan' = [c \in Channel |-> IF c \in D
                       THEN [chan[c] EXCEPT !.members = @ \cup {task[w].whom}] ELSE chan[c]]
         /\ slipped' = [c \in Channel |-> IF c \in D /\ task[w].ref # "fresh"
                       THEN slipped[c] \cup {task[w].whom} ELSE slipped[c]]
         /\ mixed' = mixed \cup OutOfTurn(w, D)
  BY DEF Insert
<1>4. D \in SUBSET Channel /\ (~Freed(w) => D = {task[w].on})
  BY <1>1, ReachIs DEF TypeOK
<1>5. \A c \in Channel :
         /\ chan'[c] \in ChannelState
         /\ chan'[c].members = IF c \in D THEN chan[c].members \cup {task[w].whom}
                               ELSE chan[c].members
         /\ chan'[c].operators = chan[c].operators /\ chan'[c].voiced = chan[c].voiced
         /\ chan'[c].banned = chan[c].banned
  BY <1>1, <1>3, ChannelStateFields DEF ChannelState
<1>6. Base'
  <2>1. chan' \in [Channel -> ChannelState]
    BY <1>3, <1>5
  <2>2. slipped' \in [Channel -> SUBSET Target] /\ mixed' \in SUBSET Channel
    BY <1>1, <1>3, <1>4 DEF TypeOK, OutOfTurn, Name, Target
  <2>3. TypeOK'
    BY <1>1, <1>2, <2>1, <2>2 DEF TypeOK, nicks
  <2>4. Formed(task[w])'
    BY <1>1, <1>2 DEF Formed, Moved, OnChannel, Renaming
  <2> QED BY <1>1, <1>2, <2>3, <2>4, OthersFormed DEF Base, Inv
<1>7. Rights'
  <2>1. \A c \in Channel : Stripping(c) \subseteq Stripping(c)'
    BY <1>1, <1>2, StrippingKept
  <2>2. RightsOfOutsiders'
    BY <1>1, <1>5, <2>1 DEF Inv, Rights, RightsOfOutsiders
  <2>3. ASSUME NEW x \in Worker, task'[x].at \in {"count", "crown", "grant"}, task'[x].ref = "fresh"
        PROVE  task'[x].whom \in chan'[task'[x].on].members
    <3>1. CASE x = w
      BY <1>1, <1>2, <1>4, <1>5, <2>3, <3>1 DEF Moved, Freed
    <3>2. CASE x # w
      <4>1. Kept(x) /\ Formed(task[x])
        BY <1>1, <1>2, <3>2 DEF Others, Base, WellFormed
      <4>2. task[x].on \in Channel
        BY <2>3, <4>1 DEF Kept, Formed, OnChannel
      <4> QED BY <1>5, <2>3, <4>1, <4>2 DEF Kept, Inv, Rights
    <3> QED BY <3>1, <3>2
  <2> QED BY <2>2, <2>3 DEF Rights
<1>8. Bans'
  <2>1. \A c \in Channel : Dropping(c) \subseteq Dropping(c)'
    BY <1>1, <1>2, DroppingKept
  <2>2. BannedAreOut'
    <3> SUFFICES ASSUME NEW c \in Channel, NEW u \in chan'[c].members \cap chan'[c].banned
                 PROVE  u \in slipped'[c] \cup Dropping(c)'
      BY DEF BannedAreOut
    <3>1. CASE u \in chan[c].members
      <4>1. u \in slipped[c] \cup Dropping(c)
        BY <1>5, <3>1 DEF Inv, Bans, BannedAreOut
      <4> QED BY <1>3, <2>1, <4>1
    <3>2. CASE u \notin chan[c].members
      <4>1. c \in D /\ u = task[w].whom
        BY <1>5, <3>2
      <4>2. CASE task[w].ref = "fresh"
        <5>1. task[w].on = c
          BY <1>4, <4>1, <4>2 DEF Freed
        <5> QED BY <1>1, <1>5, <4>1, <4>2, <5>1 DEF Inv, Bans
      <4>3. CASE task[w].ref # "fresh"
        BY <1>3, <4>1, <4>3
      <4> QED BY <4>2, <4>3
    <3> QED BY <3>1, <3>2
  <2>3. ASSUME NEW x \in Worker, task'[x].at \in {"invited", "insert"}, task'[x].ref = "fresh"
        PROVE  task'[x].whom \notin chan'[task'[x].on].banned
    <3>1. x # w
      BY <1>2, <2>3 DEF Moved
    <3>2. Kept(x) /\ Formed(task[x])
      BY <1>1, <1>2, <3>1 DEF Others, Base, WellFormed
    <3>3. task[x].on \in Channel
      BY <2>3, <3>2 DEF Kept, Formed, OnChannel
    <3> QED BY <1>5, <2>3, <3>2, <3>3 DEF Kept, Inv, Bans
  <2>4. ASSUME NEW x \in Worker, task'[x].cmd = "ban", task'[x].at \in {"member", "leave"},
               task'[x].ref # "freed"
        PROVE  task'[x].whom \in chan'[task'[x].on].banned
    <3>1. x # w
      BY <1>2, <2>4 DEF Moved
    <3>2. Kept(x) /\ Formed(task[x])
      BY <1>1, <1>2, <3>1 DEF Others, Base, WellFormed
    <3>3. task[x].on \in Channel
      BY <2>4, <3>2 DEF Kept, Formed, OnChannel
    <3> QED BY <1>5, <2>4, <3>2, <3>3 DEF Kept, Inv, Bans
  <2> QED BY <2>2, <2>3, <2>4 DEF Bans
<1>9. Nicks'
  BY <1>1, <1>2, NicksQuiet DEF Moved, nicks
<1>10. ListsSure'
  BY <1>1, <1>2, <1>3, <1>4, <1>5, ListsChanged DEF Moved
<1> QED BY <1>6, <1>7, <1>8, <1>9, <1>10 DEF Inv

(* A right goes to a member, or its bearer is recorded. *)
LEMMA RightsGiven ==
    ASSUME Inv, NEW w \in Worker, NEW D \in SUBSET Channel, Others(w), Intact(w),
           task[w].at \in {"crown", "grant"}, task'[w].at \in {"list", "done"},
           ~Freed(w) => D = {task[w].on}, Right(w, D),
           \A c \in Channel :
              /\ chan'[c].members = chan[c].members /\ chan'[c].banned = chan[c].banned
              /\ chan'[c].operators \cup chan'[c].voiced
                    \subseteq chan[c].operators \cup chan[c].voiced \cup {task[w].whom}
              /\ c \notin D => chan'[c] = chan[c]
    PROVE  Rights'
<1>1. \A c \in Channel : Stripping(c) \subseteq Stripping(c)'
  BY StrippingKept
<1>2. \A c \in Channel : strays'[c] = IF c \in D /\ task[w].ref # "fresh"
                                      THEN strays[c] \cup {task[w].whom} ELSE strays[c]
  BY DEF Right
<1>3. ASSUME NEW c \in Channel, NEW u, u \in chan'[c].operators \cup chan'[c].voiced
      PROVE  u \in chan'[c].members \cup chan'[c].banned \cup strays'[c] \cup Stripping(c)'
  <2>1. CASE u \in chan[c].operators \cup chan[c].voiced
    <3>1. u \in chan[c].members \cup chan[c].banned \cup strays[c] \cup Stripping(c)
      BY <2>1 DEF Inv, Rights, RightsOfOutsiders
    <3>2. strays[c] \subseteq strays'[c] /\ Stripping(c) \subseteq Stripping(c)'
      BY <1>1, <1>2
    <3> QED BY <3>1, <3>2
  <2>2. CASE u \notin chan[c].operators \cup chan[c].voiced
    <3>1. c \in D /\ u = task[w].whom
      BY <1>3, <2>2
    <3>2. CASE task[w].ref = "fresh"
      <4>1. task[w].on = c
        BY <3>1, <3>2 DEF Freed
      <4>2. u \in chan[c].members
        BY <3>1, <3>2, <4>1 DEF Inv, Rights
      <4> QED BY <4>2
    <3>3. CASE task[w].ref # "fresh"
      BY <1>2, <3>1, <3>3
    <3> QED BY <3>2, <3>3
  <2> QED BY <2>1, <2>2
<1>4. ASSUME NEW x \in Worker, task'[x].at \in {"count", "crown", "grant"}, task'[x].ref = "fresh"
      PROVE  task'[x].whom \in chan'[task'[x].on].members
  <2>1. Kept(x) /\ Formed(task[x])
    BY <1>4 DEF Others, Inv, Base, WellFormed
  <2>2. task[x].on \in Channel
    BY <1>4, <2>1 DEF Kept, Formed, OnChannel
  <2> QED BY <1>4, <2>1, <2>2 DEF Kept, Inv, Rights
<1>5. RightsOfOutsiders'
  BY <1>3 DEF RightsOfOutsiders
<1> QED BY <1>4, <1>5 DEF Rights

LEMMA CrownKeeps ==
    ASSUME Inv, NEW w \in Worker, Crown(w) PROVE Inv'
<1>1. /\ task[w].at = "crown" /\ task[w].at \in OnChannel /\ Formed(task[w]) /\ TypeOK /\ Base
      /\ UNCHANGED <<open, nicks, session, view, stored, slipped, mixed, forked>> /\ open' = open
      /\ task[w].cmd \notin {"ban", "nick", "quit"} /\ task[w].whom \in Target
  BY DEF Crown, At, Inv, Base, WellFormed, Formed, OnChannel
<1>2. task' \in [Worker -> Task] /\ Moved(w, "list") /\ Others(w) /\ Intact(w)
  BY <1>1, GoIs DEF Crown, Steps
<1>3. PICK D \in Reach(w) :
         /\ chan' = [c \in Channel |-> IF c \in D
                       THEN [chan[c] EXCEPT !.operators = @ \cup {task[w].whom}] ELSE chan[c]]
         /\ Right(w, D)
  BY DEF Crown
<1>4. D \in SUBSET Channel /\ (~Freed(w) => D = {task[w].on})
  BY <1>1, ReachIs DEF TypeOK
<1>5. \A c \in Channel :
         /\ chan'[c] \in ChannelState
         /\ chan'[c].members = chan[c].members /\ chan'[c].banned = chan[c].banned
         /\ chan'[c].operators \cup chan'[c].voiced
               \subseteq chan[c].operators \cup chan[c].voiced \cup {task[w].whom}
         /\ c \notin D => chan'[c] = chan[c]
  BY <1>1, <1>3, ChannelStateFields DEF ChannelState
<1>6. Base'
  <2>1. chan' \in [Channel -> ChannelState]
    BY <1>3, <1>5
  <2>2. strays' \in [Channel -> SUBSET Target]
    BY <1>1, <1>3 DEF TypeOK, Right
  <2>3. TypeOK'
    BY <1>1, <1>2, <2>1, <2>2 DEF TypeOK, nicks
  <2>4. Formed(task[w])'
    BY <1>1, <1>2 DEF Formed, Moved, OnChannel, Renaming
  <2> QED BY <1>1, <1>2, <2>3, <2>4, OthersFormed DEF Base, Inv
<1>7. Rights'
  BY <1>1, <1>2, <1>3, <1>4, <1>5, RightsGiven DEF Moved
<1>8. Bans'
  BY <1>1, <1>2, <1>5, BansKept DEF Moved
<1>9. Nicks'
  BY <1>1, <1>2, NicksQuiet DEF Moved, nicks
<1>10. ListsSure'
  <2>1. \A c \in Channel : \A u \in chan[c].members : Owes(w, c, u) => Owes(w, c, u)'
    BY <1>2 DEF Moved, Owes, Freed
  <2> QED BY <1>1, <1>2, <1>5, <2>1, ListsKept DEF Moved
<1> QED BY <1>6, <1>7, <1>8, <1>9, <1>10 DEF Inv

LEMMA WithStatusIs ==
    ASSUME NEW ch \in ChannelState, NEW t \in Target, NEW f \in {"o", "v"}, NEW on \in BOOLEAN
    PROVE  /\ WithStatus(ch, t, f, on) \in ChannelState
           /\ WithStatus(ch, t, f, on).members = ch.members
           /\ WithStatus(ch, t, f, on).banned = ch.banned
           /\ WithStatus(ch, t, f, on).operators \in SUBSET (ch.operators \cup {t})
           /\ WithStatus(ch, t, f, on).voiced \in SUBSET (ch.voiced \cup {t})
<1>1. CASE f = "o" /\ on
  BY <1>1 DEF WithStatus, ChannelState
<1>2. CASE f = "o" /\ ~on
  BY <1>2 DEF WithStatus, ChannelState
<1>3. CASE f = "v" /\ on
  BY <1>3 DEF WithStatus, ChannelState
<1>4. CASE f = "v" /\ ~on
  BY <1>4 DEF WithStatus, ChannelState
<1> QED BY <1>1, <1>2, <1>3, <1>4

LEMMA GrantKeeps ==
    ASSUME Inv, NEW w \in Worker, NEW f \in {"o", "v"}, NEW on \in BOOLEAN, Grant(w, f, on)
    PROVE  Inv'
<1>1. /\ task[w].at = "grant" /\ task[w].at \in OnChannel /\ Formed(task[w]) /\ TypeOK /\ Base
      /\ UNCHANGED <<open, nicks, session, view, stored, slipped, mixed, forked>> /\ open' = open
      /\ task[w].cmd \notin {"ban", "nick", "quit"} /\ task[w].whom \in Target
  BY DEF Grant, At, Inv, Base, WellFormed, Formed, OnChannel
<1>2. task' \in [Worker -> Task] /\ task'[w] = NoTask /\ Others(w) /\ Intact(w)
  BY <1>1, GoIs DEF Grant, Steps
<1>2a. task'[w].at = "done" /\ task'[w].cmd = "none" /\ task'[w].on = None
  BY <1>2 DEF NoTask
<1>3. PICK D \in Reach(w) :
         /\ chan' = [c \in Channel |-> IF c \in D
                       THEN WithStatus(chan[c], task[w].whom, f, on) ELSE chan[c]]
         /\ Right(w, D)
  BY DEF Grant
<1>4. D \in SUBSET Channel /\ (~Freed(w) => D = {task[w].on})
  BY <1>1, ReachIs DEF TypeOK
<1>5. ASSUME NEW c \in Channel
      PROVE  /\ chan'[c] \in ChannelState
             /\ chan'[c].members = chan[c].members /\ chan'[c].banned = chan[c].banned
             /\ chan'[c].operators \cup chan'[c].voiced
                   \subseteq chan[c].operators \cup chan[c].voiced \cup {task[w].whom}
             /\ c \notin D => chan'[c] = chan[c]
  <2>1. chan[c] \in ChannelState
    BY <1>1, ChannelStateFields
  <2>2. CASE c \in D
    BY <1>1, <1>3, <2>1, <2>2, WithStatusIs
  <2>3. CASE c \notin D
    BY <1>3, <2>1, <2>3
  <2> QED BY <2>2, <2>3
<1>6. Base'
  <2>1. chan' \in [Channel -> ChannelState]
    BY <1>3, <1>5
  <2>2. strays' \in [Channel -> SUBSET Target]
    BY <1>1, <1>3 DEF TypeOK, Right
  <2>3. TypeOK'
    BY <1>1, <1>2, <2>1, <2>2 DEF TypeOK, nicks
  <2>4. Formed(task[w])'
    BY <1>2a DEF Formed, OnChannel, Renaming
  <2> QED BY <1>1, <1>2, <2>3, <2>4, OthersFormed DEF Base, Inv
<1>7. Rights'
  BY <1>1, <1>2, <1>2a, <1>3, <1>4, <1>5, RightsGiven
<1>8. Bans'
  BY <1>1, <1>2, <1>2a, <1>5, BansKept
<1>9. Nicks'
  BY <1>1, <1>2, <1>2a, NicksQuiet DEF nicks
<1>10. ListsSure'
  <2>1. \A c \in Channel : \A u \in chan[c].members : ~Owes(w, c, u)
    BY <1>1 DEF Owes
  <2> QED BY <1>1, <1>2, <1>2a, <1>5, <2>1, ListsKept
<1> QED BY <1>6, <1>7, <1>8, <1>9, <1>10 DEF Inv

LEMMA SetKeeps ==
    ASSUME Inv, NEW w \in Worker, NEW o \in Option, NEW on \in BOOLEAN, Set(w, o, on)
    PROVE  Inv'
<1>1. /\ task[w].at = "option" /\ task[w].at \in OnChannel /\ Formed(task[w]) /\ TypeOK /\ Base
      /\ UNCHANGED <<open, nicks, session, view, stored, histories>> /\ open' = open
      /\ task[w].cmd # "nick" /\ task[w].whom \in Target
  BY DEF Set, At, Inv, Base, WellFormed, Formed, OnChannel
<1>2. task' \in [Worker -> Task] /\ task'[w] = NoTask /\ Others(w) /\ Intact(w)
  BY <1>1, GoIs DEF Set, Steps
<1>3. task'[w].at = "done" /\ task'[w].cmd = "none" /\ task'[w].on = None
  BY <1>2 DEF NoTask
<1>4. PICK D \in Reach(w) :
         chan' = [c \in Channel |-> IF c \in D
                    THEN [chan[c] EXCEPT !.options = IF on THEN @ \cup {o} ELSE @ \ {o}]
                    ELSE chan[c]]
  BY DEF Set
<1>5. \A c \in Channel :
         /\ chan'[c] \in ChannelState
         /\ chan'[c].members = chan[c].members /\ chan'[c].banned = chan[c].banned
         /\ chan'[c].operators = chan[c].operators /\ chan'[c].voiced = chan[c].voiced
  BY <1>1, <1>4, ChannelStateFields DEF ChannelState
<1>6. Base'
  <2>1. chan' \in [Channel -> ChannelState]
    BY <1>4, <1>5
  <2>2. TypeOK'
    BY <1>1, <1>2, <2>1 DEF TypeOK, nicks, histories
  <2>3. Formed(task[w])'
    BY <1>3 DEF Formed, OnChannel, Renaming
  <2> QED BY <1>1, <1>2, <2>2, <2>3, OthersFormed DEF Base, Inv
<1>7. Rights'
  BY <1>1, <1>2, <1>3, <1>5, RightsKept DEF histories
<1>8. Bans'
  BY <1>1, <1>2, <1>3, <1>5, BansKept DEF histories
<1>9. Nicks'
  BY <1>1, <1>2, <1>3, NicksQuiet DEF nicks, histories
<1>10. ListsSure'
  <2>1. \A c \in Channel : \A u \in chan[c].members : ~Owes(w, c, u)
    BY <1>1 DEF Owes
  <2> QED BY <1>1, <1>2, <1>3, <1>5, <2>1, ListsKept DEF histories
<1> QED BY <1>6, <1>7, <1>8, <1>9, <1>10 DEF Inv

LEMMA InviteKeeps == ASSUME Inv, NEW w \in Worker, Invite(w) PROVE Inv'
<1>1. /\ task[w].at = "record" /\ task[w].at \in OnChannel /\ Formed(task[w]) /\ TypeOK /\ Base
      /\ UNCHANGED <<open, nicks, session, view, stored, histories>> /\ open' = open
      /\ task[w].cmd = "invite" /\ task[w].whom \in Target
  BY DEF Invite, At, Inv, Base, WellFormed, Formed, OnChannel
<1>2. task' \in [Worker -> Task] /\ task'[w] = NoTask /\ Others(w) /\ Intact(w)
  BY <1>1, GoIs DEF Invite, Steps
<1>3. task'[w].at = "done" /\ task'[w].cmd = "none" /\ task'[w].on = None
  BY <1>2 DEF NoTask
<1>4. PICK D \in Reach(w) :
         chan' = [c \in Channel |-> IF c \in D
                    THEN [chan[c] EXCEPT !.invites = @ \cup {task[w].whom}] ELSE chan[c]]
  BY DEF Invite
<1>5. \A c \in Channel :
         /\ chan'[c] \in ChannelState
         /\ chan'[c].members = chan[c].members /\ chan'[c].banned = chan[c].banned
         /\ chan'[c].operators = chan[c].operators /\ chan'[c].voiced = chan[c].voiced
  BY <1>1, <1>4, ChannelStateFields DEF ChannelState
<1>6. Base'
  <2>1. chan' \in [Channel -> ChannelState]
    BY <1>4, <1>5
  <2>2. TypeOK'
    BY <1>1, <1>2, <2>1 DEF TypeOK, nicks, histories
  <2>3. Formed(task[w])'
    BY <1>3 DEF Formed, OnChannel, Renaming
  <2> QED BY <1>1, <1>2, <2>2, <2>3, OthersFormed DEF Base, Inv
<1>7. Rights'
  BY <1>1, <1>2, <1>3, <1>5, RightsKept DEF histories
<1>8. Bans'
  BY <1>1, <1>2, <1>3, <1>5, BansKept DEF histories
<1>9. Nicks'
  BY <1>1, <1>2, <1>3, NicksQuiet DEF nicks, histories
<1>10. ListsSure'
  <2>1. \A c \in Channel : \A u \in chan[c].members : ~Owes(w, c, u)
    BY <1>1 DEF Owes
  <2> QED BY <1>1, <1>2, <1>3, <1>5, <2>1, ListsKept DEF histories
<1> QED BY <1>6, <1>7, <1>8, <1>9, <1>10 DEF Inv

LEMMA BanKeeps == ASSUME Inv, NEW w \in Worker, Ban(w) PROVE Inv'
<1>1. /\ task[w].at = "record" /\ task[w].at \in OnChannel /\ Formed(task[w]) /\ TypeOK /\ Base
      /\ UNCHANGED <<open, nicks, session, view, stored, strays, mixed, forked>> /\ open' = open
      /\ task[w].cmd = "ban" /\ task[w].whom \in Target
  BY DEF Ban, At, Inv, Base, WellFormed, Formed, OnChannel
<1>2. PICK D \in Reach(w) :
         /\ chan' = [c \in Channel |-> IF c \in D
                       THEN [chan[c] EXCEPT !.banned = @ \cup {task[w].whom}] ELSE chan[c]]
         /\ slipped' = [c \in Channel |-> IF c \in D /\ Freed(w)
                       THEN slipped[c] \cup {task[w].whom} ELSE slipped[c]]
         /\ GoCrossing(w, "member", UNION {Entering(c, task[w].whom) : c \in D})
  BY DEF Ban
<1>3. /\ task' \in [Worker -> Task] /\ Moved(w, "member") /\ Others(w) /\ Intact(w)
      /\ \A x \in Worker \ {w}, c \in D :
            x \in Entering(c, task[w].whom) => task'[x].ref # "fresh"
  BY <1>1, <1>2, GoCrossingIs DEF Steps
<1>4. D \in SUBSET Channel /\ (~Freed(w) => D = {task[w].on})
  BY <1>1, ReachIs DEF TypeOK
<1>5. \A c \in Channel :
         /\ chan'[c] \in ChannelState
         /\ chan'[c].members = chan[c].members
         /\ chan'[c].banned = IF c \in D THEN chan[c].banned \cup {task[w].whom} ELSE chan[c].banned
         /\ chan'[c].operators = chan[c].operators /\ chan'[c].voiced = chan[c].voiced
  BY <1>1, <1>2, ChannelStateFields DEF ChannelState
<1>6. Base'
  <2>1. chan' \in [Channel -> ChannelState]
    BY <1>2, <1>5
  <2>2. slipped' \in [Channel -> SUBSET Target]
    BY <1>1, <1>2 DEF TypeOK
  <2>3. TypeOK'
    BY <1>1, <1>3, <2>1, <2>2 DEF TypeOK, nicks
  <2>4. Formed(task[w])'
    BY <1>1, <1>3 DEF Formed, Moved, OnChannel, Renaming
  <2> QED BY <1>1, <1>3, <2>3, <2>4, OthersFormed DEF Base, Inv
<1>7. Rights'
  BY <1>1, <1>3, <1>5, RightsKept DEF Moved
<1>8. Bans'
  <2>1. ASSUME NEW c \in Channel, NEW u \in chan'[c].members \cap chan'[c].banned
        PROVE  u \in slipped'[c] \cup Dropping(c)'
    <3>1. CASE u \in chan[c].banned
      <4>1. u \in slipped[c] \cup Dropping(c)
        BY <1>5, <2>1, <3>1 DEF Inv, Bans, BannedAreOut
      <4>2. u \in Dropping(c) => u \in Dropping(c)'
        BY <1>1, <1>3, DroppingKept
      <4>3. slipped[c] \subseteq slipped'[c]
        BY <1>2
      <4> QED BY <4>1, <4>2, <4>3
    <3>2. CASE u \notin chan[c].banned
      <4>1. c \in D /\ u = task[w].whom
        BY <1>5, <2>1, <3>2
      <4>2. CASE Freed(w)
        BY <1>2, <4>1, <4>2
      <4>3. CASE ~Freed(w)
        <5>1. /\ task'[w].cmd = "ban" /\ task'[w].at = "member" /\ task'[w].on = c
              /\ task'[w].ref # "freed" /\ task'[w].whom = u
          BY <1>1, <1>3, <1>4, <4>1, <4>3 DEF Moved, Freed
        <5> QED BY <5>1 DEF Dropping
      <4> QED BY <4>2, <4>3
    <3> QED BY <3>1, <3>2
  <2>2. ASSUME NEW x \in Worker, task'[x].at \in {"invited", "insert"}, task'[x].ref = "fresh"
        PROVE  task'[x].whom \notin chan'[task'[x].on].banned
    <3>1. x # w
      BY <1>3, <2>2 DEF Moved
    <3>2. Kept(x) /\ Formed(task[x])
      BY <1>1, <1>3, <3>1 DEF Others, Base, WellFormed
    <3>3. task[x].on \in Channel
      BY <2>2, <3>2 DEF Kept, Formed, OnChannel
    <3>4. task[x].whom \notin chan[task[x].on].banned
      BY <2>2, <3>2 DEF Kept, Inv, Bans
    <3>5. task[x].on \in D => task[x].whom # task[w].whom
      BY <1>3, <2>2, <3>1, <3>2 DEF Kept, Entering
    <3> QED BY <1>5, <3>2, <3>3, <3>4, <3>5 DEF Kept
  <2>3. BannedAreOut'
    BY <2>1 DEF BannedAreOut
  <2>4. ASSUME NEW x \in Worker, task'[x].cmd = "ban", task'[x].at \in {"member", "leave"},
               task'[x].ref # "freed"
        PROVE  task'[x].whom \in chan'[task'[x].on].banned
    <3>1. CASE x = w
      BY <1>1, <1>3, <1>4, <1>5, <2>4, <3>1 DEF Moved, Freed, Formed
    <3>2. CASE x # w
      <4>1. Kept(x) /\ Formed(task[x])
        BY <1>1, <1>3, <3>2 DEF Others, Base, WellFormed
      <4>2. task[x].on \in Channel
        BY <2>4, <4>1 DEF Kept, Formed, OnChannel
      <4> QED BY <1>5, <2>4, <4>1, <4>2 DEF Kept, Inv, Bans
    <3> QED BY <3>1, <3>2
  <2> QED BY <2>2, <2>3, <2>4 DEF Bans
<1>9. Nicks'
  BY <1>1, <1>3, NicksQuiet DEF Moved, nicks
<1>10. ListsSure'
  <2>1. \A c \in Channel : \A u \in chan[c].members : ~Owes(w, c, u)
    BY <1>1 DEF Owes
  <2> QED BY <1>1, <1>3, <1>5, <2>1, ListsKept DEF Moved
<1> QED BY <1>6, <1>7, <1>8, <1>9, <1>10 DEF Inv

LEMMA LeaveKeeps == ASSUME Inv, NEW w \in Worker, Leave(w) PROVE Inv'
<1>1. /\ task[w].at = "leave" /\ task[w].at \in OnChannel /\ Formed(task[w]) /\ TypeOK /\ Base
      /\ UNCHANGED <<open, nicks, session, view, stored, forked>> /\ open' = open
      /\ task[w].cmd \notin {"nick", "none", "join"} /\ task[w].whom \in Target
  BY DEF Leave, At, Inv, Base, WellFormed, Formed, OnChannel
<1>2. PICK step \in {"list", "strip"} :
         step = IF task[w].cmd = "ban" THEN "list" ELSE "strip"
  OBVIOUS
<1>3. PICK D \in Reach(w) :
         /\ chan' = [c \in Channel |-> IF c \in D
                       THEN [chan[c] EXCEPT !.members = @ \ {task[w].whom}] ELSE chan[c]]
         /\ slipped' = [c \in Channel |-> IF c \in D THEN slipped[c] \ {task[w].whom}
                                          ELSE slipped[c]]
         /\ strays' = [c \in Channel |-> IF c \in D /\ Freed(w)
                         THEN strays[c] \cup {task[w].whom} ELSE strays[c]]
         /\ mixed' = mixed \cup OutOfTurn(w, D)
         /\ GoCrossing(w, step, UNION {Relying(c, task[w].whom) : c \in D})
  BY <1>2 DEF Leave
<1>4. /\ task' \in [Worker -> Task] /\ Moved(w, step) /\ Others(w) /\ Intact(w)
      /\ \A x \in Worker \ {w}, c \in D :
            x \in Relying(c, task[w].whom) => task'[x].ref # "fresh"
  BY <1>1, <1>3, GoCrossingIs DEF Steps
<1>5. D \in SUBSET Channel /\ (~Freed(w) => D = {task[w].on})
  BY <1>1, ReachIs DEF TypeOK
<1>6. \A c \in Channel :
         /\ chan'[c] \in ChannelState
         /\ chan'[c].members = IF c \in D THEN chan[c].members \ {task[w].whom} ELSE chan[c].members
         /\ chan'[c].banned = chan[c].banned
         /\ chan'[c].operators = chan[c].operators /\ chan'[c].voiced = chan[c].voiced
  BY <1>1, <1>3, ChannelStateFields DEF ChannelState
<1>7. Base'
  <2>1. chan' \in [Channel -> ChannelState]
    BY <1>3, <1>6
  <2>2. slipped' \in [Channel -> SUBSET Target] /\ strays' \in [Channel -> SUBSET Target]
    BY <1>1, <1>3 DEF TypeOK
  <2>3. mixed' \in SUBSET Channel
    BY <1>1, <1>3, <1>5 DEF TypeOK, OutOfTurn
  <2>4. TypeOK'
    BY <1>1, <1>4, <2>1, <2>2, <2>3 DEF TypeOK, nicks
  <2>5. Formed(task[w])'
    BY <1>1, <1>2, <1>4 DEF Formed, Moved, OnChannel, Renaming
  <2> QED BY <1>1, <1>4, <2>4, <2>5, OthersFormed DEF Base, Inv
<1>8. Rights'
  <2>1. ASSUME NEW c \in Channel, NEW u, u \in chan'[c].operators \cup chan'[c].voiced
        PROVE  u \in chan'[c].members \cup chan'[c].banned \cup strays'[c] \cup Stripping(c)'
    <3>1. u \in chan[c].members \cup chan[c].banned \cup strays[c] \cup Stripping(c)
      BY <1>6, <2>1 DEF Inv, Rights, RightsOfOutsiders
    <3>2. Stripping(c) \subseteq Stripping(c)' /\ strays[c] \subseteq strays'[c]
      BY <1>1, <1>3, <1>4, StrippingKept
    <3>3. CASE u = task[w].whom /\ c \in D
      <4>1. CASE Freed(w)
        BY <1>3, <3>3, <4>1
      <4>2. CASE ~Freed(w) /\ task[w].cmd = "ban"
        <5>1. task[w].whom \in chan[task[w].on].banned
          BY <1>1, <4>2 DEF Inv, Bans, Freed
        <5>2. task[w].on = c
          BY <1>5, <3>3, <4>2
        <5> QED BY <1>6, <3>3, <5>1, <5>2
      <4>3. CASE ~Freed(w) /\ task[w].cmd # "ban"
        <5>1. /\ task'[w].at = "strip" /\ task'[w].on = c /\ task'[w].ref # "freed"
              /\ task'[w].whom = u
          BY <1>2, <1>4, <1>5, <3>3, <4>3 DEF Moved, Freed
        <5> QED BY <5>1 DEF Stripping
      <4> QED BY <4>1, <4>2, <4>3
    <3>4. CASE ~(u = task[w].whom /\ c \in D)
      BY <1>6, <3>1, <3>2, <3>4
    <3> QED BY <3>3, <3>4
  <2>2. ASSUME NEW x \in Worker, task'[x].at \in {"count", "crown", "grant"}, task'[x].ref = "fresh"
        PROVE  task'[x].whom \in chan'[task'[x].on].members
    <3>1. x # w
      BY <1>2, <1>4, <2>2 DEF Moved
    <3>2. Kept(x) /\ Formed(task[x])
      BY <1>1, <1>4, <3>1 DEF Others, Base, WellFormed
    <3>3. task[x].on \in Channel
      BY <2>2, <3>2 DEF Kept, Formed, OnChannel
    <3>4. task[x].whom \in chan[task[x].on].members
      BY <2>2, <3>2 DEF Kept, Inv, Rights
    <3>5. task[x].on \in D => task[x].whom # task[w].whom
      BY <1>4, <2>2, <3>1, <3>2 DEF Kept, Relying
    <3> QED BY <1>6, <3>2, <3>3, <3>4, <3>5 DEF Kept
  <2>3. RightsOfOutsiders'
    BY <2>1 DEF RightsOfOutsiders
  <2> QED BY <2>2, <2>3 DEF Rights
<1>9. Bans'
  <2>1. ASSUME NEW c \in Channel, NEW u \in chan'[c].members \cap chan'[c].banned
        PROVE  u \in slipped'[c] \cup Dropping(c)'
    <3>1. u \in slipped[c] \cup Dropping(c)
      BY <1>6, <2>1 DEF Inv, Bans, BannedAreOut
    <3>2. c \in D => u # task[w].whom
      BY <1>6, <2>1
    <3>3. u \in slipped[c] => u \in slipped'[c]
      BY <1>3, <3>2
    <3>4. u \in Dropping(c) => u \in Dropping(c)'
      BY <1>4, <1>5, <3>2, DroppingKept DEF Freed
    <3> QED BY <3>1, <3>3, <3>4
  <2>2. ASSUME NEW x \in Worker, task'[x].at \in {"invited", "insert"}, task'[x].ref = "fresh"
        PROVE  task'[x].whom \notin chan'[task'[x].on].banned
    <3>1. x # w
      BY <1>2, <1>4, <2>2 DEF Moved
    <3>2. Kept(x) /\ Formed(task[x])
      BY <1>1, <1>4, <3>1 DEF Others, Base, WellFormed
    <3>3. task[x].on \in Channel
      BY <2>2, <3>2 DEF Kept, Formed, OnChannel
    <3> QED BY <1>6, <2>2, <3>2, <3>3 DEF Kept, Inv, Bans
  <2>3. ASSUME NEW x \in Worker, task'[x].cmd = "ban", task'[x].at \in {"member", "leave"},
               task'[x].ref # "freed"
        PROVE  task'[x].whom \in chan'[task'[x].on].banned
    <3>1. x # w
      BY <1>2, <1>4, <2>3 DEF Moved
    <3>2. Kept(x) /\ Formed(task[x])
      BY <1>1, <1>4, <3>1 DEF Others, Base, WellFormed
    <3>3. task[x].on \in Channel
      BY <2>3, <3>2 DEF Kept, Formed, OnChannel
    <3> QED BY <1>6, <2>3, <3>2, <3>3 DEF Kept, Inv, Bans
  <2>4. BannedAreOut'
    BY <2>1 DEF BannedAreOut
  <2> QED BY <2>2, <2>3, <2>4 DEF Bans
<1>10. Nicks'
  BY <1>1, <1>2, <1>4, NicksQuiet DEF Moved, nicks
<1>11. ListsSure'
  BY <1>1, <1>2, <1>3, <1>4, <1>5, <1>6, ListsChanged DEF Moved
<1> QED BY <1>7, <1>8, <1>9, <1>10, <1>11 DEF Inv

LEMMA StripKeeps == ASSUME Inv, NEW w \in Worker, Strip(w) PROVE Inv'
<1>1. /\ task[w].at = "strip" /\ task[w].at \in OnChannel /\ Formed(task[w]) /\ TypeOK /\ Base
      /\ UNCHANGED <<open, nicks, session, view, stored, slipped, mixed, forked>> /\ open' = open
      /\ task[w].cmd \notin {"nick", "none", "join", "ban"} /\ task[w].whom \in Target
  BY DEF Strip, At, Inv, Base, WellFormed, Formed, OnChannel
<1>2. PICK step \in {"empty", "list"} :
         step = IF task[w].cmd = "quit" THEN "empty" ELSE "list"
  OBVIOUS
<1>3. task' \in [Worker -> Task] /\ Moved(w, step) /\ Others(w) /\ Intact(w)
  BY <1>1, <1>2, GoIs DEF Strip, Steps
<1>4. PICK D \in Reach(w) :
         /\ chan' = [c \in Channel |-> IF c \in D
                       THEN [chan[c] EXCEPT !.operators = @ \ {task[w].whom},
                                            !.voiced = @ \ {task[w].whom}]
                       ELSE chan[c]]
         /\ strays' = [c \in Channel |-> IF c \in D THEN strays[c] \ {task[w].whom} ELSE strays[c]]
  BY DEF Strip
<1>5. D \in SUBSET Channel /\ (~Freed(w) => D = {task[w].on})
  BY <1>1, ReachIs DEF TypeOK
<1>6. \A c \in Channel :
         /\ chan'[c] \in ChannelState
         /\ chan'[c].members = chan[c].members /\ chan'[c].banned = chan[c].banned
         /\ chan'[c].operators = IF c \in D THEN chan[c].operators \ {task[w].whom}
                                 ELSE chan[c].operators
         /\ chan'[c].voiced = IF c \in D THEN chan[c].voiced \ {task[w].whom} ELSE chan[c].voiced
  BY <1>1, <1>4, ChannelStateFields DEF ChannelState
<1>7. Base'
  <2>1. chan' \in [Channel -> ChannelState]
    BY <1>4, <1>6
  <2>2. strays' \in [Channel -> SUBSET Target]
    BY <1>1, <1>4 DEF TypeOK
  <2>3. TypeOK'
    BY <1>1, <1>3, <2>1, <2>2 DEF TypeOK, nicks
  <2>4. Formed(task[w])'
    BY <1>1, <1>2, <1>3 DEF Formed, Moved, OnChannel, Renaming
  <2> QED BY <1>1, <1>3, <2>3, <2>4, OthersFormed DEF Base, Inv
<1>8. Rights'
  <2>1. ASSUME NEW c \in Channel, NEW u, u \in chan'[c].operators \cup chan'[c].voiced
        PROVE  u \in chan'[c].members \cup chan'[c].banned \cup strays'[c] \cup Stripping(c)'
    <3>1. u \in chan[c].members \cup chan[c].banned \cup strays[c] \cup Stripping(c)
      BY <1>6, <2>1 DEF Inv, Rights, RightsOfOutsiders
    <3>2. c \in D => u # task[w].whom
      BY <1>6, <2>1
    <3>3. u \in strays[c] => u \in strays'[c]
      BY <1>4, <3>2
    <3>4. ASSUME NEW x \in Worker, task[x].at = "strip", task[x].on = c, task[x].ref # "freed",
                 u = task[x].whom
          PROVE  u \in Stripping(c)'
      <4>1. x # w
        BY <1>5, <3>2, <3>4 DEF Freed
      <4>2. /\ task'[x].at = "strip" /\ task'[x].on = c /\ task'[x].ref # "freed"
            /\ task'[x].whom = u
        BY <1>3, <3>4, <4>1 DEF Others, Intact, Kept
      <4> QED BY <4>2 DEF Stripping
    <3> QED BY <1>6, <3>1, <3>3, <3>4 DEF Stripping
  <2>2. ASSUME NEW x \in Worker, task'[x].at \in {"count", "crown", "grant"}, task'[x].ref = "fresh"
        PROVE  task'[x].whom \in chan'[task'[x].on].members
    <3>1. x # w
      BY <1>2, <1>3, <2>2 DEF Moved
    <3>2. Kept(x) /\ Formed(task[x])
      BY <1>1, <1>3, <3>1 DEF Others, Base, WellFormed
    <3>3. task[x].on \in Channel
      BY <2>2, <3>2 DEF Kept, Formed, OnChannel
    <3> QED BY <1>6, <2>2, <3>2, <3>3 DEF Kept, Inv, Rights
  <2>3. RightsOfOutsiders'
    BY <2>1 DEF RightsOfOutsiders
  <2> QED BY <2>2, <2>3 DEF Rights
<1>9. Bans'
  BY <1>1, <1>2, <1>3, <1>6, BansKept DEF Moved
<1>10. Nicks'
  BY <1>1, <1>2, <1>3, NicksQuiet DEF Moved, nicks
<1>11. ListsSure'
  <2>1. \A c \in Channel : \A u \in chan[c].members : Owes(w, c, u) => Owes(w, c, u)'
    BY <1>2, <1>3 DEF Moved, Owes, Freed
  <2>2. task'[w].at \notin {"send", "reply"}
    BY <1>2, <1>3 DEF Moved
  <2> QED BY <1>1, <1>3, <1>6, <2>1, <2>2, ListsKept
<1> QED BY <1>7, <1>8, <1>9, <1>10, <1>11 DEF Inv

LEMMA DestroyKeeps == ASSUME Inv, NEW w \in Worker, Destroy(w) PROVE Inv'
<1>1. /\ task[w].at = "destroy" /\ task[w].at \in OnChannel /\ Formed(task[w]) /\ TypeOK /\ Base
      /\ UNCHANGED <<nicks, session, view, stored, forked>>
      /\ task[w].cmd \notin {"nick", "none"} /\ task[w].on \in Channel
  BY DEF Destroy, At, Inv, Base, WellFormed, Formed, OnChannel
<1>2. PICK step \in {"list", "done"} : step = AfterEmpty(w)
  BY DEF AfterEmpty
<1>3. PICK D \in Reach(w) :
         /\ open' = open \ D
         /\ chan' = [c \in Channel |-> IF c \in D THEN NewChannel ELSE chan[c]]
         /\ slipped' = [c \in Channel |-> IF c \in D THEN {} ELSE slipped[c]]
         /\ strays' = [c \in Channel |-> IF c \in D THEN {} ELSE strays[c]]
         /\ mixed' = mixed \cup {c \in D : \E x \in Worker \ {w} : Telling(x, c)}
         /\ task' = [x \in Worker |->
                       LET t == IF x # w THEN task[x] ELSE Advanced(w, step)
                       IN  IF t.on \in D THEN [t EXCEPT !.ref = "freed"] ELSE t]
  BY <1>2 DEF Destroy
<1>4. D \in SUBSET Channel /\ (~Freed(w) => D = {task[w].on})
  BY <1>1, ReachIs DEF TypeOK
<1>5. \A c \in Channel :
         /\ c \in D => /\ chan'[c] = NewChannel /\ chan'[c].members = {}
                       /\ chan'[c].operators = {} /\ chan'[c].voiced = {}
         /\ c \notin D => chan'[c] = chan[c] /\ slipped'[c] = slipped[c] /\ strays'[c] = strays[c]
  BY <1>3 DEF NewChannel
<1>6. ASSUME NEW x \in Worker \ {w}
      PROVE  /\ task'[x] \in Task /\ Kept(x)
             /\ task[x].on \in D => task'[x].ref = "freed"
             /\ task[x].on \notin D => task'[x] = task[x]
  <2>1. task[x] \in Task
    BY <1>1, TaskFields
  <2>2. CASE task[x].on \in D
    <3>1. task'[x] = [task[x] EXCEPT !.ref = "freed"]
      BY <1>3, <2>2
    <3> QED BY <2>1, <2>2, <3>1 DEF Task, Kept
  <2>3. CASE task[x].on \notin D
    BY <1>3, <2>1, <2>3 DEF Kept
  <2> QED BY <2>2, <2>3
<1>7. /\ task'[w] \in Task /\ task'[w].at = step
      /\ step = "done" => task'[w].cmd = "none" /\ task'[w].on = None
      /\ step = "list" => /\ task'[w].cmd = task[w].cmd /\ task[w].cmd = "quit"
                          /\ task'[w].by = task[w].by /\ task'[w].whom = task[w].whom
                          /\ task'[w].on = task[w].on /\ task'[w].ref = "freed"
  <2>1. CASE step = "done"
    <3>1. None \notin D
      BY <1>4, ChannelsAssumption
    <3>2. task'[w] = NoTask
      BY <1>3, <2>1, <3>1 DEF Advanced, NoTask
    <3> QED BY <2>1, <3>2, NoTaskType DEF NoTask
  <2>2. CASE step = "list"
    <3> DEFINE t == [task[w] EXCEPT !.at = "list"]
    <3>1. /\ t \in Task /\ t.on = task[w].on /\ t.ref = task[w].ref /\ t.at = "list"
          /\ t.cmd = task[w].cmd /\ t.by = task[w].by /\ t.whom = task[w].whom
      BY <1>1, TaskFields DEF Task, Steps
    <3>2. task'[w] = IF t.on \in D THEN [t EXCEPT !.ref = "freed"] ELSE t
      BY <1>3, <2>2 DEF Advanced
    <3>3. task[w].cmd = "quit"
      BY <1>2, <2>2 DEF AfterEmpty
    <3> HIDE DEF t
    <3>4. CASE t.on \in D
      BY <2>2, <3>1, <3>2, <3>3, <3>4 DEF Task
    <3>5. CASE t.on \notin D
      BY <1>4, <2>2, <3>1, <3>2, <3>3, <3>5 DEF Freed
    <3> QED BY <3>4, <3>5
  <2> QED BY <2>1, <2>2
<1>8. Others(w)
  BY <1>6 DEF Others
<1>9. Base'
  <2>1. chan' \in [Channel -> ChannelState]
    BY <1>1, <1>3, NewChannelType DEF TypeOK
  <2>2. /\ slipped' \in [Channel -> SUBSET Target] /\ strays' \in [Channel -> SUBSET Target]
        /\ mixed' \in SUBSET Channel /\ open' \in SUBSET Channel
    BY <1>1, <1>3, <1>4 DEF TypeOK
  <2>3. task' \in [Worker -> Task]
    <3>1. task' = [x \in Worker |-> task'[x]]
      BY <1>3
    <3>2. \A x \in Worker : task'[x] \in Task
      BY <1>6, <1>7
    <3> QED BY <3>1, <3>2
  <2>4. TypeOK'
    BY <1>1, <2>1, <2>2, <2>3 DEF TypeOK, nicks
  <2>5. Formed(task[w])'
    BY <1>1, <1>7 DEF Formed, OnChannel, Renaming
  <2>6. ASSUME NEW x \in Worker \ {w} PROVE Formed(task[x])'
    BY <1>1, <1>3, <1>6 DEF Base, WellFormed, Formed, Kept
  <2> QED BY <2>4, <2>5, <2>6 DEF Base, WellFormed
<1>10. Rights'
  <2>1. ASSUME NEW c \in Channel \ D PROVE Stripping(c) \subseteq Stripping(c)'
    <3> SUFFICES ASSUME NEW x \in Worker, task[x].at = "strip", task[x].on = c, task[x].ref # "freed"
                 PROVE  task[x].whom \in Stripping(c)'
      BY DEF Stripping
    <3>1. task'[x] = task[x]
      BY <1>1, <1>6
    <3> QED BY <3>1 DEF Stripping
  <2>2. RightsOfOutsiders'
    BY <1>5, <2>1 DEF Inv, Rights, RightsOfOutsiders
  <2>3. ASSUME NEW x \in Worker, task'[x].at \in {"count", "crown", "grant"}, task'[x].ref = "fresh"
        PROVE  task'[x].whom \in chan'[task'[x].on].members
    <3>1. x # w
      BY <1>7, <2>3
    <3>2. task[x].on \notin D /\ task'[x] = task[x] /\ Formed(task[x])
      BY <1>1, <1>6, <2>3, <3>1 DEF Base, WellFormed
    <3>3. task[x].on \in Channel
      BY <2>3, <3>2 DEF Formed, OnChannel
    <3> QED BY <1>5, <2>3, <3>2, <3>3 DEF Inv, Rights
  <2> QED BY <2>2, <2>3 DEF Rights
<1>11. Bans'
  <2>1. ASSUME NEW c \in Channel \ D PROVE Dropping(c) \subseteq Dropping(c)'
    <3> SUFFICES ASSUME NEW x \in Worker, task[x].cmd = "ban", task[x].at \in {"member", "leave"},
                        task[x].on = c, task[x].ref # "freed"
                 PROVE  task[x].whom \in Dropping(c)'
      BY DEF Dropping
    <3>1. task'[x] = task[x]
      BY <1>1, <1>6
    <3> QED BY <3>1 DEF Dropping
  <2>2. BannedAreOut'
    BY <1>5, <2>1 DEF Inv, Bans, BannedAreOut
  <2>3. ASSUME NEW x \in Worker, task'[x].at \in {"invited", "insert"}, task'[x].ref = "fresh"
        PROVE  task'[x].whom \notin chan'[task'[x].on].banned
    <3>1. x # w
      BY <1>7, <2>3
    <3>2. task[x].on \notin D /\ task'[x] = task[x] /\ Formed(task[x])
      BY <1>1, <1>6, <2>3, <3>1 DEF Base, WellFormed
    <3>3. task[x].on \in Channel
      BY <2>3, <3>2 DEF Formed, OnChannel
    <3> QED BY <1>5, <2>3, <3>2, <3>3 DEF Inv, Bans
  <2>4. ASSUME NEW x \in Worker, task'[x].cmd = "ban", task'[x].at \in {"member", "leave"},
               task'[x].ref # "freed"
        PROVE  task'[x].whom \in chan'[task'[x].on].banned
    <3>1. x # w
      BY <1>7, <2>4
    <3>2. task[x].on \notin D /\ task'[x] = task[x] /\ Formed(task[x])
      BY <1>1, <1>6, <2>4, <3>1 DEF Base, WellFormed
    <3>3. task[x].on \in Channel
      BY <2>4, <3>2 DEF Formed, OnChannel
    <3> QED BY <1>5, <2>4, <3>2, <3>3 DEF Inv, Bans
  <2> QED BY <2>2, <2>3, <2>4 DEF Bans
<1>12. Nicks'
  BY <1>1, <1>7, <1>8, NicksQuiet DEF nicks
<1>13. ListsSure'
  <2> SUFFICES ASSUME NEW c \in Channel \ mixed' PROVE Sure(c)'
    BY DEF ListsSure
  <2>1. CASE c \in D
    <3>1. \A x \in Worker : ~(task'[x].on = c /\ task'[x].at \in {"send", "reply"})
      BY <1>3, <1>6, <1>7, <2>1 DEF Telling, Kept
    <3> QED BY <1>5, <2>1, <3>1 DEF Sure
  <2>2. CASE c \notin D
    <3>1. Sure(c) /\ chan'[c] = chan[c] /\ chan[c].members \in SUBSET User
      BY <1>1, <1>3, <1>5, <2>2, ChannelStateFields DEF Inv, ListsSure
    <3>2. \A x \in Worker \ {w} : task'[x].on = c => task'[x] = task[x]
      BY <1>6, <2>2 DEF Kept
    <3>3. \A x \in Worker : task'[x].on = c /\ task'[x].at \in {"send", "reply"}
                                => task'[x].list = chan[c].members
      BY <1>7, <3>1, <3>2 DEF Sure
    <3>4. ASSUME NEW x \in Worker, NEW u \in chan[c].members, Owes(x, c, u)
          PROVE  Owes(x, c, u)'
      <4>1. x # w /\ task[x].on = c
        BY <1>4, <2>2, <3>4 DEF Owes
      <4>2. task'[x] = task[x]
        BY <1>6, <2>2, <4>1
      <4> QED BY <3>4, <4>2 DEF Owes, Freed
    <3> QED BY <1>1, <3>1, <3>3, <3>4 DEF Sure
  <2> QED BY <2>1, <2>2
<1> QED BY <1>9, <1>10, <1>11, <1>12, <1>13 DEF Inv

-----------------------------------------------------------------------------
(* Beginnings, /nick, /quit and the sessions. *)

LEMMA BeginKeeps ==
    ASSUME Inv, NEW w \in Worker, NEW u \in User, NEW cmd \in DOMAIN FirstStep, NEW c \in Channel,
           Begin(w, u, cmd, c)
    PROVE  Inv'
<1> DEFINE t == [NoTask EXCEPT !.cmd = cmd, !.by = u, !.on = c, !.whom = u, !.at = FirstStep[cmd]]
<1>1. /\ TypeOK /\ Base /\ task[w] = NoTask /\ task' = [task EXCEPT ![w] = t]
      /\ open' = open \cup {c} /\ open \subseteq open'
      /\ UNCHANGED <<chan, nicks, session, view, stored, histories>>
  BY DEF Begin, Start, Inv, Base
<1>2. /\ FirstStep[cmd] \in {"banned", "member", "operator"} /\ cmd \notin {"nick", "quit", "none"}
      /\ cmd = "join" <=> FirstStep[cmd] = "banned"
      /\ cmd = "ban" => FirstStep[cmd] = "operator"
  BY DEF FirstStep
<1>3. /\ t \in Task /\ t.at = FirstStep[cmd] /\ t.cmd = cmd /\ t.by = u /\ t.on = c /\ t.whom = u
      /\ t.ref = "fresh"
  BY <1>2 DEF NoTask, Task, Steps, Name, Target
<1>4. task[w].at = "done" /\ task[w].cmd = "none"
  BY <1>1 DEF NoTask
<1> HIDE DEF t
<1>5. task' \in [Worker -> Task] /\ task'[w] = t /\ Others(w) /\ Intact(w)
  BY <1>1, <1>3, SingleIs
<1>6. Base'
  <2>1. TypeOK'
    BY <1>1, <1>5 DEF TypeOK, nicks, histories
  <2>2. Formed(task[w])'
    BY <1>1, <1>2, <1>3, <1>5 DEF Formed, OnChannel, Renaming, Name, Target
  <2> QED BY <1>1, <1>5, <2>1, <2>2, OthersFormed DEF Base
<1>7. Rights' /\ Bans'
  BY <1>1, <1>2, <1>3, <1>4, <1>5, RightsQuiet, BansQuiet DEF histories
<1>8. Nicks'
  BY <1>1, <1>2, <1>3, <1>4, <1>5, NicksQuiet DEF nicks, histories
<1>9. ListsSure'
  <2>1. \A d \in Channel \ mixed : \A v \in chan[d].members : ~Owes(w, d, v)
    BY <1>4 DEF Owes
  <2> QED BY <1>1, <1>2, <1>3, <1>5, <2>1, ListsQuiet DEF histories
<1> QED BY <1>6, <1>7, <1>8, <1>9 DEF Inv

(* A step of a command that has to do with no channel. *)
LEMMA Apart ==
    ASSUME Inv, NEW w \in Worker, NEW t \in Task, task' = [task EXCEPT ![w] = t],
           UNCHANGED <<open, chan, session, view, stored, slipped, strays, mixed>>,
           task[w].at \notin OnChannel, t.at \in Renaming \cup {"done", "next", "leave"},
           t.cmd # "ban", Formed(t), TypeOK'
    PROVE  Base' /\ Rights' /\ Bans' /\ ListsSure'
<1>1. /\ Base /\ task' \in [Worker -> Task] /\ task'[w] = t /\ Others(w) /\ Intact(w)
  BY SingleIs DEF Inv, Base
<1>2. Base'
  <2>1. Formed(task[w])'
    BY <1>1 DEF Formed
  <2> QED BY <1>1, <2>1, OthersFormed DEF Base
<1>3. Rights'
  BY <1>1, RightsQuiet DEF OnChannel, Renaming
<1>4. Bans'
  BY <1>1, BansQuiet DEF OnChannel, Renaming
<1>5. ListsSure'
  <2>1. \A d \in Channel \ mixed : \A v \in chan[d].members : ~Owes(w, d, v)
    BY DEF Owes, OnChannel
  <2> QED BY <1>1, <2>1, ListsQuiet DEF Renaming
<1> QED BY <1>2, <1>3, <1>4, <1>5

LEMMA NickBeginKeeps ==
    ASSUME Inv, NEW w \in Worker, NEW u \in User, NickBegin(w, u) PROVE Inv'
<1> DEFINE t == [NoTask EXCEPT !.cmd = "nick", !.by = u, !.at = "taken", !.old = OldName(u)]
<1>1. /\ TypeOK /\ task[w] = NoTask /\ task' = [task EXCEPT ![w] = t]
      /\ UNCHANGED <<open, chan, nicks, session, view, stored, slipped, strays, mixed>>
      /\ forked' = IF \E x \in Worker : task[x].cmd = "nick" /\ task[x].by = u
                   THEN forked \cup {u} ELSE forked
  BY DEF NickBegin, Start, Inv, Base, OldName
<1>2. OldName(u) \in Name
  BY <1>1 DEF TypeOK, OldName, Name
<1>3. /\ t \in Task /\ t.at = "taken" /\ t.cmd = "nick" /\ t.by = u /\ t.old = OldName(u)
  BY <1>2 DEF NoTask, Task, Steps
<1>4. task[w].at = "done" /\ task[w].cmd = "none"
  BY <1>1 DEF NoTask
<1> HIDE DEF t
<1>5. task' \in [Worker -> Task] /\ task'[w] = t /\ Others(w)
  BY <1>1, <1>3, SingleIs
<1>6. Base' /\ Rights' /\ Bans' /\ ListsSure'
  <2>1. TypeOK'
    BY <1>1, <1>5 DEF TypeOK, nicks
  <2>2. Formed(t)
    BY <1>2, <1>3 DEF Formed, OnChannel, Renaming
  <2> QED BY <1>1, <1>3, <1>4, <2>1, <2>2, Apart DEF OnChannel, Renaming
<1>7. Nicks'
  <2>1. forked \subseteq forked' /\ \A x \in Worker \ {w} : Kept(x)
    BY <1>1, <1>5 DEF Others
  <2>2. NicksAreCurrent'
    <3> SUFFICES ASSUME NEW n \in Name, NEW v \in User, userOf[n] = v, v \notin forked, nickOf[v] # n
                 PROVE  \E x \in Worker : task'[x].at = "name" /\ task'[x].by = v /\ task'[x].whom = n
      BY <1>1, <2>1 DEF NicksAreCurrent, nicks
    <3>1. PICK x \in Worker : task[x].at = "name" /\ task[x].by = v /\ task[x].whom = n
      BY DEF Inv, Nicks, NicksAreCurrent
    <3> QED BY <1>4, <2>1, <3>1 DEF Kept
  <2>3. ASSUME NEW x \in Worker, NEW y \in Worker, task'[x].cmd = "nick", task'[y].cmd = "nick",
               task'[x].by = task'[y].by, task'[x].by \notin forked'
        PROVE  x = y
    <3>1. ASSUME NEW z \in Worker \ {w}, task'[z].cmd = "nick", task'[z].by = u
          PROVE  u \in forked'
      BY <1>1, <2>1, <3>1 DEF Kept
    <3> QED BY <1>3, <1>5, <2>1, <2>3, <3>1 DEF Kept, Inv, Nicks
  <2>4. ASSUME NEW x \in Worker, task'[x].by \notin forked'
        PROVE  /\ task'[x].at \in {"taken", "owner", "erase"} => task'[x].old = OldName(task'[x].by)
               /\ task'[x].at = "claim" => \A n \in Name : userOf[n] # task'[x].by
               /\ task'[x].at = "name" => \A n \in Name : userOf[n] = task'[x].by => n = task'[x].whom
    <3>1. CASE x = w
      BY <1>3, <1>5, <3>1
    <3>2. CASE x # w
      BY <2>1, <2>4, <3>2 DEF Inv, Nicks, Kept
    <3> QED BY <3>1, <3>2
  <2> QED BY <1>1, <2>2, <2>3, <2>4 DEF Nicks, OldName, nicks
<1> QED BY <1>6, <1>7 DEF Inv

(* What a step of /nick leaves of what the others know of the nicknames. *)
LEMMA NicksMoved ==
    ASSUME Inv, NEW w \in Worker, Others(w), task[w].at \in Renaming, UNCHANGED forked,
           \/ task'[w].cmd = "nick" /\ task'[w].by = task[w].by
           \/ task'[w].cmd = "none",
           \A n \in Name, u \in User :
              userOf'[n] = u /\ u \notin forked =>
                 \/ nickOf'[u] = n
                 \/ \E x \in Worker : task'[x].at = "name" /\ task'[x].by = u /\ task'[x].whom = n,
           task'[w].by \notin forked =>
              /\ task'[w].at \in {"taken", "owner", "erase"} => (task[w].old = OldName(task[w].by))'
              /\ task'[w].at = "claim" => \A n \in Name : userOf'[n] # task'[w].by
              /\ task'[w].at = "name" => \A n \in Name : userOf'[n] = task'[w].by => n = task'[w].whom,
           \A v \in User \ {task[w].by} :
              nickOf'[v] = nickOf[v] /\ \A n \in Name : userOf'[n] = v => userOf[n] = v
    PROVE  Nicks'
<1>1. task[w].cmd = "nick" /\ \A x \in Worker \ {w} : Kept(x) /\ Formed(task[x])
  BY DEF Inv, Base, WellFormed, Formed, Others
<1>2. NicksAreCurrent'
  BY DEF NicksAreCurrent
<1>3. ASSUME NEW x \in Worker, NEW y \in Worker, task'[x].cmd = "nick", task'[y].cmd = "nick",
             task'[x].by = task'[y].by, task'[x].by \notin forked
      PROVE  x = y
  BY <1>1, <1>3 DEF Inv, Nicks, Kept
<1>4. ASSUME NEW x \in Worker \ {w}, task'[x].by \notin forked
      PROVE  /\ task'[x].at \in {"taken", "owner", "erase"} => (task[x].old = OldName(task[x].by))'
             /\ task'[x].at = "claim" => \A n \in Name : userOf'[n] # task'[x].by
             /\ task'[x].at = "name" => \A n \in Name : userOf'[n] = task'[x].by => n = task'[x].whom
  <2>1. CASE task[x].at \notin Renaming
    BY <1>1, <2>1 DEF Kept, Renaming
  <2>2. CASE task[x].at \in Renaming
    <3>1. task[x].cmd = "nick" /\ task[x].by \in User
      BY <1>1, <2>2 DEF Formed
    <3>2. task[x].by # task[w].by
      BY <1>1, <1>4, <3>1 DEF Kept, Inv, Nicks
    <3> QED BY <1>1, <1>4, <3>1, <3>2 DEF Kept, Inv, Nicks, OldName
  <2> QED BY <2>1, <2>2
<1> QED BY <1>2, <1>3, <1>4 DEF Nicks

LEMMA NickCheckKeeps ==
    ASSUME Inv, NEW w \in Worker, NEW n \in Name, NickCheck(w, n) PROVE Inv'
<1>1. /\ TypeOK /\ task[w].at = "taken" /\ task[w].at \in Renaming /\ Formed(task[w])
      /\ task[w].at \notin OnChannel /\ task[w].cmd = "nick"
      /\ UNCHANGED <<open, chan, nicks, session, view, stored, histories>>
  BY DEF NickCheck, At, Inv, Base, WellFormed, OnChannel, Renaming, Formed
<1>2. PICK step \in {"owner", "erase"} : step = IF userOf[n] # None THEN "owner" ELSE "erase"
  OBVIOUS
<1>3. task' = [task EXCEPT ![w] = [task[w] EXCEPT !.whom = n, !.at = step]]
  BY <1>2 DEF NickCheck
<1>4. PICK t \in Task : t = [task[w] EXCEPT !.whom = n, !.at = step]
  <2>1. task[w] \in Task /\ step \in Steps /\ n \in Target
    BY <1>1, TaskFields DEF Steps, Target
  <2> QED BY <2>1, TaskAimed
<1>5. /\ t.at = step /\ t.whom = n /\ t.cmd = "nick" /\ t.by = task[w].by
      /\ t.old = task[w].old
  BY <1>1, <1>4, TaskFields DEF Task
<1>6. task' = [task EXCEPT ![w] = t] /\ task' \in [Worker -> Task] /\ task'[w] = t /\ Others(w)
  BY <1>1, <1>3, <1>4, SingleIs
<1>7. Base' /\ Rights' /\ Bans' /\ ListsSure'
  <2>1. TypeOK'
    BY <1>1, <1>6 DEF TypeOK, nicks, histories
  <2>2. Formed(t)
    BY <1>1, <1>5 DEF Formed, OnChannel, Renaming
  <2> QED BY <1>1, <1>5, <1>6, <2>1, <2>2, Apart DEF histories, Renaming
<1>8. Nicks'
  <2>1. \A m \in Name, u \in User : userOf[m] = u /\ u \notin forked =>
                 \/ nickOf[u] = m
                 \/ \E x \in Worker : task'[x].at = "name" /\ task'[x].by = u /\ task'[x].whom = m
    <3> SUFFICES ASSUME NEW m \in Name, NEW u \in User, userOf[m] = u, u \notin forked, nickOf[u] # m
                 PROVE  \E x \in Worker : task'[x].at = "name" /\ task'[x].by = u /\ task'[x].whom = m
      OBVIOUS
    <3>1. PICK x \in Worker : task[x].at = "name" /\ task[x].by = u /\ task[x].whom = m
      BY DEF Inv, Nicks, NicksAreCurrent
    <3> QED BY <1>1, <1>6, <3>1 DEF Others, Kept
  <2>2. t.by \notin forked => t.old = OldName(t.by)
    BY <1>1, <1>5 DEF Inv, Nicks
  <2> QED BY <1>1, <1>5, <1>6, <2>1, <2>2, NicksMoved DEF nicks, histories, OldName
<1> QED BY <1>7, <1>8 DEF Inv

(* /nick goes on with a step that has to do with no channel. *)
LEMMA NickOnward ==
    ASSUME Inv, NEW w \in Worker, NEW step \in {"erase", "claim", "name", "announce", "done"},
           Go(w, step),
           task[w].at \in Renaming, step \in {"erase", "claim", "name"} => task[w].whom \in Name,
           UNCHANGED <<open, chan, session, view, stored, histories>>,
           userOf' \in [Name -> User \cup {Nobody, None}], nickOf' \in [User -> Name \cup {None}]
    PROVE  /\ Base' /\ Rights' /\ Bans' /\ ListsSure' /\ Others(w)
           /\ step # "done" => Moved(w, step)
           /\ step = "done" => task'[w].at = "done" /\ task'[w].cmd = "none"
<1>1. /\ TypeOK /\ Formed(task[w]) /\ task[w].at \notin OnChannel /\ step \in Steps
      /\ task[w].cmd = "nick" /\ task[w].by \in User /\ task[w].old \in Name
  BY DEF Inv, Base, WellFormed, OnChannel, Renaming, Steps, Formed
<1>2. /\ task' \in [Worker -> Task] /\ Others(w)
      /\ step # "done" => Moved(w, step)
      /\ step = "done" => task'[w] = NoTask
  BY <1>1, GoIs
<1>3. PICK t \in Task : task' = [task EXCEPT ![w] = t]
  BY <1>1, <1>2 DEF Go, TypeOK
<1>4. t = task'[w]
  BY <1>1, <1>3 DEF TypeOK
<1>5. /\ NoTask.at = "done" /\ NoTask.cmd = "none"
  BY DEF NoTask
<1>6. /\ t.at = step /\ t.cmd \in {"nick", "none"}
      /\ step = "done" <=> t.cmd = "none"
      /\ step # "done" => t.by = task[w].by /\ t.whom = task[w].whom /\ t.old = task[w].old
  BY <1>1, <1>2, <1>4, <1>5 DEF Moved
<1>7. Formed(t)
  BY <1>1, <1>6 DEF Formed, OnChannel, Renaming
<1>8. TypeOK'
  BY <1>1, <1>2 DEF TypeOK, histories
<1> QED BY <1>1, <1>2, <1>3, <1>4, <1>5, <1>6, <1>7, <1>8, Apart DEF histories, Renaming

LEMMA NickOwnerKeeps ==
    ASSUME Inv, NEW w \in Worker, NickOwner(w) PROVE Inv'
<1>1. /\ TypeOK /\ task[w].at = "owner" /\ task[w].at \in Renaming /\ Base
      /\ UNCHANGED <<open, chan, nickOf, session, view, stored, histories>>
      /\ task[w].by \in User /\ task[w].whom \in Name /\ task[w].cmd = "nick"
      /\ Subscript(task[w].whom)
  BY DEF NickOwner, At, Inv, Base, WellFormed, Renaming, Formed
<1>2. PICK step \in {"erase", "done"} :
         step = IF userOf'[task[w].whom] = task[w].by THEN "erase" ELSE "done"
  OBVIOUS
<1>3. /\ userOf' \in [Name -> User \cup {Nobody, None}]
      /\ \A m \in Name, u \in User : userOf'[m] = u => userOf[m] = u
  BY <1>1, SubscriptIs
<1>4. /\ Base' /\ Rights' /\ Bans' /\ ListsSure' /\ Others(w)
      /\ step # "done" => Moved(w, step)
      /\ step = "done" => task'[w].at = "done" /\ task'[w].cmd = "none"
  BY <1>1, <1>2, <1>3, NickOnward DEF NickOwner, TypeOK
<1>5. \A m \in Name, u \in User : userOf'[m] = u /\ u \notin forked =>
                 \/ nickOf[u] = m
                 \/ \E x \in Worker : task'[x].at = "name" /\ task'[x].by = u /\ task'[x].whom = m
  <2> SUFFICES ASSUME NEW m \in Name, NEW u \in User, userOf[m] = u, u \notin forked, nickOf[u] # m
               PROVE  \E x \in Worker : task'[x].at = "name" /\ task'[x].by = u /\ task'[x].whom = m
    BY <1>3
  <2>1. PICK x \in Worker : task[x].at = "name" /\ task[x].by = u /\ task[x].whom = m
    BY DEF Inv, Nicks, NicksAreCurrent
  <2> QED BY <1>1, <1>4, <2>1 DEF Others, Kept
<1>6. step = "erase" /\ task[w].by \notin forked => task[w].old = OldName(task[w].by)
  BY <1>1 DEF Inv, Nicks
<1>7. OldName(task[w].by)' = (IF nickOf'[task'[w].by] # None THEN nickOf'[task'[w].by] ELSE task'[w].by)
  BY DEF OldName
<1>8. Nicks'
  <2>1. CASE step = "erase"
    BY <1>1, <1>3, <1>4, <1>5, <1>6, <1>7, <2>1, NicksMoved DEF Moved, histories, OldName
  <2>2. CASE step = "done"
    BY <1>1, <1>3, <1>4, <1>5, <2>2, NicksMoved DEF histories
  <2> QED BY <2>1, <2>2
<1> QED BY <1>4, <1>8 DEF Inv

LEMMA NickEraseKeeps ==
    ASSUME Inv, NEW w \in Worker, NickErase(w) PROVE Inv'
<1> DEFINE u == task[w].by
<1>1. /\ TypeOK /\ task[w].at = "erase" /\ task[w].at \in Renaming /\ Formed(task[w]) /\ Base
      /\ UNCHANGED <<open, chan, nickOf, session, view, stored, histories>> /\ Go(w, "claim")
      /\ u \in User /\ task[w].old \in Name /\ task[w].whom \in Name /\ task[w].cmd = "nick"
  BY DEF NickErase, At, Inv, Base, WellFormed, OnChannel, Renaming, Formed
<1>2. /\ userOf' \in [Name -> User \cup {Nobody, None}]
      /\ \A n \in Name : userOf'[n] = IF n = task[w].old THEN None ELSE userOf[n]
  BY <1>1 DEF NickErase, TypeOK
<1>3. Base' /\ Rights' /\ Bans' /\ ListsSure' /\ Others(w) /\ Moved(w, "claim")
  BY <1>1, <1>2, NickOnward DEF TypeOK
<1>4. None \notin User
  BY ChannelsAssumption
<1>5. ASSUME NEW n \in Name, NEW v \in User, userOf'[n] = v, v \notin forked
      PROVE  \/ nickOf[v] = n
             \/ \E x \in Worker : task'[x].at = "name" /\ task'[x].by = v /\ task'[x].whom = n
  <2>1. CASE nickOf[v] = n
    BY <2>1
  <2>2. CASE nickOf[v] # n
    <3>1. PICK x \in Worker : task[x].at = "name" /\ task[x].by = v /\ task[x].whom = n
      BY <1>2, <1>4, <1>5, <2>2 DEF Inv, Nicks, NicksAreCurrent
    <3> QED BY <1>1, <1>3, <3>1 DEF Others, Kept
  <2> QED BY <2>1, <2>2
<1>6. ASSUME u \notin forked, NEW n \in Name, userOf'[n] = u PROVE FALSE
  <2>1. n # task[w].old /\ userOf[n] = u
    BY <1>1, <1>2, <1>4, <1>6
  <2>2. ASSUME NEW x \in Worker, task[x].at = "name", task[x].by = u PROVE FALSE
    <3>1. task[x].cmd = "nick"
      BY <1>1, <2>2 DEF Base, WellFormed, Formed, Renaming
    <3> QED BY <1>1, <1>6, <2>2, <3>1 DEF Inv, Nicks
  <2>3. nickOf[u] = n
    BY <1>1, <1>6, <2>1, <2>2 DEF Inv, Nicks, NicksAreCurrent
  <2>4. task[w].old = n
    BY <1>1, <1>6, <2>3, ChannelsAssumption DEF Inv, Nicks, OldName, Name
  <2> QED BY <2>1, <2>4
<1>7. Nicks'
  BY <1>1, <1>2, <1>3, <1>4, <1>5, <1>6, NicksMoved DEF Moved, histories
<1> QED BY <1>3, <1>7 DEF Inv

LEMMA NickClaimKeeps ==
    ASSUME Inv, NEW w \in Worker, NickClaim(w) PROVE Inv'
<1> DEFINE u == task[w].by
<1>1. /\ TypeOK /\ task[w].at = "claim" /\ task[w].at \in Renaming /\ Formed(task[w]) /\ Base
      /\ UNCHANGED <<open, chan, nickOf, session, view, stored, histories>> /\ Go(w, "name")
      /\ u \in User /\ task[w].whom \in Name /\ task[w].cmd = "nick"
  BY DEF NickClaim, At, Inv, Base, WellFormed, OnChannel, Renaming, Formed
<1>2. /\ userOf' \in [Name -> User \cup {Nobody, None}]
      /\ \A n \in Name : userOf'[n] = IF n = task[w].whom THEN u ELSE userOf[n]
  BY <1>1 DEF NickClaim, TypeOK
<1>3. Base' /\ Rights' /\ Bans' /\ ListsSure' /\ Others(w) /\ Moved(w, "name")
  BY <1>1, <1>2, NickOnward DEF TypeOK
<1>4. ASSUME NEW n \in Name, NEW v \in User, userOf'[n] = v, v \notin forked
      PROVE  \/ nickOf[v] = n
             \/ \E x \in Worker : task'[x].at = "name" /\ task'[x].by = v /\ task'[x].whom = n
  <2>1. CASE n = task[w].whom
    BY <1>2, <1>3, <1>4, <2>1 DEF Moved
  <2>2. CASE n # task[w].whom /\ nickOf[v] # n
    <3>1. PICK x \in Worker : task[x].at = "name" /\ task[x].by = v /\ task[x].whom = n
      BY <1>2, <1>4, <2>2 DEF Inv, Nicks, NicksAreCurrent
    <3> QED BY <1>1, <1>3, <3>1 DEF Others, Kept
  <2> QED BY <2>1, <2>2
<1>5. ASSUME u \notin forked, NEW n \in Name, userOf'[n] = u PROVE n = task[w].whom
  BY <1>1, <1>2, <1>5 DEF Inv, Nicks
<1>6. \A v \in User \ {u}, n \in Name : userOf'[n] = v => userOf[n] = v
  BY <1>2
<1>7. Nicks'
  BY <1>1, <1>3, <1>4, <1>5, <1>6, NicksMoved DEF Moved, histories
<1> QED BY <1>3, <1>7 DEF Inv

LEMMA NickNameKeeps ==
    ASSUME Inv, NEW w \in Worker, NickName(w) PROVE Inv'
<1> DEFINE u == task[w].by
<1>1. /\ TypeOK /\ task[w].at = "name" /\ task[w].at \in Renaming /\ Formed(task[w]) /\ Base
      /\ UNCHANGED <<open, chan, userOf, session, view, stored, histories>> /\ Go(w, "announce")
      /\ u \in User /\ task[w].whom \in Name /\ task[w].cmd = "nick"
  BY DEF NickName, At, Inv, Base, WellFormed, OnChannel, Renaming, Formed
<1>2. /\ nickOf' \in [User -> Name \cup {None}]
      /\ \A v \in User : nickOf'[v] = IF v = u THEN task[w].whom ELSE nickOf[v]
  BY <1>1 DEF NickName, TypeOK
<1>3. Base' /\ Rights' /\ Bans' /\ ListsSure' /\ Others(w) /\ Moved(w, "announce")
  BY <1>1, <1>2, NickOnward DEF TypeOK
<1>4. ASSUME NEW n \in Name, NEW v \in User, userOf[n] = v, v \notin forked
      PROVE  \/ nickOf'[v] = n
             \/ \E x \in Worker : task'[x].at = "name" /\ task'[x].by = v /\ task'[x].whom = n
  <2>1. CASE v = u
    <3>1. n = task[w].whom
      BY <1>1, <1>4, <2>1 DEF Inv, Nicks
    <3> QED BY <1>2, <2>1, <3>1
  <2>2. CASE v # u /\ nickOf[v] # n
    <3>1. PICK x \in Worker : task[x].at = "name" /\ task[x].by = v /\ task[x].whom = n
      BY <1>4, <2>2 DEF Inv, Nicks, NicksAreCurrent
    <3> QED BY <1>3, <2>2, <3>1 DEF Others, Kept
  <2>3. CASE v # u /\ nickOf[v] = n
    BY <1>2, <2>3
  <2> QED BY <2>1, <2>2, <2>3
<1>5. \A v \in User \ {u} : nickOf'[v] = nickOf[v]
  BY <1>2
<1>6. Nicks'
  BY <1>1, <1>3, <1>4, <1>5, NicksMoved DEF Moved, histories
<1> QED BY <1>3, <1>6 DEF Inv

LEMMA NickEndKeeps ==
    ASSUME Inv, NEW w \in Worker, NickEnd(w) PROVE Inv'
<1>1. /\ TypeOK /\ task[w].at = "announce" /\ task[w].at \in Renaming /\ Go(w, "done")
      /\ UNCHANGED <<open, chan, nicks, session, view, stored, histories>>
  BY DEF NickEnd, At, Inv, Base, Renaming
<1>2. /\ Base' /\ Rights' /\ Bans' /\ ListsSure' /\ Others(w)
      /\ task'[w].at = "done" /\ task'[w].cmd = "none"
  BY <1>1, NickOnward DEF TypeOK, nicks
<1>3. Nicks'
  BY <1>1, <1>2, NicksQuiet DEF nicks, histories
<1> QED BY <1>2, <1>3 DEF Inv

LEMMA QuitBeginKeeps ==
    ASSUME Inv, NEW w \in Worker, NEW u \in User, QuitBegin(w, u) PROVE Inv'
<1> DEFINE t == [NoTask EXCEPT !.cmd = "quit", !.by = u, !.whom = u, !.at = "next",
                               !.todo = {c \in open : u \in chan[c].members}]
<1>1. /\ TypeOK /\ task[w] = NoTask /\ task' = [task EXCEPT ![w] = t]
      /\ UNCHANGED <<open, chan, nicks, session, view, stored, histories>>
  BY DEF QuitBegin, Start, Inv, Base
<1>2. /\ t \in Task /\ t.at = "next" /\ t.cmd = "quit" /\ t.by = u /\ t.whom = u
  BY <1>1 DEF NoTask, Task, Steps, Name, Target, TypeOK
<1>3. task[w].at = "done" /\ task[w].cmd = "none"
  BY <1>1 DEF NoTask
<1> HIDE DEF t
<1>4. task' \in [Worker -> Task] /\ task'[w] = t /\ Others(w)
  BY <1>1, <1>2, SingleIs
<1>5. Base' /\ Rights' /\ Bans' /\ ListsSure'
  <2>1. TypeOK'
    BY <1>1, <1>4 DEF TypeOK, nicks, histories
  <2>2. Formed(t)
    BY <1>2 DEF Formed, OnChannel, Renaming, Name, Target
  <2> QED BY <1>1, <1>2, <1>3, <2>1, <2>2, Apart DEF OnChannel, histories
<1>6. Nicks'
  BY <1>1, <1>2, <1>3, <1>4, NicksQuiet DEF nicks, histories
<1> QED BY <1>5, <1>6 DEF Inv

LEMMA QuitChannelKeeps ==
    ASSUME Inv, NEW w \in Worker, NEW c \in Channel, QuitChannel(w, c) PROVE Inv'
<1> DEFINE t == [task[w] EXCEPT !.todo = task[w].todo \ {c},
                                !.on = IF c \in open THEN c ELSE None, !.ref = "fresh",
                                !.at = IF c \in open THEN "leave" ELSE "next"]
<1>1. /\ TypeOK /\ task[w].at = "next" /\ Formed(task[w]) /\ task[w].cmd = "quit"
      /\ task[w].by \in User /\ task[w].whom \in User
      /\ UNCHANGED <<open, chan, nicks, session, view, stored, histories>>
  BY DEF QuitChannel, At, Inv, Base, WellFormed, Formed
<1>2. task' = [task EXCEPT ![w] = t]
  <2>1. CASE c \in open
    BY <1>1, <2>1, TaskFields DEF QuitChannel, TypeOK
  <2>2. CASE c \notin open
    BY <1>1, <2>2, TaskFields DEF QuitChannel, TypeOK
  <2> QED BY <2>1, <2>2
<1>3. /\ t \in Task /\ t.cmd = "quit" /\ t.by = task[w].by /\ t.whom = task[w].whom
      /\ t.ref = "fresh" /\ t.at = IF c \in open THEN "leave" ELSE "next"
      /\ t.on = IF c \in open THEN c ELSE None
  <2>1. task[w] \in Task /\ task[w].cmd = "quit"
    BY <1>1, TaskFields
  <2>2. CASE c \in open
    BY <2>1, <2>2, ZenonT(60) DEF Task, Steps
  <2>3. CASE c \notin open
    BY <2>1, <2>3, ZenonT(60) DEF Task, Steps
  <2> QED BY <2>2, <2>3
<1> HIDE DEF t
<1>4. task' \in [Worker -> Task] /\ task'[w] = t /\ Others(w)
  BY <1>1, <1>2, <1>3, SingleIs
<1>5. Base' /\ Rights' /\ Bans' /\ ListsSure'
  <2>1. TypeOK'
    BY <1>1, <1>4 DEF TypeOK, nicks, histories
  <2>2. Formed(t)
    BY <1>1, <1>3 DEF Formed, OnChannel, Renaming, Name, Target
  <2> QED BY <1>1, <1>2, <1>3, <2>1, <2>2, Apart DEF OnChannel, histories
<1>6. Nicks'
  BY <1>1, <1>3, <1>4, NicksQuiet DEF nicks, histories
<1> QED BY <1>5, <1>6 DEF Inv

LEMMA QuitEndKeeps ==
    ASSUME Inv, NEW w \in Worker, QuitEnd(w) PROVE Inv'
<1>1. /\ TypeOK /\ task[w].at = "next" /\ Go(w, "done") /\ task[w].by \in User
      /\ UNCHANGED <<open, chan, nicks, view, stored, histories>> /\ task[w].cmd = "quit"
  BY DEF QuitEnd, At, Inv, Base, WellFormed, Formed
<1>2. PICK s \in Remaining(task[w].by) : session' = [session EXCEPT ![task[w].by] = s]
  BY DEF QuitEnd
<1>3. /\ session' \in [User -> {"none", "lost", "found"}]
      /\ \A u \in User : session'[u] = "found" => session[u] = "found"
  BY <1>1, <1>2 DEF Remaining, TypeOK
<1>4. task' \in [Worker -> Task] /\ task'[w] = NoTask /\ Others(w) /\ Intact(w)
  BY <1>1, GoIs DEF Steps
<1>5. task'[w].at = "done" /\ task'[w].cmd = "none"
  BY <1>4 DEF NoTask
<1>6. Base'
  <2>1. TypeOK'
    BY <1>1, <1>3, <1>4 DEF TypeOK, nicks, histories
  <2>2. Formed(task[w])'
    BY <1>5 DEF Formed, OnChannel, Renaming
  <2> QED BY <1>1, <1>4, <2>1, <2>2, OthersFormed DEF Base, Inv
<1>7. Rights' /\ Bans'
  BY <1>1, <1>4, <1>5, RightsQuiet, BansQuiet DEF histories
<1>8. Nicks'
  BY <1>1, <1>4, <1>5, NicksQuiet DEF nicks, histories
<1>9. ListsSure'
  <2>1. \A c \in Channel : \A u \in chan[c].members : ~Owes(w, c, u)
    BY <1>1 DEF Owes
  <2> QED BY <1>1, <1>3, <1>4, <1>5, <2>1, ListsKept DEF histories
<1> QED BY <1>6, <1>7, <1>8, <1>9 DEF Inv

(* No command takes a step; what a session was sent may be forgotten. *)
LEMMA Aside ==
    ASSUME Inv, TypeOK', UNCHANGED <<open, chan, nicks, task, histories>>,
           \A u \in User, c \in Channel :
              session'[u] = "found" /\ view'[u][c] # None
                  => session[u] = "found" /\ view'[u][c] = view[u][c]
    PROVE  Inv'
<1>1. WellFormed'
  BY DEF Inv, Base, WellFormed, Formed
<1>2. \A c \in Channel : Stripping(c)' = Stripping(c) /\ Dropping(c)' = Dropping(c)
  BY DEF Stripping, Dropping
<1>3. Rights' /\ Bans'
  BY <1>2 DEF Inv, Rights, RightsOfOutsiders, Bans, BannedAreOut, histories
<1>4. Nicks'
  BY DEF Inv, Nicks, NicksAreCurrent, OldName, nicks, histories
<1>5. ListsSure'
  <2> SUFFICES ASSUME NEW c \in Channel \ mixed PROVE Sure(c)'
    BY DEF ListsSure, histories
  <2>1. Sure(c) /\ chan[c].members \in SUBSET User
    BY ChannelStateFields DEF Inv, Base, ListsSure
  <2>2. \A x \in Worker, u \in User : Owes(x, c, u)' <=> Owes(x, c, u)
    BY DEF Owes, Freed
  <2> QED BY <2>1, <2>2 DEF Sure
<1> QED BY <1>1, <1>3, <1>4, <1>5 DEF Inv, Base

LEMMA SessionsKeep == ASSUME Inv, Sessions PROVE Inv'
<1>1. PICK u \in User : Connect(u) \/ Disconnect(u)
  BY DEF Sessions
<1>2. CASE Connect(u)
  <2>1. /\ session' = [session EXCEPT ![u] = "found"]
        /\ view' = [view EXCEPT ![u] = [c \in Channel |-> None]]
        /\ stored' = stored \ {u} /\ UNCHANGED <<open, chan, nicks, task, histories>> /\ TypeOK
    BY <1>2 DEF Connect, Inv, Base
  <2>2. TypeOK'
    BY <2>1 DEF TypeOK, nicks, histories
  <2>3. \A v \in User, c \in Channel : session'[v] = "found" /\ view'[v][c] # None
            => session[v] = "found" /\ view'[v][c] = view[v][c]
    BY <2>1 DEF TypeOK
  <2> QED BY <2>1, <2>2, <2>3, Aside
<1>3. CASE Disconnect(u)
  <2>1. UNCHANGED <<open, chan, nicks, view, stored, task, histories>> /\ TypeOK
    BY <1>3 DEF Disconnect, Inv, Base
  <2>2. PICK s \in Remaining(u) \ {"found"} : session' = [session EXCEPT ![u] = s]
    BY <1>3 DEF Disconnect
  <2>3. /\ session' \in [User -> {"none", "lost", "found"}]
        /\ \A v \in User : session'[v] = "found" => session[v] = "found"
    BY <2>1, <2>2 DEF Remaining, TypeOK
  <2>4. TypeOK'
    BY <2>1, <2>3 DEF TypeOK, nicks, histories
  <2> QED BY <2>1, <2>3, <2>4, Aside
<1> QED BY <1>1, <1>2, <1>3

LEMMA NickStoreKeeps ==
    ASSUME Inv, NEW w \in Worker, NEW u \in User, NickStore(w, u) PROVE Inv'
<1>1. stored' = stored \cup {u} /\ UNCHANGED <<open, chan, nicks, session, view, task, histories>>
  BY DEF NickStore
<1>2. TypeOK'
  BY <1>1 DEF TypeOK, Inv, Base, nicks, histories
<1> QED BY <1>1, <1>2, Aside

LEMMA Inductive == Inv /\ [Next]_vars => Inv'
<1> SUFFICES ASSUME Inv, [Next]_vars PROVE Inv'
  OBVIOUS
<1>1. CASE Sessions
  BY <1>1, SessionsKeep
<1>2. ASSUME NEW w \in Worker, Beginning(w) PROVE Inv'
  BY <1>2, NickBeginKeeps, QuitBeginKeeps, BeginKeeps DEF Beginning
<1>3. ASSUME NEW w \in Worker, Checks(w) PROVE Inv'
  BY <1>3, CheckBannedKeeps, CheckInvitedKeeps, CheckOperatorKeeps, CheckMemberKeeps, CountKeeps,
     CheckEmptyKeeps, LookupKeeps, BearerKeeps DEF Checks
<1>4. ASSUME NEW w \in Worker, Changes(w) PROVE Inv'
  BY <1>4, InsertKeeps, CrownKeeps, InviteKeeps, BanKeeps, LeaveKeeps, StripKeeps, DestroyKeeps,
     GrantKeeps, SetKeeps DEF Changes
<1>5. ASSUME NEW w \in Worker, Lists(w) PROVE Inv'
  BY <1>5, FindListKeeps, SendEndKeeps, OwnListKeeps, OwnReplyKeeps, SendKeeps DEF Lists
<1>6. ASSUME NEW w \in Worker, Naming(w) PROVE Inv'
  BY <1>6, NickOwnerKeeps, NickEraseKeeps, NickClaimKeeps, NickNameKeeps, NickEndKeeps, NickCheckKeeps,
     NickStoreKeeps DEF Naming
<1>7. ASSUME NEW w \in Worker, Quitting(w) PROVE Inv'
  BY <1>7, QuitEndKeeps, QuitChannelKeeps DEF Quitting
<1>8. CASE UNCHANGED vars
  <2>1. UNCHANGED <<open, chan, nicks, session, view, stored, task, histories>>
    BY <1>8 DEF vars
  <2>2. TypeOK'
    BY <2>1 DEF TypeOK, Inv, Base, nicks, histories
  <2> QED BY <2>1, <2>2, Aside
<1> QED BY <1>1, <1>2, <1>3, <1>4, <1>5, <1>6, <1>7, <1>8 DEF Next

LEMMA AlwaysInv == Spec => []Inv
BY InitInv, Inductive, PTL DEF Spec

(* Every variable has its type, with any number of commands under way. *)
THEOREM TypeCorrect == Spec => []TypeOK
<1>1. Inv => TypeOK
  BY DEF Inv, Base
<1> QED BY <1>1, AlwaysInv, PTL

(* Whoever is banned stays out of a channel, with commands of any sessions  *)
(* overlapping: only a /join that had passed its check before the /ban was  *)
(* recorded gets in, or a command that goes on in a destroyed channel.      *)
THEOREM BansHold == Spec => []BannedAreOut
<1>1. Inv => BannedAreOut
  BY DEF Inv, Bans
<1> QED BY <1>1, AlwaysInv, PTL

(* Rights outlive membership only after a /ban, or when /mode or /join gave *)
(* them after its target had been taken out again.                          *)
THEOREM RightsStayWithMembers == Spec => []RightsOfOutsiders
<1>1. Inv => RightsOfOutsiders
  BY DEF Inv, Rights
<1> QED BY <1>1, AlwaysInv, PTL

(* Nicknames lead to their present bearers, whatever /nick commands overlap. *)
THEOREM NicksCurrent == Spec => []NicksAreCurrent
<1>1. Inv => NicksAreCurrent
  BY DEF Inv, Nicks
<1> QED BY <1>1, AlwaysInv, PTL

(* Once no change of a channel is being told, the lists its members hold    *)
(* agree with it, unless two changes were told at once.                     *)
THEOREM ListsCurrent == Spec => []ListsAgree
<1>1. Inv => ListsAgree
  <2> SUFFICES ASSUME Inv, NEW c \in Channel \ mixed, NEW u \in User,
                      \A w \in Worker : ~Telling(w, c),
                      u \in chan[c].members, session[u] = "found", view[u][c] # None
               PROVE  view[u][c] = chan[c].members
    BY DEF ListsAgree
  <2>1. \A w \in Worker : ~Owes(w, c, u)
    BY DEF Owes, Telling
  <2> QED BY <2>1 DEF Inv, ListsSure, Sure
<1> QED BY <1>1, AlwaysInv, PTL

-----------------------------------------------------------------------------
(***************************************************************************)
(* The rate limits.                                                        *)
(***************************************************************************)

(* Before the first command there are no grants and nobody is in allow(). *)
Unused ==
    limiter = Absent =>
        \A k \in Limiter : grants[k] = <<>> /\ \A h \in Strand : pc[h] # <<"allow", k>>

RateTypes == RateTypeOK /\ Unused

(* Two strands that are in the same allow() know of each other. *)
Overlapping ==
    \A k \in Limiter, g, h \in Strand :
        pc[g] = <<"allow", k>> /\ pc[h] = <<"allow", k>> /\ g # h => h \in overlap

(* Of the grants in q, latest first, only the first n may be younger than  *)
(* age, and those beyond max more are older than a whole window.           *)
Behind(q, n, max, age) ==
    \A i \in 1..Len(q) : /\ i > n => q[i] >= age
                         /\ i > n + max => q[i] = Window

(* n grants fell into the current window of k: they are in its count and   *)
(* in every count a strand has read, and the window before it granted at   *)
(* most Max.                                                               *)
WindowHolds(k, n) ==
    /\ n <= limiter[k].count
    /\ \A h \in Strand : pc[h] = <<"allow", k>> => n <= seen[h]
    /\ Behind(grants[k], n, Max[k], limiter[k].age)

EveryWindowHolds ==
    limiter # Absent => \A k \in Limiter : \E n \in 0..Max[k] : WindowHolds(k, n)

(* The violations of the record are the latest refusals, none of them      *)
(* older than the first one.                                               *)
Recorded ==
    /\ Len(refusals) <= MaxViolations
    /\ record # Absent =>
          /\ record.violations <= Len(refusals)
          /\ \A i \in 1..record.violations : refusals[i] <= record.first

(* Whoever is past is_abuser during a ban was so when the ban began. *)
PassedBefore == Banned => \A h \in Strand : pc[h] # Idle => h \in late

RateInv == RateTypes /\ Overlapping /\ EveryWindowHolds /\ Recorded /\ PassedBefore

USE RateLimitsAssumption

(* Ages stay within their bound and in their order. *)
LEMMA OlderType ==
    ASSUME NEW top \in Nat, NEW a \in 0..top
    PROVE  Older(a, top) \in 0..top
BY DEF Older

LEMMA OlderOrder ==
    ASSUME NEW top \in Nat, NEW a \in 0..top, NEW b \in 0..top, a <= b
    PROVE  /\ Older(a, top) <= Older(b, top)
           /\ b = top => Older(b, top) = top
BY DEF Older

(* What the history of grants or refusals is after a new one. *)
LEMMA LatestOf ==
    ASSUME NEW S, 0 \in S, NEW q \in Seq(S), NEW n \in Nat \ {0}
    PROVE  LET r == Latest(<<0>> \o q, n)
           IN  /\ r \in Seq(S)
               /\ Len(r) = IF Len(q) + 1 > n THEN n ELSE Len(q) + 1
               /\ r[1] = 0
               /\ \A i \in 1..Len(r) : i > 1 => r[i] = q[i - 1]
<1> DEFINE p == <<0>> \o q
           r == Latest(<<0>> \o q, n)
<1>1. p \in Seq(S) /\ Len(p) = Len(q) + 1 /\ p[1] = 0
  OBVIOUS
<1>2. \A i \in 1..Len(p) : i > 1 => p[i] = q[i - 1]
  OBVIOUS
<1>3. CASE Len(p) > n
  <2>1. r = SubSeq(p, 1, n)
    BY <1>3 DEF Latest
  <2>2. \A i \in 1..n : p[i] \in S
    BY <1>1, <1>3
  <2>3. Len(r) = n /\ \A i \in 1..n : r[i] = p[i]
    BY <1>1, <1>3, <2>1
  <2>4. r \in Seq(S)
    BY <1>1, <1>3, <2>1, <2>2
  <2> QED BY <1>1, <1>2, <1>3, <2>3, <2>4
<1>4. CASE ~(Len(p) > n)
  BY <1>1, <1>2, <1>4 DEF Latest
<1> QED BY <1>3, <1>4

(* Every age of a history grows. *)
LEMMA OlderSeq ==
    ASSUME NEW top \in Nat, NEW q \in Seq(0..top),
           NEW r, r = [i \in DOMAIN q |-> Older(q[i], top)]
    PROVE  /\ r \in Seq(0..top) /\ Len(r) = Len(q)
           /\ \A i \in 1..Len(q) : r[i] = Older(q[i], top)
<1>1. DOMAIN q = 1..Len(q) /\ Len(q) \in Nat /\ \A i \in 1..Len(q) : q[i] \in 0..top
  OBVIOUS
<1>2. \A i \in 1..Len(q) : Older(q[i], top) \in 0..top
  BY <1>1, OlderType
<1> QED BY <1>1, <1>2

(* The limits a command finds, and a window that allow() has looked at. *)
LEMMA WindowTypes ==
    ASSUME RateTypeOK
    PROVE  /\ Limits \in LimiterState
           /\ \A k \in Limiter : /\ Current(Limits[k]) \in [age : 0..Window, count : Nat]
                                 /\ Limits[k] \in [age : 0..Window, count : Nat]
<1>1. Limits \in LimiterState
  BY DEF Limits, RateTypeOK, LimiterState
<1> QED BY <1>1 DEF Current, LimiterState

(* The record that a violation is counted in: nothing counted is lost      *)
(* unless it starts over, and only a ban that is in force is carried on.   *)
LEMMA CountingType ==
    ASSUME RateTypeOK
    PROVE  /\ Counting \in AbuseRecord
           /\ Counting.first <= ViolationWindow
           /\ Counting.violations > 0 => record # Absent /\ Counting = record
           /\ Counting.banned => Banned
BY DEF Counting, RateTypeOK, AbuseRecord, Banned

(* The types need Unused: allow() writes to a limiter that exists. *)
LEMMA RateTypesKept ==
    /\ RateInit => RateTypes
    /\ RateTypes /\ [RateNext]_rateVars => RateTypes'
<1>0. Idle \in Phase /\ Refused \in Phase
      /\ \A k \in Limiter : <<"call", k>> \in Phase /\ <<"allow", k>> \in Phase
  BY DEF Phase
<1>a. 0 \in 0..Window /\ 0 \in 0..(ViolationWindow + 1) /\ Window \in Nat
      /\ ViolationWindow + 1 \in Nat /\ BanDuration + 1 \in Nat
      /\ "command" \in Limiter /\ "join" \in Limiter
  BY DEF Limiter
<1>1. RateInit => RateTypes
  BY <1>0 DEF RateInit, RateTypes, RateTypeOK, Unused, Idle
<1>2. SUFFICES ASSUME RateTypeOK, Unused, [RateNext]_rateVars
               PROVE  RateTypeOK' /\ Unused'
  BY <1>1 DEF RateTypes
<1>b. Idle # Refused
      /\ \A k \in Limiter : <<"allow", k>> # Idle /\ <<"allow", k>> # Refused
                            /\ \A m \in Limiter : <<"call", m>> # <<"allow", k>>
  BY DEF Idle, Refused, Limiter
<1>3. ASSUME NEW h \in Strand, IsAbuser(h)
      PROVE  RateTypeOK' /\ Unused'
  <2>1. RateTypeOK'
    BY <1>0, <1>a, <1>2, <1>3 DEF IsAbuser, RateTypeOK, GoesTo
  <2>2. Unused'
    BY <1>a, <1>b, <1>2, <1>3 DEF IsAbuser, RateTypeOK, GoesTo, Unused
  <2> QED BY <2>1, <2>2
<1>4. ASSUME NEW h \in Strand, NEW k \in Limiter, AllowReads(h, k)
      PROVE  RateTypeOK' /\ Unused'
  <2>1. limiter' \in LimiterState
    BY <1>2, <1>4, WindowTypes DEF AllowReads, LimiterState
  <2>2. limiter'[k].count \in Nat
    BY <2>1 DEF LimiterState
  <2>3. overlap' \subseteq Strand
    BY <1>2, <1>4 DEF AllowReads, RateTypeOK
  <2>4. RateTypeOK'
    BY <1>0, <1>2, <1>4, <2>1, <2>2, <2>3 DEF AllowReads, RateTypeOK, GoesTo
  <2>5. Unused'
    BY <1>2, <2>1 DEF Unused
  <2> QED BY <2>4, <2>5
<1>5. ASSUME NEW h \in Strand, NEW k \in Limiter, AllowGrants(h, k)
      PROVE  RateTypeOK' /\ Unused'
  <2>1. limiter' \in LimiterState
    <3>1. limiter \in LimiterState /\ seen[h] + 1 \in Nat
      BY <1>2, <1>5 DEF AllowGrants, Unused, RateTypeOK
    <3> QED BY <3>1, <1>5 DEF AllowGrants, LimiterState
  <2>2. pc' \in [Strand -> Phase]
    BY <1>0, <1>a, <1>2, <1>5 DEF AllowGrants, RateTypeOK, GoesTo
  <2>3. Latest(<<0>> \o grants[k], 2 * Max[k] + 1) \in Seq(0..Window)
    <3>1. grants[k] \in Seq(0..Window) /\ 2 * Max[k] + 1 \in Nat \ {0}
      BY <1>2 DEF RateTypeOK
    <3> QED BY <3>1, <1>a, LatestOf
  <2>4. grants' \in [Limiter -> Seq(0..Window)]
    BY <1>2, <1>5, <2>3 DEF AllowGrants, RateTypeOK
  <2>5. RateTypeOK'
    BY <1>2, <1>5, <2>1, <2>2, <2>4 DEF AllowGrants, AllowReturns, RateTypeOK
  <2>6. Unused'
    BY <2>1 DEF Unused
  <2> QED BY <2>5, <2>6
<1>6. ASSUME NEW h \in Strand, NEW k \in Limiter, AllowRefuses(h, k)
      PROVE  RateTypeOK' /\ Unused'
  <2>1. RateTypeOK'
    BY <1>0, <1>2, <1>6 DEF AllowRefuses, AllowReturns, RateTypeOK, GoesTo
  <2>2. Unused'
    BY <1>b, <1>2, <1>6 DEF AllowRefuses, RateTypeOK, GoesTo, Unused
  <2> QED BY <2>1, <2>2
<1>7. ASSUME NEW h \in Strand, TrackAbuse(h)
      PROVE  RateTypeOK' /\ Unused'
  <2>1. record' \in AbuseRecord
    <3> DEFINE n == Older(Counting.violations, MaxViolations)
               b == Counting.banned \/ n >= MaxViolations
    <3>1. Counting \in AbuseRecord
      BY <1>2, CountingType
    <3>2. n \in 0..MaxViolations
      BY <3>1, OlderType DEF AbuseRecord
    <3>3. record' = [Counting EXCEPT !.violations = n, !.last = 0,
                                     !.banned = b]
      BY <1>7 DEF TrackAbuse
    <3>4. b \in BOOLEAN
      OBVIOUS
    <3> HIDE DEF n, b
    <3>5. record' = [violations |-> n, first |-> Counting.first, last |-> 0, banned |-> b]
      BY <3>1, <3>3 DEF AbuseRecord
    <3>6. Counting.first \in 0..(ViolationWindow + 1) /\ 0 \in 0..(BanDuration + 1)
      BY <1>a, <3>1 DEF AbuseRecord
    <3> QED BY <3>2, <3>4, <3>5, <3>6 DEF AbuseRecord
  <2>2. refusals' \in Seq(0..(ViolationWindow + 1))
    BY <1>a, <1>2, <1>7, LatestOf DEF RateTypeOK, TrackAbuse
  <2>3. late' \subseteq Strand
    BY <1>2, <1>7 DEF TrackAbuse, RateTypeOK
  <2>4. RateTypeOK'
    BY <1>0, <1>2, <1>7, <2>1, <2>2, <2>3 DEF TrackAbuse, RateTypeOK, GoesTo
  <2>5. Unused'
    BY <1>b, <1>2, <1>7 DEF TrackAbuse, RateTypeOK, GoesTo, Unused
  <2> QED BY <2>4, <2>5
<1>8. ASSUME Tick
      PROVE  RateTypeOK' /\ Unused'
  <2>1. limiter' = Absent \/ limiter' \in LimiterState
    BY <1>a, <1>2, <1>8, OlderType DEF Tick, RateTypeOK, LimiterState
  <2>2. record' = Absent \/ record' \in AbuseRecord
    BY <1>a, <1>2, <1>8, OlderType DEF Tick, RateTypeOK, AbuseRecord
  <2>3. grants' \in [Limiter -> Seq(0..Window)]
    BY <1>a, <1>2, <1>8, OlderSeq DEF Tick, RateTypeOK
  <2>4. refusals' \in Seq(0..(ViolationWindow + 1))
    BY <1>a, <1>2, <1>8, OlderSeq DEF Tick, RateTypeOK
  <2>5. RateTypeOK'
    BY <1>2, <1>8, <2>1, <2>2, <2>3, <2>4 DEF Tick, RateTypeOK
  <2>6. Unused'
    <3> SUFFICES ASSUME limiter' = Absent, NEW k \in Limiter
                 PROVE  grants'[k] = <<>> /\ \A h \in Strand : pc'[h] # <<"allow", k>>
      BY DEF Unused
    <3>1. limiter = Absent
      <4> SUFFICES ASSUME limiter # Absent PROVE FALSE
        OBVIOUS
      <4>1. limiter' \in LimiterState
        <5>1. limiter \in LimiterState
          BY <1>2 DEF RateTypeOK
        <5>2. limiter' = [m \in Limiter |-> [limiter[m] EXCEPT !.age = Older(@, Window)]]
          BY <1>8 DEF Tick
        <5> QED BY <1>a, <5>1, <5>2, OlderType DEF LimiterState
      <4> QED BY <4>1
    <3>2. grants[k] = <<>> /\ grants[k] \in Seq(0..Window)
      BY <1>2, <3>1 DEF Unused, RateTypeOK
    <3>3. grants'[k] = [i \in DOMAIN grants[k] |-> Older(grants[k][i], Window)]
      BY <1>8 DEF Tick
    <3>4. grants'[k] \in Seq(0..Window) /\ Len(grants'[k]) = 0
      BY <1>a, <3>2, <3>3, OlderSeq
    <3>5. grants'[k] = <<>>
      BY <3>4
    <3> QED BY <1>2, <1>8, <3>1, <3>5 DEF Tick, Unused
  <2> QED BY <2>5, <2>6
<1>9. CASE UNCHANGED rateVars
  BY <1>2, <1>9 DEF RateTypeOK, rateVars, Unused
<1> QED BY <1>2, <1>3, <1>4, <1>5, <1>6, <1>7, <1>8, <1>9 DEF RateNext, Handle

(* The phases of a handler differ. *)
LEMMA RatePhases ==
    /\ Idle # Refused
    /\ \A k \in Limiter : /\ <<"allow", k>> # Idle /\ <<"allow", k>> # Refused
                          /\ <<"call", k>> # Idle /\ <<"call", k>> # Refused
                          /\ \A m \in Limiter : <<"call", m>> # <<"allow", k>>
                          /\ \A m \in Limiter : m # k => <<"allow", m>> # <<"allow", k>>
    /\ "join" \in Limiter /\ "command" \in Limiter
BY DEF Idle, Refused, Limiter

(* is_abuser and track_abuse move nobody in or out of an allow(). *)
LEMMA InsideStays ==
    ASSUME RateTypeOK, NEW h \in Strand,
           \/ IsAbuser(h) \/ TrackAbuse(h)
    PROVE  /\ limiter' = limiter /\ seen' = seen /\ grants' = grants /\ overlap' = overlap
           /\ \A g \in Strand, k \in Limiter : pc'[g] = <<"allow", k>> => pc[g] = <<"allow", k>>
BY RatePhases DEF IsAbuser, TrackAbuse, GoesTo, RateTypeOK

(* Overlapping is kept: whoever reads marks itself and all that are        *)
(* inside.                                                                 *)
LEMMA OverlappingKept ==
    ASSUME RateTypeOK, Overlapping, [RateNext]_rateVars
    PROVE  Overlapping'
<1>1. ASSUME NEW h \in Strand, IsAbuser(h) \/ TrackAbuse(h)
      PROVE  Overlapping'
  BY <1>1, InsideStays DEF Overlapping
<1>2. ASSUME NEW h \in Strand, NEW k \in Limiter, AllowReads(h, k)
      PROVE  Overlapping'
  <2> SUFFICES ASSUME NEW m \in Limiter, NEW f \in Strand, NEW g \in Strand, f # g,
                      pc'[f] = <<"allow", m>>, pc'[g] = <<"allow", m>>
               PROVE  g \in overlap'
    BY DEF Overlapping
  <2> DEFINE inside == {g1 \in Strand \ {h} : pc[g1] = <<"allow", k>>}
  <2>1. pc'[h] = <<"allow", k>> /\ \A g1 \in Strand \ {h} : pc'[g1] = pc[g1]
    BY <1>2 DEF AllowReads, GoesTo, RateTypeOK
  <2>2. overlap' = IF inside = {} THEN overlap ELSE overlap \cup inside \cup {h}
    BY <1>2 DEF AllowReads
  <2>3. CASE f # h /\ g # h
    BY <2>1, <2>2, <2>3 DEF Overlapping
  <2>4. CASE f = h
    <3>1. m = k /\ g \in inside
      BY <2>1, <2>4, RatePhases
    <3> QED BY <2>2, <3>1
  <2>5. CASE g = h
    <3>1. m = k /\ f \in inside
      BY <2>1, <2>5, RatePhases
    <3> QED BY <2>2, <2>5, <3>1
  <2> QED BY <2>3, <2>4, <2>5
<1>3. ASSUME NEW h \in Strand, NEW k \in Limiter,
             AllowGrants(h, k) \/ AllowRefuses(h, k)
      PROVE  Overlapping'
  <2>1. overlap' = overlap \ {h}
    BY <1>3 DEF AllowGrants, AllowRefuses, AllowReturns
  <2>2. /\ \A m \in Limiter : pc'[h] # <<"allow", m>>
        /\ \A g \in Strand \ {h} : pc'[g] = pc[g]
    <3>1. CASE AllowGrants(h, k)
      BY <3>1, RatePhases DEF AllowGrants, GoesTo, RateTypeOK
    <3>2. CASE AllowRefuses(h, k)
      BY <3>2, RatePhases DEF AllowRefuses, GoesTo, RateTypeOK
    <3> QED BY <1>3, <3>1, <3>2
  <2> QED BY <2>1, <2>2 DEF Overlapping
<1>4. CASE Tick \/ UNCHANGED rateVars
  BY <1>4 DEF Overlapping, Tick, rateVars
<1> QED BY <1>1, <1>2, <1>3, <1>4 DEF RateNext, Handle

(* A grant in the current window, a new window, and a tick, as seen from   *)
(* the history.                                                            *)
LEMMA BehindPushed ==
    ASSUME NEW q \in Seq(0..Window), NEW b \in Nat \ {0},
           NEW n \in Nat, NEW max \in Nat, NEW age \in 0..Window, Behind(q, n, max, age)
    PROVE  Behind(Latest(<<0>> \o q, b), n + 1, max, age)
<1>1. 0 \in 0..Window
  OBVIOUS
<1> DEFINE S == 0..Window
           r == Latest(<<0>> \o q, b)
<1>a. q \in Seq(S) /\ 0 \in S
  BY <1>1
<1> HIDE DEF S
<1>2. /\ r \in Seq(S)
      /\ Len(r) = IF Len(q) + 1 > b THEN b ELSE Len(q) + 1
      /\ \A i \in 1..Len(r) : i > 1 => r[i] = q[i - 1]
  BY <1>a, LatestOf, ZenonT(30)
<1>3. SUFFICES ASSUME NEW i \in 1..Len(r), i > n + 1
               PROVE  r[i] >= age /\ (i > n + 1 + max => r[i] = Window)
  BY <1>2 DEF Behind
<1> HIDE DEF r
<1>4. /\ Len(q) \in Nat /\ Len(r) \in Nat /\ Len(r) <= Len(q) + 1
      /\ i \in Nat /\ i <= Len(r) /\ i > 1
  <2>1. Len(q) \in Nat
    OBVIOUS
  <2>2. Len(r) \in Nat /\ Len(r) <= Len(q) + 1
    BY <1>2, <2>1
  <2> QED BY <1>3, <2>1, <2>2
<1>5. i - 1 \in 1..Len(q) /\ i - 1 > n /\ r[i] = q[i - 1]
  <2>1. i - 1 \in 1..Len(q) /\ i - 1 > n
    BY <1>3, <1>4
  <2>2. r[i] = q[i - 1]
    BY <1>2, <1>4
  <2> QED BY <2>1, <2>2
<1>6. i > n + 1 + max => i - 1 > n + max
  BY <1>3
<1> QED BY <1>5, <1>6 DEF Behind

LEMMA BehindRenewed ==
    ASSUME NEW q \in Seq(0..Window), NEW n \in Nat, NEW max \in Nat, n <= max,
           Behind(q, n, max, Window)
    PROVE  Behind(q, 0, max, 0)
<1>1. \A i \in 1..Len(q) : i \in Nat /\ q[i] \in 0..Window
  OBVIOUS
<1> QED BY <1>1 DEF Behind

LEMMA BehindOlder ==
    ASSUME NEW q \in Seq(0..Window), NEW n \in Nat, NEW max \in Nat,
           NEW age \in 0..Window, Behind(q, n, max, age),
           NEW r, r = [i \in DOMAIN q |-> Older(q[i], Window)]
    PROVE  Behind(r, n, max, Older(age, Window))
<1>1. Len(r) = Len(q) /\ \A i \in 1..Len(q) : r[i] = Older(q[i], Window) /\ q[i] \in 0..Window
  BY OlderSeq
<1> QED BY <1>1, OlderOrder DEF Behind, Older

(* Every window still holds: a reader takes over the count or starts a     *)
(* window with none, a grant that overlaps no other adds one to both       *)
(* sides, and no other strand has read a count by then.                    *)
LEMMA WindowsKept ==
    ASSUME RateTypes, RateTypes', Overlapping, EveryWindowHolds,
           [RateNext]_rateVars
    PROVE  EveryWindowHolds'
<1> USE DEF RateTypes
<1>0. /\ \A m \in Limiter : Max[m] \in Nat \ {0} /\ grants[m] \in Seq(0..Window)
      /\ Window \in Nat \ {0} /\ seen \in [Strand -> Nat]
      /\ \A m \in Limiter : grants'[m] \in Seq(0..Window)
  BY DEF RateTypeOK
<1>1. ASSUME NEW h \in Strand, IsAbuser(h) \/ TrackAbuse(h)
      PROVE  EveryWindowHolds'
  BY <1>1, InsideStays DEF EveryWindowHolds, WindowHolds
<1>2. ASSUME NEW h \in Strand, NEW k \in Limiter, AllowReads(h, k)
      PROVE  EveryWindowHolds'
  <2> SUFFICES ASSUME NEW m \in Limiter
               PROVE  \E n \in 0..Max[m] : WindowHolds(m, n)'
    BY DEF EveryWindowHolds
  <2>1. /\ limiter' = [Limits EXCEPT ![k] = Current(Limits[k])]
        /\ limiter' \in LimiterState /\ Limits \in LimiterState
        /\ seen' = [seen EXCEPT ![h] = limiter'[k].count]
        /\ grants' = grants
        /\ \A g \in Strand : g # h => pc'[g] = pc[g]
        /\ pc'[h] = <<"allow", k>>
    <3>1. limiter' \in LimiterState
      BY <1>2, WindowTypes DEF AllowReads, LimiterState
    <3> QED BY <1>2, <3>1, WindowTypes DEF AllowReads, GoesTo, RateTypeOK
  <2>2. limiter'[m] = IF m = k THEN Current(Limits[k]) ELSE Limits[m]
    BY <2>1 DEF LimiterState
  <2>3. \A g \in Strand : seen'[g] = IF g = h THEN limiter'[k].count ELSE seen[g]
    BY <1>0, <2>1
  <2>4. \A x \in Limiter : Limits[x].age \in 0..Window /\ Limits[x].count \in Nat
    BY <2>1 DEF LimiterState
  <2>5. CASE limiter = Absent
    <3>1. grants'[m] = <<>> /\ \A g \in Strand : pc[g] # <<"allow", m>>
      BY <2>1, <2>5 DEF Unused
    <3>2. limiter'[m].count = 0
      BY <2>2, <2>4, <2>5 DEF Limits, Current
    <3>3. \A g \in Strand : pc'[g] = <<"allow", m>> => g = h /\ m = k
      BY <2>1, <3>1, RatePhases
    <3>4. \A g \in Strand : pc'[g] = <<"allow", m>> => seen'[g] = 0
      BY <2>2, <2>3, <3>2, <3>3
    <3>5. Behind(grants'[m], 0, Max[m], limiter'[m].age)
      BY <3>1 DEF Behind
    <3>6. WindowHolds(m, 0)'
      BY <3>2, <3>4, <3>5 DEF WindowHolds
    <3>7. 0 \in 0..Max[m]
      BY <1>0
    <3> WITNESS 0 \in 0..Max[m]
    <3> QED BY <3>6
  <2>6. CASE limiter # Absent
    <3>1. PICK n \in 0..Max[m] : WindowHolds(m, n)
      BY <2>6 DEF EveryWindowHolds
    <3>2. Limits = limiter
      BY <2>6 DEF Limits
    <3>3. CASE m = k /\ limiter[k].age >= Window
      <4>1. limiter'[m].count = 0 /\ limiter'[m].age = 0
        BY <2>2, <3>2, <3>3 DEF Current
      <4>2. Behind(grants[m], n, Max[m], Window)
        <5>1. limiter[m].age = Window
          BY <2>4, <3>2, <3>3, <1>0
        <5> QED BY <3>1, <5>1 DEF WindowHolds
      <4>3. Behind(grants'[m], 0, Max[m], 0)
        BY <1>0, <2>1, <4>2, BehindRenewed
      <4>4. \A g \in Strand : seen'[g] \in Nat
        BY <1>0, <2>3, <3>3, <4>1
      <4>5. WindowHolds(m, 0)'
        BY <4>1, <4>3, <4>4 DEF WindowHolds
      <4>6. 0 \in 0..Max[m]
        BY <1>0
      <4> WITNESS 0 \in 0..Max[m]
      <4> QED BY <4>5
    <3>4. CASE ~(m = k /\ limiter[k].age >= Window)
      <4>1. limiter'[m] = limiter[m]
        BY <2>2, <3>2, <3>4 DEF Current
      <4>2. \A g \in Strand : pc'[g] = <<"allow", m>> => n <= seen'[g]
        BY <2>1, <2>3, <3>1, <4>1, RatePhases DEF WindowHolds
      <4> QED BY <2>1, <3>1, <4>1, <4>2 DEF WindowHolds
    <3> QED BY <3>3, <3>4
  <2> QED BY <2>5, <2>6
<1>3. ASSUME NEW h \in Strand, NEW k \in Limiter, AllowGrants(h, k)
      PROVE  EveryWindowHolds'
  <2> SUFFICES ASSUME NEW m \in Limiter
               PROVE  \E n \in 0..Max[m] : WindowHolds(m, n)'
    BY DEF EveryWindowHolds
  <2>1. limiter # Absent /\ limiter \in LimiterState
    BY <1>3 DEF Unused, AllowGrants, RateTypeOK
  <2>2. PICK n \in 0..Max[m] : WindowHolds(m, n)
    BY <2>1 DEF EveryWindowHolds
  <2>3. /\ limiter' = [limiter EXCEPT ![k].count = seen[h] + 1]
        /\ pc[h] = <<"allow", k>> /\ seen[h] < Max[k]
        /\ \A x \in Limiter : pc'[h] # <<"allow", x>>
        /\ \A g \in Strand : g # h => pc'[g] = pc[g] /\ seen'[g] = seen[g]
    <3>1. limiter' = [limiter EXCEPT ![k].count = seen[h] + 1]
          /\ pc[h] = <<"allow", k>> /\ seen[h] < Max[k]
      BY <1>3 DEF AllowGrants
    <3>2. pc'[h] = Idle \/ pc'[h] = <<"call", "join">>
      BY <1>3 DEF AllowGrants, GoesTo, RateTypeOK
    <3>3. \A g \in Strand : g # h => pc'[g] = pc[g] /\ seen'[g] = seen[g]
      BY <1>3 DEF AllowGrants, AllowReturns, GoesTo, RateTypeOK
    <3> QED BY <3>1, <3>2, <3>3, RatePhases
  <2>4. limiter'[m].age = limiter[m].age /\ limiter[m].age \in 0..Window
    BY <2>1, <2>3 DEF LimiterState
  <2>5. limiter'[m].count = IF m = k THEN seen[h] + 1 ELSE limiter[m].count
    BY <2>1, <2>3 DEF LimiterState
  <2>6. CASE m # k \/ h \in overlap
    <3>1. grants'[m] = grants[m]
      BY <1>3, <2>6 DEF AllowGrants, RateTypeOK
    <3>2. n <= limiter'[m].count
      <4>1. n \in Nat /\ seen[h] \in Nat /\ n <= limiter[m].count
            /\ (m = k => n <= seen[h])
        BY <1>0, <2>2, <2>3 DEF WindowHolds
      <4> QED BY <2>5, <4>1
    <3> QED BY <2>2, <2>3, <2>4, <3>1, <3>2 DEF WindowHolds
  <2>7. CASE m = k /\ h \notin overlap
    <3> DEFINE bound == 2 * Max[m] + 1
    <3>1. grants'[m] = Latest(<<0>> \o grants[m], bound)
      BY <1>3, <2>7 DEF AllowGrants, RateTypeOK
    <3>2. bound \in Nat \ {0} /\ 0 \in 0..Window
      BY <1>0
    <3>3. Behind(grants'[m], n + 1, Max[m], limiter'[m].age)
      <4>1. Behind(grants[m], n, Max[m], limiter[m].age) /\ n \in Nat /\ Max[m] \in Nat
        BY <1>0, <2>2 DEF WindowHolds
      <4> HIDE DEF bound
      <4> QED BY <1>0, <2>4, <3>1, <3>2, <4>1, BehindPushed
    <3>4. \A g \in Strand : pc'[g] # <<"allow", m>>
      BY <2>3, <2>7 DEF Overlapping
    <3>5. n + 1 \in 0..Max[m] /\ n + 1 <= limiter'[m].count
      <4>1. n \in Nat /\ seen[h] \in Nat /\ n <= seen[h] /\ Max[m] \in Nat /\ seen[h] < Max[m]
        BY <1>0, <2>2, <2>3, <2>7 DEF WindowHolds
      <4> QED BY <2>5, <2>7, <4>1
    <3>6. WindowHolds(m, n + 1)'
      BY <3>3, <3>4, <3>5 DEF WindowHolds
    <3> QED BY <3>5, <3>6
  <2> QED BY <2>6, <2>7
<1>4. ASSUME NEW h \in Strand, NEW k \in Limiter, AllowRefuses(h, k)
      PROVE  EveryWindowHolds'
  <2>1. limiter' = limiter /\ grants' = grants
    BY <1>4 DEF AllowRefuses
  <2>2. /\ \A m \in Limiter : pc'[h] # <<"allow", m>>
        /\ \A g \in Strand : g # h => pc'[g] = pc[g] /\ seen'[g] = seen[g]
    BY <1>4, RatePhases DEF AllowRefuses, AllowReturns, GoesTo, RateTypeOK
  <2> QED BY <2>1, <2>2 DEF EveryWindowHolds, WindowHolds
<1>5. CASE Tick
  <2> SUFFICES ASSUME limiter' # Absent, NEW m \in Limiter
               PROVE  \E n \in 0..Max[m] : WindowHolds(m, n)'
    BY DEF EveryWindowHolds
  <2>1. limiter # Absent /\ limiter \in LimiterState
    BY <1>5 DEF Tick, RateTypeOK
  <2>2. PICK n \in 0..Max[m] : WindowHolds(m, n)
    BY <2>1 DEF EveryWindowHolds
  <2>3. limiter' = [x \in Limiter |-> [limiter[x] EXCEPT !.age = Older(@, Window)]]
    BY <1>5, <2>1 DEF Tick
  <2>4. /\ limiter[m].age \in 0..Window
        /\ limiter'[m].age = Older(limiter[m].age, Window)
        /\ limiter'[m].count = limiter[m].count
    BY <2>1, <2>3 DEF LimiterState
  <2>5. grants'[m] = [i \in DOMAIN grants[m] |-> Older(grants[m][i], Window)]
        /\ pc' = pc /\ seen' = seen
    BY <1>5 DEF Tick
  <2>6. Behind(grants[m], n, Max[m], limiter[m].age) /\ n \in Nat /\ Max[m] \in Nat
    BY <1>0, <2>2 DEF WindowHolds
  <2>7. Behind(grants'[m], n, Max[m], limiter'[m].age)
    BY <1>0, <2>4, <2>5, <2>6, BehindOlder
  <2>8. WindowHolds(m, n)'
    BY <2>2, <2>4, <2>5, <2>7 DEF WindowHolds
  <2> QED BY <2>8
<1>6. CASE UNCHANGED rateVars
  BY <1>6 DEF rateVars, EveryWindowHolds, WindowHolds
<1> QED BY <1>1, <1>2, <1>3, <1>4, <1>5, <1>6 DEF RateNext, Handle

(* What track_abuse leaves behind. *)
LEMMA AbuseTracked ==
    ASSUME RateTypes, Recorded, NEW h \in Strand, TrackAbuse(h)
    PROVE  /\ record' \in AbuseRecord /\ record' # Absent
           /\ record'.violations = Older(Counting.violations, MaxViolations)
           /\ record'.first = Counting.first
           /\ record'.banned <=> (Counting.banned \/ record'.violations >= MaxViolations)
           /\ Len(refusals') = IF Len(refusals) + 1 > MaxViolations
                               THEN MaxViolations ELSE Len(refusals) + 1
           /\ \A i \in 1..Len(refusals') :
                 i <= Counting.violations + 1 => refusals'[i] <= Counting.first
           /\ Counting.violations <= Len(refusals)
           /\ Counting.violations \in 0..MaxViolations /\ Counting.first \in 0..ViolationWindow
           /\ Counting.banned => Banned
<1> DEFINE n == Older(Counting.violations, MaxViolations)
           b == Counting.banned \/ n >= MaxViolations
<1>1. /\ Counting \in AbuseRecord /\ Counting.first <= ViolationWindow
      /\ Counting.violations > 0 => record # Absent /\ Counting = record
      /\ Counting.banned => Banned
  BY CountingType DEF RateTypes
<1>2. /\ n \in 0..MaxViolations /\ b \in BOOLEAN
      /\ Counting.violations \in 0..MaxViolations /\ Counting.first \in 0..ViolationWindow
      /\ 0 \in 0..(BanDuration + 1) /\ Counting.first \in 0..(ViolationWindow + 1)
  BY <1>1, OlderType DEF AbuseRecord
<1>3. record' = [Counting EXCEPT !.violations = n, !.last = 0, !.banned = b]
  BY DEF TrackAbuse
<1>4. record' = [violations |-> n, first |-> Counting.first, last |-> 0, banned |-> b]
  <2> HIDE DEF n, b
  <2> QED BY <1>1, <1>3 DEF AbuseRecord
<1>5. record' \in AbuseRecord /\ record' # Absent
  <2>1. record' \in AbuseRecord
    <3> HIDE DEF n, b
    <3> QED BY <1>2, <1>4 DEF AbuseRecord
  <2> QED BY <2>1
<1>6. record'.violations = n /\ record'.first = Counting.first /\ record'.banned = b
  <2> HIDE DEF n, b
  <2> QED BY <1>4
<1>7. /\ refusals \in Seq(0..(ViolationWindow + 1)) /\ 0 \in 0..(ViolationWindow + 1)
      /\ Len(refusals) \in Nat /\ \A i \in 1..Len(refusals) : refusals[i] \in Nat
  BY DEF RateTypes, RateTypeOK
<1>8. /\ Len(refusals') = IF Len(refusals) + 1 > MaxViolations
                          THEN MaxViolations ELSE Len(refusals) + 1
      /\ refusals'[1] = 0
      /\ \A i \in 1..Len(refusals') : i > 1 => refusals'[i] = refusals[i - 1]
  <2> DEFINE r == Latest(<<0>> \o refusals, MaxViolations)
  <2>1. refusals' = r /\ MaxViolations \in Nat \ {0}
    BY DEF TrackAbuse
  <2>2. /\ Len(r) = IF Len(refusals) + 1 > MaxViolations
                    THEN MaxViolations ELSE Len(refusals) + 1
        /\ r[1] = 0
        /\ \A i \in 1..Len(r) : i > 1 => r[i] = refusals[i - 1]
    BY <1>7, <2>1, LatestOf, ZenonT(30)
  <2> HIDE DEF r
  <2> QED BY <2>1, <2>2
<1>9. Counting.violations <= Len(refusals)
  BY <1>1, <1>2, <1>7 DEF Recorded
<1>10. \A i \in 1..Len(refusals') :
          i <= Counting.violations + 1 => refusals'[i] <= Counting.first
  <2> SUFFICES ASSUME NEW i \in 1..Len(refusals'), i <= Counting.violations + 1
               PROVE  refusals'[i] <= Counting.first
    OBVIOUS
  <2>1. CASE i = 1
    BY <1>2, <1>8, <2>1
  <2>2. CASE i > 1
    <3>1. i - 1 \in 1..Counting.violations /\ Counting.violations > 0
      BY <1>2, <2>2
    <3>2. record # Absent /\ Counting = record /\ refusals[i - 1] <= record.first
      BY <1>1, <3>1 DEF Recorded
    <3> QED BY <1>8, <2>2, <3>2
  <2>3. i \in Nat /\ i >= 1
    OBVIOUS
  <2> QED BY <2>1, <2>2, <2>3
<1> HIDE DEF n, b
<1>11. record'.banned <=> (Counting.banned \/ record'.violations >= MaxViolations)
  BY <1>6 DEF b
<1> QED BY <1>1, <1>2, <1>5, <1>6, <1>8, <1>9, <1>10, <1>11 DEF n

(* The record keeps to the latest refusals. *)
LEMMA RecordedKept ==
    ASSUME RateTypes, Recorded, [RateNext]_rateVars
    PROVE  Recorded'
<1>0. MaxViolations \in Nat /\ ViolationWindow + 1 \in Nat /\ ViolationWindow \in Nat
      /\ refusals \in Seq(0..(ViolationWindow + 1)) /\ Len(refusals) \in Nat
  BY DEF RateTypes, RateTypeOK
<1>1. ASSUME NEW h \in Strand, IsAbuser(h)
      PROVE  Recorded'
  BY <1>1 DEF IsAbuser, Recorded
<1>2. ASSUME NEW h \in Strand, TrackAbuse(h)
      PROVE  Recorded'
  <2>1. /\ record'.violations \in 0..MaxViolations
        /\ record'.violations <= Counting.violations + 1
    BY <1>0, <1>2, AbuseTracked DEF Older
  <2>2. Len(refusals') <= MaxViolations /\ record'.violations <= Len(refusals')
    BY <1>0, <1>2, <2>1, AbuseTracked
  <2>3. Len(refusals') \in Nat
    BY <1>0, <1>2, AbuseTracked
  <2>4. \A i \in 1..record'.violations : refusals'[i] <= record'.first
    <3> SUFFICES ASSUME NEW i \in 1..record'.violations
                 PROVE  refusals'[i] <= record'.first
      OBVIOUS
    <3>1. Counting.violations \in Nat
      BY <1>2, AbuseTracked
    <3>2. i \in 1..Len(refusals') /\ i <= Counting.violations + 1
      BY <2>1, <2>2, <2>3, <3>1
    <3> QED BY <1>2, <3>2, AbuseTracked
  <2> QED BY <2>2, <2>4 DEF Recorded
<1>3. ASSUME NEW h \in Strand, NEW k \in Limiter,
             AllowReads(h, k) \/ AllowGrants(h, k) \/ AllowRefuses(h, k)
      PROVE  Recorded'
  BY <1>3 DEF AllowReads, AllowGrants, AllowRefuses, Recorded
<1>4. CASE Tick
  <2>1. Len(refusals') = Len(refusals)
        /\ \A i \in 1..Len(refusals) : /\ refusals'[i] = Older(refusals[i], ViolationWindow + 1)
                                       /\ refusals[i] \in 0..(ViolationWindow + 1)
    BY <1>0, <1>4, OlderSeq DEF Tick
  <2>2. CASE record = Absent
    BY <1>4, <2>1, <2>2 DEF Tick, Recorded
  <2>3. CASE record # Absent
    <3>1. record \in AbuseRecord
      BY <2>3 DEF RateTypes, RateTypeOK
    <3>2. /\ record' = [record EXCEPT !.first = Older(@, ViolationWindow + 1),
                                      !.last = Older(@, BanDuration + 1)]
      BY <1>4, <2>3 DEF Tick
    <3>3. /\ record'.violations = record.violations
          /\ record'.first = Older(record.first, ViolationWindow + 1)
          /\ record.first \in 0..(ViolationWindow + 1) /\ record.violations \in Nat
      BY <3>1, <3>2 DEF AbuseRecord
    <3>4. record.violations <= Len(refusals)
          /\ \A i \in 1..record.violations : refusals[i] <= record.first
      BY <2>3 DEF Recorded
    <3>5. \A i \in 1..record.violations : refusals'[i] <= record'.first
      <4> SUFFICES ASSUME NEW i \in 1..record.violations
                   PROVE  refusals'[i] <= record'.first
        OBVIOUS
      <4>1. i \in 1..Len(refusals)
        BY <1>0, <3>3, <3>4
      <4> QED BY <1>0, <2>1, <3>3, <3>4, <4>1, OlderOrder
    <3> QED BY <2>1, <3>3, <3>4, <3>5 DEF Recorded
  <2> QED BY <2>2, <2>3
<1>5. CASE UNCHANGED rateVars
  BY <1>5 DEF rateVars, Recorded
<1> QED BY <1>1, <1>2, <1>3, <1>4, <1>5 DEF RateNext, Handle

(* A ban begins or ends in track_abuse and is_abuser only. *)
LEMMA BannedKept ==
    ASSUME RateTypes,
           \/ Tick \/ UNCHANGED rateVars
           \/ \E h \in Strand, k \in Limiter :
                 AllowReads(h, k) \/ AllowGrants(h, k) \/ AllowRefuses(h, k)
    PROVE  Banned' = Banned
<1>1. CASE Tick
  <2>1. CASE record = Absent
    BY <1>1, <2>1 DEF Tick, Banned
  <2>2. CASE record # Absent
    <3>1. record \in AbuseRecord
      BY <2>2 DEF RateTypes, RateTypeOK
    <3>2. record' = [record EXCEPT !.first = Older(@, ViolationWindow + 1),
                                   !.last = Older(@, BanDuration + 1)]
      BY <1>1, <2>2 DEF Tick
    <3>3. record'.banned = record.banned
      BY <3>1, <3>2 DEF AbuseRecord
    <3>4. record' # Absent
      <4>1. Older(record.first, ViolationWindow + 1) \in 0..(ViolationWindow + 1)
            /\ Older(record.last, BanDuration + 1) \in 0..(BanDuration + 1)
        BY <3>1, OlderType DEF AbuseRecord
      <4>2. record' \in AbuseRecord
        BY <3>1, <3>2, <4>1 DEF AbuseRecord
      <4> QED BY <4>2
    <3> QED BY <2>2, <3>3, <3>4 DEF Banned
  <2> QED BY <2>1, <2>2
<1>2. CASE ~Tick
  BY <1>2 DEF Banned, rateVars, AllowReads, AllowGrants, AllowRefuses
<1> QED BY <1>1, <1>2

(* The step that begins a ban. *)
LEMMA PassedBeforeKept ==
    ASSUME RateTypes, Recorded, PassedBefore, [RateNext]_rateVars
    PROVE  PassedBefore'
<1>0. pc \in [Strand -> Phase]
  BY DEF RateTypes, RateTypeOK
<1>1. ASSUME NEW h \in Strand, IsAbuser(h)
      PROVE  PassedBefore'
  <2>1. CASE Banned /\ record.last <= BanDuration
    BY <1>1, <2>1 DEF IsAbuser, PassedBefore, Banned
  <2>2. CASE ~(Banned /\ record.last <= BanDuration)
    <3>1. ~Banned'
      BY <1>1, <2>2 DEF IsAbuser, Banned
    <3> QED BY <3>1 DEF PassedBefore
  <2> QED BY <2>1, <2>2
<1>2. ASSUME NEW h \in Strand, TrackAbuse(h)
      PROVE  PassedBefore'
  <2>1. pc'[h] = Idle /\ \A g \in Strand \ {h} : pc'[g] = pc[g]
    BY <1>0, <1>2 DEF TrackAbuse, GoesTo
  <2>2. record' # Absent
    BY <1>2, AbuseTracked
  <2>3. late' = (IF ~Banned /\ record'.banned
                 THEN {g \in Strand : pc[g] # Idle} ELSE late) \ {h}
    BY <1>2 DEF TrackAbuse
  <2> QED BY <2>1, <2>2, <2>3 DEF PassedBefore, Banned
<1>3. ASSUME NEW h \in Strand, NEW k \in Limiter, AllowReads(h, k)
      PROVE  PassedBefore'
  <2>1. \A g \in Strand : pc'[g] # Idle => pc[g] # Idle
    BY <1>0, <1>3, RatePhases DEF AllowReads, GoesTo
  <2> QED BY <1>3, <2>1, BannedKept DEF AllowReads, PassedBefore
<1>4. ASSUME NEW h \in Strand, NEW k \in Limiter, AllowGrants(h, k)
      PROVE  PassedBefore'
  <2>1. pc[h] # Idle /\ \A g \in Strand \ {h} : pc'[g] = pc[g]
    BY <1>0, <1>4, RatePhases DEF AllowGrants, GoesTo
  <2>2. late' = IF pc'[h] = Idle THEN late \ {h} ELSE late
    BY <1>4 DEF AllowGrants
  <2> QED BY <1>4, <2>1, <2>2, BannedKept DEF PassedBefore
<1>5. ASSUME NEW h \in Strand, NEW k \in Limiter, AllowRefuses(h, k)
      PROVE  PassedBefore'
  <2>1. \A g \in Strand : pc'[g] # Idle => pc[g] # Idle
    BY <1>0, <1>5, RatePhases DEF AllowRefuses, GoesTo
  <2> QED BY <1>5, <2>1, BannedKept DEF AllowRefuses, PassedBefore
<1>6. CASE Tick \/ UNCHANGED rateVars
  BY <1>6, BannedKept DEF PassedBefore, Tick, rateVars
<1> QED BY <1>1, <1>2, <1>3, <1>4, <1>5, <1>6 DEF RateNext, Handle

(* The step that begins a ban. *)
LEMMA StepEarned ==
    ASSUME RateTypes, Recorded, [RateNext]_rateVars,
           ~Banned, Banned'
    PROVE  Len(refusals') = MaxViolations /\ refusals'[MaxViolations] <= ViolationWindow
<1>1. PICK h \in Strand : TrackAbuse(h)
  <2>1. ASSUME NEW h \in Strand PROVE ~IsAbuser(h)
    BY DEF IsAbuser, Banned
  <2> QED BY <2>1, BannedKept DEF RateNext, Handle
<1>2. MaxViolations \in Nat \ {0} /\ Len(refusals) \in Nat /\ ViolationWindow \in Nat
      /\ refusals' \in Seq(0..(ViolationWindow + 1))
  <2>1. /\ refusals \in Seq(0..(ViolationWindow + 1)) /\ 0 \in 0..(ViolationWindow + 1)
        /\ MaxViolations \in Nat \ {0}
    BY DEF RateTypes, RateTypeOK
  <2>2. refusals' \in Seq(0..(ViolationWindow + 1))
    BY <1>1, <2>1, LatestOf, ZenonT(30) DEF TrackAbuse
  <2> QED BY <2>1, <2>2
<1>3. ~Counting.banned
  BY <1>1, AbuseTracked
<1>4. record'.violations >= MaxViolations
  BY <1>1, <1>3, AbuseTracked DEF Banned
<1>5. Counting.violations + 1 >= MaxViolations /\ Counting.violations <= Len(refusals)
      /\ Counting.violations \in Nat
  BY <1>1, <1>2, <1>4, AbuseTracked DEF Older
<1>6. Len(refusals') = MaxViolations
  BY <1>1, <1>2, <1>5, AbuseTracked
<1>7. refusals'[MaxViolations] <= Counting.first /\ Counting.first \in 0..ViolationWindow
  BY <1>1, <1>2, <1>5, <1>6, AbuseTracked
<1>8. refusals'[MaxViolations] \in 0..(ViolationWindow + 1)
  BY <1>2, <1>6
<1> QED BY <1>2, <1>6, <1>7, <1>8

(* The steps that end one. *)
LEMMA StepLasts ==
    ASSUME RateTypes, Recorded, PassedBefore, [RateNext]_rateVars,
           Banned, ~Banned'
    PROVE  \/ record.last > BanDuration
           \/ \E h \in late : pc[h] = Refused /\ pc'[h] = Idle
<1>1. \/ \E h \in Strand : TrackAbuse(h)
      \/ \E h \in Strand : IsAbuser(h)
  BY BannedKept DEF RateNext, Handle
<1>2. ASSUME NEW h \in Strand, TrackAbuse(h)
      PROVE  \E g \in late : pc[g] = Refused /\ pc'[g] = Idle
  <2>1. pc[h] = Refused /\ pc'[h] = Idle
    BY <1>2 DEF TrackAbuse, GoesTo, RateTypes, RateTypeOK
  <2>2. h \in late
    BY <2>1, RatePhases DEF PassedBefore
  <2> QED BY <2>1, <2>2
<1>3. ASSUME NEW h \in Strand, IsAbuser(h)
      PROVE  record.last > BanDuration
  <2>1. ~(Banned /\ record.last <= BanDuration)
    BY <1>3 DEF IsAbuser, Banned
  <2>2. record.last \in Int /\ BanDuration \in Int
    BY DEF Banned, RateTypes, RateTypeOK, AbuseRecord
  <2> QED BY <2>1, <2>2
<1> QED BY <1>1, <1>2, <1>3

(* The inductive invariant of the rate limits. *)
LEMMA RateInductive ==
    /\ RateInit => RateInv
    /\ RateInv /\ [RateNext]_rateVars => RateInv'
<1>1. RateInit => RateInv
  <2> SUFFICES ASSUME RateInit PROVE RateInv
    OBVIOUS
  <2>1. RateTypes
    BY RateTypesKept
  <2>2. \A g \in Strand : pc[g] = Idle
    BY DEF RateInit
  <2> QED BY <2>1, <2>2, RatePhases
      DEF RateInit, RateInv, Overlapping, EveryWindowHolds, Recorded, PassedBefore,
          Banned
<1>2. RateInv /\ [RateNext]_rateVars => RateInv'
  BY RateTypesKept, OverlappingKept, WindowsKept, RecordedKept, PassedBeforeKept DEF RateInv, RateTypes
<1> QED BY <1>1, <1>2

(* The maps, the histories and the phases have their types. *)
THEOREM RateTypeCorrect == RateSpec => []RateTypeOK
<1>1. RateInv => RateTypeOK
  BY DEF RateInv, RateTypes
<1> QED BY <1>1, RateInductive, PTL DEF RateSpec

(* No 2 * max + 1 grants of a limiter come within one window               *)
(* (RateLimiter::allow), for any tokens, any window and any number of      *)
(* sessions: n of them lie in the current window and at most max in the    *)
(* one before it, so the last of 2 * max + 1 is a window old.              *)
THEOREM GrantsStayBounded == RateSpec => []GrantsBounded
<1>1. RateInv => GrantsBounded
  <2> SUFFICES ASSUME RateInv, NEW k \in Limiter, Len(grants[k]) = 2 * Max[k] + 1
               PROVE  grants[k][2 * Max[k] + 1] = Window
    BY DEF GrantsBounded
  <2>1. Max[k] \in Nat \ {0}
    OBVIOUS
  <2>2. limiter # Absent
    <3>1. grants[k] # <<>>
      BY <2>1
    <3> QED BY <3>1 DEF RateInv, RateTypes, Unused
  <2>3. PICK n \in 0..Max[k] : WindowHolds(k, n)
    BY <2>2 DEF RateInv, EveryWindowHolds
  <2>4. 2 * Max[k] + 1 \in 1..Len(grants[k]) /\ 2 * Max[k] + 1 > n + Max[k]
    BY <2>1, <2>3
  <2> QED BY <2>3, <2>4 DEF WindowHolds, Behind
<1> QED BY <1>1, RateInductive, PTL DEF RateSpec

(* A ban is earned by kMaxViolations refusals within kViolationWindow, and *)
(* lifted early only by the refusal of a handler that had passed is_abuser *)
(* before (track_abuse, is_abuser).                                        *)
THEOREM BansAreJust == RateSpec => BansJust
<1>1. RateInv /\ [RateNext]_rateVars =>
          [~Banned /\ Banned' =>
              /\ Len(refusals') = MaxViolations
              /\ refusals'[MaxViolations] <= ViolationWindow]_rateVars
  BY StepEarned DEF RateInv
<1>2. RateInv /\ [RateNext]_rateVars =>
          [Banned /\ ~Banned' =>
              \/ record.last > BanDuration
              \/ \E h \in late : pc[h] = Refused /\ pc'[h] = Idle]_rateVars
  BY StepLasts DEF RateInv
<1> QED BY <1>1, <1>2, RateInductive, PTL DEF RateSpec, BansJust, BanEarned, BanLasts

(* What is refused during a ban does not prolong it: the age of the last   *)
(* violation falls only with the refusal of a handler that had passed      *)
(* is_abuser when the ban began, once for each of them, and no handler     *)
(* becomes one of these meanwhile.                                         *)
BansRunOut ==
    [][Banned /\ Banned' =>
          /\ late' \subseteq late
          /\ \/ record'.last >= record.last
             \/ \E h \in late \ late' : pc[h] = Refused /\ pc'[h] = Idle]_rateVars

(* ... which holds for any number of sessions that keep trying: is_abuser  *)
(* stops them before they reach the limiters.                              *)
THEOREM BansAreNotProlonged == RateSpec => BansRunOut
<1>1. ASSUME RateInv, [RateNext]_rateVars, Banned, Banned'
      PROVE  /\ late' \subseteq late
             /\ \/ record'.last >= record.last
                \/ \E h \in late \ late' : pc[h] = Refused /\ pc'[h] = Idle
  <2>0. /\ record # Absent /\ record.last \in 0..(BanDuration + 1) /\ BanDuration \in Nat
        /\ pc \in [Strand -> Phase]
    BY <1>1 DEF Banned, RateInv, RateTypes, RateTypeOK, AbuseRecord
  <2>1. CASE UNCHANGED <<record, late>>
    BY <2>0, <2>1
  <2>2. ASSUME NEW h \in Strand, IsAbuser(h)
        PROVE  UNCHANGED <<record, late>>
    BY <1>1, <2>2 DEF IsAbuser, Banned
  <2>3. ASSUME NEW h \in Strand, NEW k \in Limiter, AllowGrants(h, k)
        PROVE  late' \subseteq late /\ record' = record
    BY <2>3 DEF AllowGrants
  <2>4. ASSUME NEW h \in Strand, TrackAbuse(h)
        PROVE  /\ late' \subseteq late
               /\ h \in late \ late' /\ pc[h] = Refused /\ pc'[h] = Idle
    <3>1. pc[h] = Refused /\ pc'[h] = Idle /\ late' = late \ {h}
      BY <1>1, <2>0, <2>4 DEF TrackAbuse, GoesTo
    <3>2. h \in late
      BY <1>1, <3>1, RatePhases DEF RateInv, PassedBefore
    <3> QED BY <3>1, <3>2
  <2>5. CASE Tick
    <3>1. late' = late /\ record'.last = Older(record.last, BanDuration + 1)
      BY <2>0, <2>5 DEF Tick, RateTypes, RateTypeOK, AbuseRecord
    <3>2. Older(record.last, BanDuration + 1) >= record.last
      BY <2>0 DEF Older
    <3> QED BY <3>1, <3>2
  <2>6. ASSUME NEW h \in Strand, NEW k \in Limiter, AllowReads(h, k) \/ AllowRefuses(h, k)
        PROVE  UNCHANGED <<record, late>>
    BY <2>6 DEF AllowReads, AllowRefuses
  <2>7. record'.last >= record.last \/ record' # record
    BY <2>0
  <2>8. CASE UNCHANGED rateVars
    BY <2>1, <2>8 DEF rateVars
  <2>9. CASE \E h \in Strand : TrackAbuse(h)
    BY <2>4, <2>9
  <2>10. CASE \E h \in Strand, k \in Limiter : AllowGrants(h, k)
    BY <2>3, <2>7, <2>10
  <2>11. CASE \E h \in Strand, k \in Limiter : AllowReads(h, k) \/ AllowRefuses(h, k)
    BY <2>1, <2>6, <2>11
  <2>12. CASE \E h \in Strand : IsAbuser(h)
    BY <2>1, <2>2, <2>12
  <2> QED BY <1>1, <2>5, <2>8, <2>9, <2>10, <2>11, <2>12 DEF RateNext, Handle
<1>2. RateInv /\ [RateNext]_rateVars =>
          [Banned /\ Banned' =>
              /\ late' \subseteq late
              /\ \/ record'.last >= record.last
                 \/ \E h \in late \ late' : pc[h] = Refused /\ pc'[h] = Idle]_rateVars
  BY <1>1
<1> QED BY <1>2, RateInductive, PTL DEF RateSpec, BansRunOut
=============================================================================
