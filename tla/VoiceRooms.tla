----------------------------- MODULE VoiceRooms -----------------------------
(***************************************************************************)
(* voice/voice_room_manager.cpp: who is in which voice room, and what the  *)
(* clients are told about it.  Every operation runs under mu_ and finds    *)
(* the sessions of the users it notifies in the listener's registry.       *)
(*                                                                         *)
(* The listener takes a user off the registry first and calls              *)
(* on_disconnect after it has released its lock, so other operations, a    *)
(* new login of the same user among them, come in between.  A session that *)
(* was unregistered by a ping timeout keeps sending requests.              *)
(***************************************************************************)
EXTENDS Integers, FiniteSets

CONSTANTS
    User,
    Channel,
    None,        \* "no room"
    MaxPerRoom   \* kMaxPerRoom

ASSUME VoiceRoomsAssumption ==
    /\ None \notin Channel
    /\ MaxPerRoom \in Nat \ {0}

VARIABLES
    open,         \* the keys of rooms_
    rooms,        \* rooms_, {} where there is no key
    userRoom,     \* user_room_
    registered,   \* users for whom find_session returns a session
    connected,    \* users with an Established session, registered or not
    leaving,      \* users taken off the registry, on_disconnect still to be called
    viewRoom,     \* the room the user's client was last told it is in
    viewMembers   \* the participants the user's client knows of there

server == <<open, rooms, userRoom>>
views  == <<viewRoom, viewMembers>>
links  == <<registered, connected, leaving>>
vars   == <<open, rooms, userRoom, registered, connected, leaving, viewRoom, viewMembers>>

Init ==
    /\ open = {}
    /\ rooms = [c \in Channel |-> {}]
    /\ userRoom = [u \in User |-> None]
    /\ registered = {}
    /\ connected = {}
    /\ leaving = {}
    /\ viewRoom = [u \in User |-> None]
    /\ viewMembers = [u \in User |-> {}]

-----------------------------------------------------------------------------
(* What the rooms, their keys and the clients' views become when u is      *)
(* taken out of room c.                                                    *)
RoomsWithout(c, u) == [d \in Channel |-> IF d = c THEN rooms[d] \ {u} ELSE rooms[d]]

OpenWithout(c, u) == open \ {d \in Channel : d = c /\ rooms[d] \ {u} = {}}

(* Mutant: nobody is told that u left. *)
ViewsWithoutSilent(c, u) == viewMembers

(* VOICE_ROOM_LEAVE to the participants that remain in c. *)
ViewsWithout(c, u) ==
    [p \in User |-> IF /\ c # None /\ p \in RoomsWithout(c, u)[c]
                       /\ p \in registered /\ viewRoom[p] = c
                    THEN viewMembers[p] \ {u} ELSE viewMembers[p]]

(* The room u asks for is full once u has left its old room. *)
RoomFull(c, u) == Cardinality(RoomsWithout(userRoom[u], u)[c]) >= MaxPerRoom

(* join: u leaves the room it is in, and enters c.  The participants of c  *)
(* are told, u is sent the full list.                                      *)
Join(u, c) ==
    /\ u \in connected
    /\ ~RoomFull(c, u)
    /\ LET old  == userRoom[u]
           left == RoomsWithout(old, u)
           seen == ViewsWithout(old, u)
       IN  /\ rooms' = [left EXCEPT ![c] = @ \cup {u}]
           /\ open' = OpenWithout(old, u) \cup {c}
           /\ userRoom' = [userRoom EXCEPT ![u] = c]
           /\ viewRoom' = [p \in User |-> IF p = u /\ u \in registered THEN c ELSE viewRoom[p]]
           /\ viewMembers' =
                [p \in User |->
                    IF p = u
                    THEN IF u \in registered THEN left[c] \cup {u} ELSE seen[u]
                    ELSE IF p \in left[c] /\ p \in registered /\ viewRoom[p] = c
                    THEN seen[p] \cup {u} ELSE seen[p]]
    /\ UNCHANGED links

(* Mutant: a join that is refused forgets to take u out of user_room_. *)
JoinFullKeepsRoom(u, c) ==
    /\ u \in connected
    /\ RoomFull(c, u)
    /\ rooms' = RoomsWithout(userRoom[u], u)
    /\ open' = OpenWithout(userRoom[u], u) \cup {c}
    /\ viewMembers' = ViewsWithout(userRoom[u], u)
    /\ UNCHANGED <<userRoom, viewRoom, links>>

(* join to a full room: u has left its old room all the same, and only     *)
(* learns that the new one is full.                                        *)
JoinFull(u, c) ==
    /\ u \in connected
    /\ RoomFull(c, u)
    /\ rooms' = RoomsWithout(userRoom[u], u)
    /\ open' = OpenWithout(userRoom[u], u) \cup {c}
    /\ userRoom' = [userRoom EXCEPT ![u] = None]
    /\ viewMembers' = ViewsWithout(userRoom[u], u)
    /\ UNCHANGED <<viewRoom, links>>

(* leave: nothing happens unless u is in c. *)
Leave(u, c) ==
    /\ u \in connected
    /\ c \in open /\ u \in rooms[c]
    /\ rooms' = RoomsWithout(c, u)
    /\ open' = OpenWithout(c, u)
    /\ userRoom' = [userRoom EXCEPT ![u] = None]
    /\ viewRoom' = [viewRoom EXCEPT ![u] = IF @ = c THEN None ELSE @]
    /\ viewMembers' = ViewsWithout(c, u)
    /\ UNCHANGED links

(* Mutant: the entry of user_room_ is emptied to the empty string, not     *)
(* erased.                                                                 *)
OnDisconnectEmptyName(u) ==
    /\ u \in leaving
    /\ leaving' = leaving \ {u}
    /\ rooms' = RoomsWithout(userRoom[u], u)
    /\ open' = OpenWithout(userRoom[u], u)
    /\ userRoom' = [userRoom EXCEPT ![u] = ""]
    /\ viewMembers' = ViewsWithout(userRoom[u], u)
    /\ UNCHANGED <<viewRoom, registered, connected>>

(* on_disconnect: u is taken out of the room user_room_ names, if any. *)
OnDisconnect(u) ==
    /\ u \in leaving
    /\ leaving' = leaving \ {u}
    /\ rooms' = RoomsWithout(userRoom[u], u)
    /\ open' = OpenWithout(userRoom[u], u)
    /\ userRoom' = [userRoom EXCEPT ![u] = None]
    /\ viewMembers' = ViewsWithout(userRoom[u], u)
    /\ UNCHANGED <<viewRoom, registered, connected>>

-----------------------------------------------------------------------------
(* The listener, as far as the rooms can tell (see Connections). *)

(* A session of u is registered; it may replace another one.  Its client   *)
(* knows of no room.                                                       *)
Login(u) ==
    /\ registered' = registered \cup {u}
    /\ connected' = connected \cup {u}
    /\ viewRoom' = [viewRoom EXCEPT ![u] = None]
    /\ viewMembers' = [viewMembers EXCEPT ![u] = {}]
    /\ UNCHANGED <<server, leaving>>

(* on_session_disconnected of the registered session of u; after a ping    *)
(* timeout the session goes on.                                            *)
Unregister(u, timeout) ==
    /\ u \in registered
    /\ registered' = registered \ {u}
    /\ leaving' = leaving \cup {u}
    /\ connected' = IF timeout THEN connected ELSE connected \ {u}
    /\ UNCHANGED <<server, views>>

(* An unregistered session ends: on_session_disconnected finds no entry    *)
(* and does not call on_disconnect.                                        *)
UnregisteredEnds(u) ==
    /\ u \in connected \ registered
    /\ connected' = connected \ {u}
    /\ UNCHANGED <<server, views, registered, leaving>>

Next ==
    \E u \in User :
        \/ \E c \in Channel : Join(u, c) \/ JoinFull(u, c) \/ Leave(u, c)
        \/ OnDisconnect(u)
        \/ Login(u) \/ UnregisteredEnds(u)
        \/ \E timeout \in BOOLEAN : Unregister(u, timeout)

Spec == Init /\ [][Next]_vars

-----------------------------------------------------------------------------
(* Properties. *)

(* Every variable has its type. *)
TypeOK ==
    /\ open \in SUBSET Channel
    /\ rooms \in [Channel -> SUBSET User]
    /\ userRoom \in [User -> Channel \cup {None}]
    /\ registered \in SUBSET User
    /\ connected \in SUBSET User
    /\ leaving \in SUBSET User
    /\ viewRoom \in [User -> Channel \cup {None}]
    /\ viewMembers \in [User -> SUBSET User]

(* user_room_ and rooms_ agree after every operation, the refused join and *)
(* the on_disconnect that comes late included: a user is in one room at    *)
(* most and in the one recorded for it.                                    *)
RoomsConsistent ==
    \A u \in User, c \in Channel : u \in rooms[c] <=> userRoom[u] = c

(* rooms_ has a key exactly for the rooms with participants: join creates  *)
(* the key before it knows whether the user gets in, and three operations  *)
(* have to drop it.                                                        *)
NoEmptyRoom == open = {c \in Channel : rooms[c] # {}}

(* At most kMaxPerRoom participants, whatever rooms users come from. *)
RoomBound == \A c \in Channel : Cardinality(rooms[c]) <= MaxPerRoom

(* The bookkeeping of the rooms: both maps agree, no empty room stays, no  *)
(* room is too full.                                                       *)
RoomsSound == RoomsConsistent /\ NoEmptyRoom /\ RoomBound

(* A client that was told it is in the room the server has it in knows     *)
(* exactly the participants of that room: no JOIN, LEAVE or STATE message  *)
(* is missing on any path by which anybody enters or leaves, for as long   *)
(* as the client's session can be found.                                   *)
ViewsAgree ==
    \A u \in registered :
        userRoom[u] # None /\ viewRoom[u] = userRoom[u]
            => viewMembers[u] = rooms[userRoom[u]]
=============================================================================
