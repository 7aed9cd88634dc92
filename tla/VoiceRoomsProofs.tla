-------------------------- MODULE VoiceRoomsProofs --------------------------
(***************************************************************************)
(* Proofs about VoiceRooms for any users, channels and room size.          *)
(*                                                                         *)
(* RoomsConsistent carries the others: a room is left by the name that     *)
(* user_room_ records, so the bound, the keys and the clients' views hold  *)
(* only because that name is the one room the user is in.                  *)
(***************************************************************************)
EXTENDS VoiceRooms, FiniteSetTheorems, TLAPS

FiniteRooms == \A c \in Channel : IsFiniteSet(rooms[c])

Inv == TypeOK /\ RoomsConsistent /\ NoEmptyRoom /\ FiniteRooms /\ RoomBound /\ ViewsAgree

-----------------------------------------------------------------------------
(* The rooms without u have the type of rooms, and nothing but u is gone. *)
LEMMA RoomsWithoutType ==
    ASSUME TypeOK, NEW u \in User, NEW c \in Channel \cup {None}
    PROVE  /\ RoomsWithout(c, u) \in [Channel -> SUBSET User]
           /\ \A d \in Channel :
                 RoomsWithout(c, u)[d] = IF d = c THEN rooms[d] \ {u} ELSE rooms[d]
BY DEF TypeOK, RoomsWithout

(* Taking u out of its room leaves finite rooms within the bound. *)
LEMMA RoomsWithoutBounded ==
    ASSUME TypeOK, FiniteRooms, RoomBound,
           NEW u \in User, NEW c \in Channel \cup {None}, NEW d \in Channel
    PROVE  /\ IsFiniteSet(RoomsWithout(c, u)[d])
           /\ Cardinality(RoomsWithout(c, u)[d]) <= MaxPerRoom
<1>1. RoomsWithout(c, u)[d] = IF d = c THEN rooms[d] \ {u} ELSE rooms[d]
  BY RoomsWithoutType
<1>2. IsFiniteSet(rooms[d]) /\ Cardinality(rooms[d]) <= MaxPerRoom
  BY DEF FiniteRooms, RoomBound
<1>3. /\ IsFiniteSet(rooms[d] \ {u})
      /\ Cardinality(rooms[d] \ {u}) \in {Cardinality(rooms[d]), Cardinality(rooms[d]) - 1}
  BY <1>2, FS_RemoveElement
<1>4. Cardinality(rooms[d]) \in Nat /\ MaxPerRoom \in Nat
  BY <1>2, FS_CardinalityType, VoiceRoomsAssumption
<1>5. Cardinality(rooms[d] \ {u}) <= MaxPerRoom
  BY <1>2, <1>3, <1>4
<1> QED BY <1>1, <1>2, <1>3, <1>5

LEMMA InitInv == Init => Inv
<1> SUFFICES ASSUME Init PROVE Inv
  OBVIOUS
<1>1. TypeOK /\ RoomsConsistent /\ NoEmptyRoom /\ ViewsAgree
  BY VoiceRoomsAssumption DEF Init, TypeOK, RoomsConsistent, NoEmptyRoom, ViewsAgree
<1>2. FiniteRooms
  BY FS_EmptySet DEF Init, FiniteRooms
<1>3. RoomBound
  BY FS_EmptySet, VoiceRoomsAssumption DEF Init, RoomBound
<1> QED BY <1>1, <1>2, <1>3 DEF Inv

-----------------------------------------------------------------------------
(* Taking u out of the room user_room_ has for it keeps the invariant; the *)
(* refused join, the leave and on_disconnect all do this.                  *)
LEMMA DepartureKeepsInv ==
    ASSUME Inv, NEW u \in User,
           rooms' = RoomsWithout(userRoom[u], u),
           open' = OpenWithout(userRoom[u], u),
           userRoom' = [userRoom EXCEPT ![u] = None],
           viewMembers' = ViewsWithout(userRoom[u], u),
           viewRoom' \in [User -> Channel \cup {None}],
           \A p \in User \ {u} : viewRoom'[p] = viewRoom[p],
           registered' \in SUBSET registered,
           connected' \in SUBSET User, leaving' \in SUBSET User
    PROVE  Inv'
<1> DEFINE c == userRoom[u]
<1>c. c \in Channel \cup {None}
  BY DEF Inv, TypeOK
<1>r. /\ rooms' \in [Channel -> SUBSET User]
      /\ \A d \in Channel : rooms'[d] = IF d = c THEN rooms[d] \ {u} ELSE rooms[d]
  <2>1. TypeOK
    BY DEF Inv
  <2>2. /\ RoomsWithout(c, u) \in [Channel -> SUBSET User]
        /\ \A d \in Channel :
              RoomsWithout(c, u)[d] = IF d = c THEN rooms[d] \ {u} ELSE rooms[d]
    <3> HIDE DEF c
    <3> QED BY <1>c, <2>1, RoomsWithoutType
  <2> QED BY <2>2
<1>1. TypeOK'
  BY <1>r DEF Inv, TypeOK, OpenWithout, ViewsWithout
<1>2. RoomsConsistent'
  BY <1>r, VoiceRoomsAssumption DEF Inv, TypeOK, RoomsConsistent
<1>3. NoEmptyRoom'
  <2>1. open' = open \ {d \in Channel : d = c /\ rooms[d] \ {u} = {}}
    BY DEF OpenWithout
  <2>2. \A d \in Channel : d \in open' <=> rooms'[d] # {}
    BY <1>r, <2>1 DEF Inv, NoEmptyRoom
  <2> QED BY <1>1, <2>2 DEF NoEmptyRoom, TypeOK
<1>4. FiniteRooms' /\ RoomBound'
  BY <1>c, RoomsWithoutBounded DEF Inv, FiniteRooms, RoomBound
<1>5. ViewsAgree'
  <2> SUFFICES ASSUME NEW p \in registered', userRoom'[p] # None,
                      viewRoom'[p] = userRoom'[p]
               PROVE  viewMembers'[p] = rooms'[userRoom'[p]]
    BY DEF ViewsAgree
  <2>1. p \in User /\ p \in registered
    BY DEF Inv, TypeOK
  <2>2. p # u
    BY <2>1 DEF Inv, TypeOK
  <2>3. userRoom'[p] = userRoom[p] /\ viewRoom[p] = userRoom[p]
    BY <2>1, <2>2 DEF Inv, TypeOK
  <2>4. viewMembers[p] = rooms[userRoom[p]] /\ p \in rooms[userRoom[p]]
    BY <2>1, <2>3 DEF Inv, ViewsAgree, RoomsConsistent, TypeOK
  <2>5. viewMembers'[p] =
          IF c # None /\ p \in RoomsWithout(c, u)[c] /\ viewRoom[p] = c
          THEN viewMembers[p] \ {u} ELSE viewMembers[p]
    BY <2>1 DEF ViewsWithout
  <2>6. userRoom[p] \in Channel
    BY <2>1, <2>3 DEF Inv, TypeOK
  <2>7. CASE userRoom[p] = c
    BY <1>r, <2>2, <2>3, <2>4, <2>5, <2>6, <2>7, RoomsWithoutType, VoiceRoomsAssumption DEF Inv
  <2>8. CASE userRoom[p] # c
    BY <1>r, <2>3, <2>4, <2>5, <2>6, <2>8
  <2> QED BY <2>7, <2>8
<1> QED BY <1>1, <1>2, <1>3, <1>4, <1>5 DEF Inv

(* A join that succeeds. *)
LEMMA JoinKeepsInv ==
    ASSUME Inv, NEW u \in User, NEW c \in Channel, Join(u, c)
    PROVE  Inv'
<1> DEFINE old  == userRoom[u]
           left == RoomsWithout(old, u)
           seen == ViewsWithout(old, u)
<1>o. old \in Channel \cup {None}
  BY DEF Inv, TypeOK
<1>l. /\ left \in [Channel -> SUBSET User]
      /\ \A d \in Channel : left[d] = IF d = old THEN rooms[d] \ {u} ELSE rooms[d]
  BY <1>o, RoomsWithoutType DEF Inv
<1>r. /\ rooms' \in [Channel -> SUBSET User]
      /\ \A d \in Channel : rooms'[d] = IF d = c THEN left[d] \cup {u} ELSE left[d]
  BY <1>l DEF Join
<1>u. userRoom' = [userRoom EXCEPT ![u] = c]
  BY DEF Join
<1>s. seen \in [User -> SUBSET User]
  BY DEF Inv, TypeOK, ViewsWithout
<1>1. TypeOK'
  <2>1. open' \in SUBSET Channel
    BY DEF Join, OpenWithout, Inv, TypeOK
  <2>2. viewRoom' \in [User -> Channel \cup {None}]
    BY DEF Join, Inv, TypeOK
  <2>3. viewMembers' \in [User -> SUBSET User]
    BY <1>l, <1>s DEF Join
  <2> QED BY <1>r, <1>u, <2>1, <2>2, <2>3 DEF Join, links, Inv, TypeOK
<1>2. RoomsConsistent'
  BY <1>r, <1>l, <1>u DEF Inv, TypeOK, RoomsConsistent
<1>3. NoEmptyRoom'
  <2>1. open' = (open \ {d \in Channel : d = old /\ rooms[d] \ {u} = {}}) \cup {c}
    BY DEF Join, OpenWithout
  <2>2. \A d \in Channel : d \in open' <=> rooms'[d] # {}
    BY <1>r, <1>l, <2>1 DEF Inv, NoEmptyRoom
  <2> QED BY <1>1, <2>2 DEF NoEmptyRoom, TypeOK
<1>4. FiniteRooms' /\ RoomBound'
  <2> SUFFICES ASSUME NEW d \in Channel
               PROVE  IsFiniteSet(rooms'[d]) /\ Cardinality(rooms'[d]) <= MaxPerRoom
    BY DEF FiniteRooms, RoomBound
  <2>1. IsFiniteSet(left[d]) /\ Cardinality(left[d]) <= MaxPerRoom
    BY <1>o, RoomsWithoutBounded DEF Inv
  <2>2. CASE d # c
    BY <1>r, <2>1, <2>2
  <2>3. CASE d = c
    <3>1. Cardinality(left[d]) \in Nat /\ MaxPerRoom \in Nat
      BY <2>1, FS_CardinalityType, VoiceRoomsAssumption
    <3>2. ~(Cardinality(left[d]) >= MaxPerRoom)
      BY <2>3 DEF Join, RoomFull
    <3>3. /\ IsFiniteSet(left[d] \cup {u})
          /\ Cardinality(left[d] \cup {u}) \in {Cardinality(left[d]), Cardinality(left[d]) + 1}
      BY <2>1, FS_AddElement
    <3>4. Cardinality(left[d] \cup {u}) <= MaxPerRoom
      BY <3>1, <3>2, <3>3
    <3> QED BY <1>r, <2>3, <3>3, <3>4
  <2> QED BY <2>2, <2>3
<1>5. ViewsAgree'
  <2> SUFFICES ASSUME NEW p \in registered', userRoom'[p] # None,
                      viewRoom'[p] = userRoom'[p]
               PROVE  viewMembers'[p] = rooms'[userRoom'[p]]
    BY DEF ViewsAgree
  <2>1. p \in User /\ p \in registered
    BY DEF Join, links, Inv, TypeOK
  <2>2. CASE p = u
    <3>1. userRoom'[p] = c
      BY <1>u, <2>2 DEF Inv, TypeOK
    <3>2. viewMembers'[p] = left[c] \cup {u}
      BY <2>1, <2>2 DEF Join
    <3> QED BY <1>r, <3>1, <3>2
  <2>3. CASE p # u
    <3>1. userRoom'[p] = userRoom[p] /\ viewRoom[p] = userRoom[p]
      BY <1>u, <2>1, <2>3 DEF Join, Inv, TypeOK
    <3>2. /\ userRoom[p] \in Channel /\ p \in rooms[userRoom[p]]
          /\ viewMembers[p] = rooms[userRoom[p]]
      BY <2>1, <3>1 DEF Inv, ViewsAgree, RoomsConsistent, TypeOK
    <3>3. p \in left[userRoom[p]]
      BY <1>l, <2>3, <3>2
    <3>4. seen[p] = IF old # None /\ p \in left[old] /\ viewRoom[p] = old
                    THEN viewMembers[p] \ {u} ELSE viewMembers[p]
      BY <2>1 DEF ViewsWithout
    <3>5. viewMembers'[p] = IF p \in left[c] /\ viewRoom[p] = c
                            THEN seen[p] \cup {u} ELSE seen[p]
      BY <2>1, <2>3 DEF Join
    <3>6. seen[p] = left[userRoom[p]]
      <4>1. CASE userRoom[p] = old
        BY <4>1, <1>l, <3>1, <3>2, <3>3, <3>4, VoiceRoomsAssumption
      <4>2. CASE userRoom[p] # old
        BY <4>2, <1>l, <3>1, <3>2, <3>4
      <4> QED BY <4>1, <4>2
    <3>7. CASE userRoom[p] = c
      BY <1>r, <3>1, <3>3, <3>5, <3>6, <3>7
    <3>8. CASE userRoom[p] # c
      BY <1>r, <3>1, <3>2, <3>5, <3>6, <3>8
    <3> QED BY <3>7, <3>8
  <2> QED BY <2>2, <2>3
<1> QED BY <1>1, <1>2, <1>3, <1>4, <1>5 DEF Inv

-----------------------------------------------------------------------------
(* A full room has a key, so the key join creates for it changes nothing. *)
LEMMA JoinFullKeepsInv ==
    ASSUME Inv, NEW u \in User, NEW c \in Channel, JoinFull(u, c)
    PROVE  Inv'
<1> DEFINE left == RoomsWithout(userRoom[u], u)
<1>1. userRoom[u] \in Channel \cup {None}
  BY DEF Inv, TypeOK
<1>2. left[c] # {}
  <2>1. Cardinality(left[c]) >= MaxPerRoom
    BY DEF JoinFull, RoomFull
  <2>2. Cardinality({}) = 0
    BY FS_EmptySet
  <2> QED BY <2>1, <2>2, VoiceRoomsAssumption
<1>3. c \in OpenWithout(userRoom[u], u)
  <2>1. left[c] = IF c = userRoom[u] THEN rooms[c] \ {u} ELSE rooms[c]
    <3>1. TypeOK
      BY DEF Inv
    <3> QED BY <1>1, <3>1, RoomsWithoutType
  <2> QED BY <1>2, <2>1 DEF OpenWithout, Inv, NoEmptyRoom
<1>4. open' = OpenWithout(userRoom[u], u)
  BY <1>3 DEF JoinFull
<1> QED BY <1>4, DepartureKeepsInv DEF JoinFull, links, Inv, TypeOK

(* The room that is left is the one user_room_ has. *)
LEMMA LeaveKeepsInv ==
    ASSUME Inv, NEW u \in User, NEW c \in Channel, Leave(u, c)
    PROVE  Inv'
<1>1. userRoom[u] = c
  BY DEF Leave, Inv, RoomsConsistent
<1>2. /\ viewRoom' \in [User -> Channel \cup {None}]
      /\ \A p \in User \ {u} : viewRoom'[p] = viewRoom[p]
  BY DEF Leave, Inv, TypeOK
<1> QED BY <1>1, <1>2, DepartureKeepsInv DEF Leave, links, Inv, TypeOK

LEMMA OnDisconnectKeepsInv ==
    ASSUME Inv, NEW u \in User, OnDisconnect(u)
    PROVE  Inv'
<1>1. leaving' \in SUBSET User
  BY DEF OnDisconnect, Inv, TypeOK
<1> QED BY <1>1, DepartureKeepsInv DEF OnDisconnect, Inv, TypeOK

(* The listener's steps leave the rooms alone. *)
LEMMA LinksKeepInv ==
    ASSUME Inv, NEW u \in User,
           Login(u) \/ UnregisteredEnds(u) \/ \E timeout \in BOOLEAN : Unregister(u, timeout)
    PROVE  Inv'
<1>1. rooms' = rooms /\ open' = open /\ userRoom' = userRoom
  BY DEF Login, UnregisteredEnds, Unregister, server
<1>2. RoomsConsistent' /\ NoEmptyRoom' /\ FiniteRooms' /\ RoomBound'
  BY <1>1 DEF Inv, RoomsConsistent, NoEmptyRoom, FiniteRooms, RoomBound
<1>3. CASE Login(u)
  <2>1. TypeOK'
    BY <1>3 DEF Login, server, Inv, TypeOK
  <2>2. ViewsAgree'
    BY <1>1, <1>3 DEF Login, Inv, TypeOK, ViewsAgree
  <2> QED BY <1>2, <2>1, <2>2 DEF Inv
<1>4. CASE UnregisteredEnds(u)
  BY <1>1, <1>2, <1>4 DEF UnregisteredEnds, server, views, Inv, TypeOK, ViewsAgree
<1>5. CASE \E timeout \in BOOLEAN : Unregister(u, timeout)
  <2>1. TypeOK'
    BY <1>5 DEF Unregister, server, views, Inv, TypeOK
  <2>2. ViewsAgree'
    BY <1>1, <1>5 DEF Unregister, views, Inv, ViewsAgree
  <2> QED BY <1>2, <2>1, <2>2 DEF Inv
<1> QED BY <1>3, <1>4, <1>5

LEMMA NextKeepsInv == Inv /\ [Next]_vars => Inv'
<1> SUFFICES ASSUME Inv, [Next]_vars PROVE Inv'
  OBVIOUS
<1>1. CASE UNCHANGED vars
  BY <1>1 DEF vars, Inv, TypeOK, RoomsConsistent, NoEmptyRoom, FiniteRooms, RoomBound, ViewsAgree
<1>2. ASSUME NEW u \in User, NEW c \in Channel, Join(u, c) PROVE Inv'
  BY <1>2, JoinKeepsInv
<1>3. ASSUME NEW u \in User, NEW c \in Channel, JoinFull(u, c) PROVE Inv'
  BY <1>3, JoinFullKeepsInv
<1>4. ASSUME NEW u \in User, NEW c \in Channel, Leave(u, c) PROVE Inv'
  BY <1>4, LeaveKeepsInv
<1>5. ASSUME NEW u \in User, OnDisconnect(u) PROVE Inv'
  BY <1>5, OnDisconnectKeepsInv
<1>6. ASSUME NEW u \in User,
             Login(u) \/ UnregisteredEnds(u) \/ \E timeout \in BOOLEAN : Unregister(u, timeout)
      PROVE  Inv'
  BY <1>6, LinksKeepInv
<1> QED BY <1>1, <1>2, <1>3, <1>4, <1>5, <1>6 DEF Next

-----------------------------------------------------------------------------
(* Everything below holds in every state of every behaviour. *)
LEMMA Invariance == Spec => []Inv
BY InitInv, NextKeepsInv, PTL DEF Spec

(* The rooms, the records of users and the clients' views keep their types. *)
THEOREM TypeCorrect == Spec => []TypeOK
BY Invariance, PTL DEF Inv

(* rooms_ and user_room_ never disagree, refused joins and late            *)
(* on_disconnect calls included.                                           *)
THEOREM Consistent == Spec => []RoomsConsistent
BY Invariance, PTL DEF Inv

(* rooms_ never keeps an empty room and never lacks one that is in use. *)
THEOREM NoEmptyRooms == Spec => []NoEmptyRoom
BY Invariance, PTL DEF Inv

(* A room never holds more than kMaxPerRoom participants. *)
THEOREM Bounded == Spec => []RoomBound
BY Invariance, PTL DEF Inv

(* The three together: the bookkeeping of the rooms is sound.              *)
THEOREM Sound == Spec => []RoomsSound
<1>1. Inv => RoomsSound
  BY DEF Inv, RoomsSound
<1> QED BY <1>1, Invariance, PTL

(* A client that is in the room it was told of knows its participants. *)
THEOREM ViewsCorrect == Spec => []ViewsAgree
BY Invariance, PTL DEF Inv
=============================================================================
