--------------------------- MODULE PresenceProofs ---------------------------
(***************************************************************************)
(* Proofs about Presence, for any sessions and users.                      *)
(***************************************************************************)
EXTENDS Presence, TLAPS

(* A session that has not been entered yet has been sent nothing. *)
Fresh(s) == state[s] = "new" \/ pc[s] = "register"

Handlers ==
    \A s \in Session :
        /\ state[s] = "new" => pc[s] = "idle"
        /\ state[s] # "new" => user[s] \in User
        /\ pc[s] = "register" => state[s] = "Established"

NothingSent ==
    \A s \in Session :
        Fresh(s) => /\ view[s] = {} /\ snapshot[s] = {}
                    /\ \A t \in Session : s \notin to[t]

(* Entries are of sessions that have authenticated as their user. *)
Entries ==
    \A u \in User : entry[u] # None => user[entry[u]] = u /\ ~Fresh(entry[u])

(* What is under way to s about u is what the registry says, and the       *)
(* client of s knows it or something is under way.                         *)
Right(s, u) ==
    /\ entry[u] = None =>
          /\ News(u, s) \subseteq {"OFFLINE"}
          /\ u \in view[s] => News(u, s) # {}
    /\ entry[u] # None /\ state[entry[u]] # "Dead" =>
          /\ News(u, s) \subseteq {"ONLINE"}
          /\ u \notin view[s] => News(u, s) # {}

Claimed(s, u) ==
    /\ s \in Registered /\ state[s] = "Established" /\ user[s] # u
    /\ <<s, u>> \notin crossed

NewsRight == \A s \in Session, u \in User : Claimed(s, u) => Right(s, u)

-----------------------------------------------------------------------------
LEMMA TypeStep == TypeOK /\ Handlers /\ [Next]_vars => TypeOK'
<1> SUFFICES ASSUME TypeOK, Handlers, [Next]_vars PROVE TypeOK'
  OBVIOUS
<1>1. ASSUME NEW s \in Session, NEW u \in User, Authenticate(s, u) PROVE TypeOK'
  BY <1>1 DEF Authenticate, TypeOK
<1>2. ASSUME NEW s \in Session, NEW u \in User, SendSnapshot(s, u) PROVE TypeOK'
  BY <1>2 DEF SendSnapshot, TypeOK
<1>3. ASSUME NEW s \in Session, OnSessionAuthenticated(s) PROVE TypeOK'
  <2>1. user[s] \in User
    BY <1>3 DEF Handlers, OnSessionAuthenticated
  <2>2. OnlineUsers(s, user[s]) \subseteq User
    BY <2>1 DEF OnlineUsers
  <2> QED BY <1>3, <2>1, <2>2 DEF OnSessionAuthenticated, TypeOK
<1>4. ASSUME NEW s \in Session, Collect(s) PROVE TypeOK'
  BY <1>4 DEF Collect, Registered, TypeOK
<1>5. ASSUME NEW s \in Session, HandlerDone(s) PROVE TypeOK'
  BY <1>5 DEF HandlerDone, TypeOK
<1>6. ASSUME NEW s \in Session, NEW r \in Session, SendPresence(s, r) PROVE TypeOK'
  <2>1. user[s] \in User
    BY <1>6 DEF Handlers, SendPresence, TypeOK
  <2> QED BY <1>6, <2>1 DEF SendPresence, TypeOK
<1>7. ASSUME NEW s \in Session, Close(s) PROVE TypeOK'
  BY <1>7 DEF Close, TypeOK
<1>8. ASSUME NEW s \in Session, OnSessionDisconnected(s) PROVE TypeOK'
  BY <1>8 DEF OnSessionDisconnected, TypeOK
<1>9. CASE Shutdown
  BY <1>9 DEF Shutdown, TypeOK
<1>10. CASE UNCHANGED vars
  BY <1>10 DEF vars, TypeOK
<1> QED BY <1>1, <1>2, <1>3, <1>4, <1>5, <1>6, <1>7, <1>8, <1>9, <1>10 DEF Next

(* A registered session has been entered. *)
LEMMA RegisteredNotFresh ==
  ASSUME TypeOK, Entries
  PROVE  \A s \in Registered : s \in Session /\ user[s] \in User /\ entry[user[s]] = s /\ ~Fresh(s)
  BY PresenceAssumption DEF TypeOK, Entries, Registered

Shape == Handlers /\ NothingSent /\ Entries

(* The handlers, what was sent to new sessions, and the entries. *)
LEMMA ShapeStep == TypeOK /\ Shape /\ [Next]_vars => Shape'
<1> SUFFICES ASSUME TypeOK, Shape, [Next]_vars PROVE Shape'
  OBVIOUS
<1> USE PresenceAssumption
<1>1. ASSUME NEW s \in Session, NEW u \in User, Authenticate(s, u) PROVE Shape'
  <2>1. Handlers'
    BY <1>1 DEF Shape, Authenticate, Handlers, TypeOK
  <2>2. NothingSent'
    BY <1>1 DEF Shape, Authenticate, NothingSent, Fresh, TypeOK
  <2>3. Entries'
    BY <1>1 DEF Shape, Authenticate, Entries, Fresh, TypeOK
  <2> QED BY <2>1, <2>2, <2>3 DEF Shape
<1>2. ASSUME NEW s \in Session, NEW u \in User, SendSnapshot(s, u) PROVE Shape'
  BY <1>2 DEF Shape, SendSnapshot, Handlers, NothingSent, Entries, Fresh, TypeOK
<1>3. ASSUME NEW s \in Session, OnSessionAuthenticated(s) PROVE Shape'
  <2>0. user[s] \in User /\ state[s] = "Established"
    BY <1>3 DEF Shape, Handlers, OnSessionAuthenticated
  <2>1. Handlers'
    BY <1>3, <2>0 DEF Shape, OnSessionAuthenticated, Handlers, TypeOK
  <2>2. NothingSent'
    BY <1>3, <2>0 DEF Shape, OnSessionAuthenticated, NothingSent, Fresh, TypeOK
  <2>3. Entries'
    BY <1>3, <2>0 DEF Shape, OnSessionAuthenticated, Entries, Fresh, TypeOK
  <2> QED BY <2>1, <2>2, <2>3 DEF Shape
<1>4. ASSUME NEW s \in Session, Collect(s) PROVE Shape'
  <2>1. Handlers' /\ Entries'
    BY <1>4 DEF Shape, Collect, Handlers, Entries, Fresh, TypeOK
  <2>2. NothingSent'
    BY <1>4, RegisteredNotFresh DEF Shape, Collect, NothingSent, Fresh, TypeOK
  <2> QED BY <2>1, <2>2 DEF Shape
<1>5. ASSUME NEW s \in Session, HandlerDone(s) PROVE Shape'
  BY <1>5 DEF Shape, HandlerDone, Handlers, NothingSent, Entries, Fresh, TypeOK
<1>6. ASSUME NEW s \in Session, NEW r \in Session, SendPresence(s, r) PROVE Shape'
  <2>1. Handlers' /\ Entries'
    BY <1>6 DEF Shape, SendPresence, Handlers, Entries, Fresh, TypeOK
  <2>2. NothingSent'
    BY <1>6 DEF Shape, SendPresence, NothingSent, Fresh, TypeOK
  <2> QED BY <2>1, <2>2 DEF Shape
<1>7. ASSUME NEW s \in Session, Close(s) PROVE Shape'
  BY <1>7 DEF Shape, Close, Handlers, NothingSent, Entries, Fresh, TypeOK
<1>8. ASSUME NEW s \in Session, OnSessionDisconnected(s) PROVE Shape'
  <2>0. user[s] \in User /\ ~Fresh(s)
    BY <1>8, RegisteredNotFresh DEF Shape, OnSessionDisconnected
  <2>1. Handlers'
    BY <1>8, <2>0 DEF Shape, OnSessionDisconnected, Handlers, Fresh, TypeOK
  <2>2. NothingSent'
    BY <1>8, <2>0 DEF Shape, OnSessionDisconnected, NothingSent, Fresh, TypeOK
  <2>3. Entries'
    BY <1>8, <2>0 DEF Shape, OnSessionDisconnected, Entries, Fresh, TypeOK
  <2> QED BY <2>1, <2>2, <2>3 DEF Shape
<1>9. CASE Shutdown
  BY <1>9 DEF Shape, Shutdown, Handlers, NothingSent, Entries, Fresh, TypeOK
<1>10. CASE UNCHANGED vars
  BY <1>10 DEF Shape, vars, Handlers, NothingSent, Entries, Fresh
<1> QED BY <1>1, <1>2, <1>3, <1>4, <1>5, <1>6, <1>7, <1>8, <1>9, <1>10 DEF Next

-----------------------------------------------------------------------------
Inv == TypeOK /\ Shape /\ NewsRight

(* Session x is announcing something of u to s. *)
Tells(x, u, s) == user[x] = u /\ Reaches(x, s)

LEMMA NewsUnchanged ==
  ASSUME NEW s \in Session, NEW u \in User,
         \A x \in Session : Tells(x, u, s)' <=> Tells(x, u, s),
         \A x \in Session : Tells(x, u, s) => status'[x] = status[x],
         u \in snapshot'[s] <=> u \in snapshot[s]
  PROVE  News(u, s)' = News(u, s)
  BY DEF News, Tells

(* What is claimed of a client is kept by a step that changes neither the  *)
(* news for it, nor its view of u, nor the session u is entered with.      *)
LEMMA Kept ==
  ASSUME NEW s \in Session, NEW u \in User,
         Claimed(s, u) => Right(s, u), Claimed(s, u),
         News(u, s)' = News(u, s),
         u \in view'[s] <=> u \in view[s],
         entry'[u] = entry[u],
         entry[u] # None /\ state'[entry[u]] # "Dead" => state[entry[u]] # "Dead"
  PROVE  Right(s, u)'
  BY DEF Right

LEMMA AuthenticateNews ==
  ASSUME Inv, NEW t \in Session, NEW v \in User, Authenticate(t, v),
         NEW s \in Session, NEW u \in User, Claimed(s, u)'
  PROVE  Right(s, u)'
<1> USE PresenceAssumption
<1>1. pc[t] = "idle" /\ pc'[t] = "register" /\ state[t] = "new"
  BY DEF Inv, Shape, Handlers, Authenticate, TypeOK
<1>2. entry' = entry /\ view' = view /\ snapshot' = snapshot /\ status' = status /\ crossed' = crossed
  BY DEF Authenticate
<1>3. \A w \in User : entry[w] # t
  BY <1>1 DEF Inv, Shape, Entries, Fresh, TypeOK
<1>4. s # t /\ Claimed(s, u)
  BY <1>2, <1>3 DEF Inv, Claimed, Registered, Authenticate, TypeOK
<1>5. \A x \in Session : Tells(x, u, s)' <=> Tells(x, u, s)
  BY <1>1 DEF Inv, Tells, Reaches, Authenticate, TypeOK
<1>6. News(u, s)' = News(u, s)
  BY <1>2, <1>5, NewsUnchanged
<1>7. entry[u] # None => state'[entry[u]] = state[entry[u]]
  BY <1>3 DEF Inv, Authenticate, TypeOK
<1> QED BY <1>2, <1>4, <1>6, <1>7, Kept DEF Inv, NewsRight

LEMMA SnapshotNews ==
  ASSUME Inv, NEW t \in Session, NEW w \in User, SendSnapshot(t, w),
         NEW s \in Session, NEW u \in User, Claimed(s, u)'
  PROVE  Right(s, u)'
<1> USE PresenceAssumption
<1>1. entry' = entry /\ state' = state /\ user' = user /\ status' = status /\ Claimed(s, u)
  BY DEF SendSnapshot, Claimed, Registered
<1>2. Right(s, u)
  BY <1>1 DEF Inv, NewsRight
<1>3. \A x \in Session : Tells(x, u, s)' <=> Tells(x, u, s)
  BY DEF SendSnapshot, Tells, Reaches
<1>4. CASE s = t /\ u = w
  <2>1. "ONLINE" \in News(u, s)
    BY <1>4 DEF News, SendSnapshot
  <2>2. entry[u] # None
    BY <1>2, <2>1 DEF Right
  <2>3. News(u, s)' \subseteq News(u, s)
    BY <1>1, <1>3, <1>4, <2>1 DEF News, Tells
  <2>4. u \in view'[s]
    BY <1>4 DEF SendSnapshot, Inv, TypeOK
  <2> QED BY <1>1, <1>2, <2>2, <2>3, <2>4 DEF Right
<1>5. CASE ~(s = t /\ u = w)
  <2>1. (u \in snapshot'[s] <=> u \in snapshot[s]) /\ (u \in view'[s] <=> u \in view[s])
    BY <1>5 DEF SendSnapshot, Inv, TypeOK
  <2>2. News(u, s)' = News(u, s)
    BY <1>1, <1>3, <2>1, NewsUnchanged
  <2> QED BY <1>1, <1>2, <2>1, <2>2, Kept
<1> QED BY <1>4, <1>5

(* In a login that leaves s and u not crossed, the news for s about u were *)
(* those that the login makes true.                                        *)
LEMMA AuthenticatedNews ==
  ASSUME Inv, NEW t \in Session, OnSessionAuthenticated(t),
         NEW s \in Session, NEW u \in User, Claimed(s, u)'
  PROVE  Right(s, u)'
<1> USE PresenceAssumption
<1> DEFINE online == OnlineUsers(t, user[t])
<1>1. /\ pc[t] = "register" /\ user[t] \in User /\ state' = state /\ user' = user /\ view' = view
      /\ entry' = [entry EXCEPT ![user[t]] = t] /\ status'[t] = "ONLINE" /\ pc'[t] = "announce"
  BY DEF Inv, Shape, Handlers, OnSessionAuthenticated, TypeOK
<1>2. \A x \in Session : x # t => (Tells(x, u, s)' <=> Tells(x, u, s)) /\ status'[x] = status[x]
  BY DEF OnSessionAuthenticated, Inv, Tells, Reaches, TypeOK
<1>3. ~Tells(t, u, s)
  BY <1>1 DEF Tells, Reaches
<1>4. <<s, u>> \in Session \X User /\ <<s, u>> \notin crossed'
  BY DEF Claimed
<1>5. CASE s = t
  <2>1. u # user[t]
    BY <1>1, <1>5 DEF Claimed
  <2>2. ~Crossed(s, u, IF u \in online THEN "ONLINE" ELSE "OFFLINE")
    BY <1>4, <1>5 DEF OnSessionAuthenticated
  <2>3. view[s] = {} /\ snapshot[s] = {} /\ snapshot'[s] = online
    BY <1>1, <1>5 DEF Inv, Shape, NothingSent, Fresh, OnSessionAuthenticated, TypeOK
  <2>4. ~Tells(t, u, s)'
    BY <1>1, <2>1 DEF Tells
  <2>5. News(u, s)' = News(u, s) \cup (IF u \in online THEN {"ONLINE"} ELSE {})
    BY <1>2, <1>3, <2>3, <2>4 DEF News, Tells
  <2>6. u \in online <=> entry[u] # None /\ state[entry[u]] # "Dead"
    <3>1. entry[u] # None => state[entry[u]] # "new" /\ entry[u] \in Session
      BY DEF Inv, Shape, Entries, Fresh, TypeOK
    <3>2. entry[u] # None => state[entry[u]] \in {"Established", "Dead"}
      BY <3>1 DEF Inv, TypeOK
    <3> QED BY <2>1, <3>2 DEF OnlineUsers
  <2>7. entry'[u] = entry[u]
    BY <1>1, <2>1 DEF Inv, TypeOK
  <2> HIDE DEF online
  <2>8. CASE u \in online
    BY <1>1, <2>2, <2>3, <2>5, <2>6, <2>7, <2>8 DEF Crossed, Right
  <2>9. CASE u \notin online
    BY <1>1, <2>2, <2>3, <2>5, <2>6, <2>7, <2>9 DEF Crossed, Right
  <2> QED BY <2>8, <2>9
<1>6. CASE s # t /\ u = user[t]
  <2>1. ~Crossed(s, u, "ONLINE")
    BY <1>4, <1>6 DEF OnSessionAuthenticated
  <2>2. Tells(t, u, s)'
    BY <1>1, <1>6 DEF Tells, Reaches
  <2>3. News(u, s)' = News(u, s) \cup {"ONLINE"}
    <3>1. u \in snapshot'[s] <=> u \in snapshot[s]
      BY <1>6 DEF OnSessionAuthenticated, Inv, TypeOK
    <3> QED BY <1>1, <1>2, <1>3, <2>2, <3>1 DEF News, Tells
  <2>4. entry'[u] = t
    BY <1>1, <1>6 DEF Inv, TypeOK
  <2> QED BY <2>1, <2>3, <2>4 DEF Crossed, Right
<1>7. CASE s # t /\ u # user[t]
  <2>1. Claimed(s, u)
    <3>1. s \in Registered
      BY <1>1, <1>7 DEF Claimed, Registered, Inv, TypeOK
    <3>2. <<s, u>> \notin crossed
      BY <1>4, <1>7 DEF OnSessionAuthenticated
    <3> QED BY <1>1, <3>1, <3>2 DEF Claimed
  <2>2. ~Tells(t, u, s)' /\ (u \in snapshot'[s] <=> u \in snapshot[s])
    BY <1>1, <1>7 DEF Tells, OnSessionAuthenticated, Inv, TypeOK
  <2>3. News(u, s)' = News(u, s)
    BY <1>2, <1>3, <2>2, NewsUnchanged
  <2>4. entry'[u] = entry[u]
    BY <1>1, <1>7 DEF Inv, TypeOK
  <2> QED BY <1>1, <2>1, <2>3, <2>4, Kept DEF Inv, NewsRight
<1> QED BY <1>5, <1>6, <1>7

LEMMA CollectNews ==
  ASSUME Inv, NEW t \in Session, Collect(t),
         NEW s \in Session, NEW u \in User, Claimed(s, u)'
  PROVE  Right(s, u)'
<1>1. /\ entry' = entry /\ state' = state /\ user' = user /\ status' = status
      /\ view' = view /\ snapshot' = snapshot /\ Claimed(s, u)
  BY DEF Collect, Claimed, Registered
<1>2. \A x \in Session : Tells(x, u, s)' <=> Tells(x, u, s)
  <2>1. status[t] \in {"ONLINE", "OFFLINE"}
    BY DEF Inv, TypeOK
  <2>2. Tells(t, u, s)' <=> Tells(t, u, s)
    BY <1>1, <2>1 DEF Claimed, Collect, Inv, Tells, Reaches, TypeOK
  <2>3. \A x \in Session : x # t => (Tells(x, u, s)' <=> Tells(x, u, s))
    BY DEF Collect, Inv, Tells, Reaches, TypeOK
  <2> QED BY <2>2, <2>3
<1>3. News(u, s)' = News(u, s)
  BY <1>1, <1>2, NewsUnchanged
<1> QED BY <1>1, <1>3, Kept DEF Inv, NewsRight

LEMMA SendNews ==
  ASSUME Inv, NEW t \in Session, NEW r \in Session, SendPresence(t, r),
         NEW s \in Session, NEW u \in User, Claimed(s, u)'
  PROVE  Right(s, u)'
<1>1. /\ entry' = entry /\ state' = state /\ user' = user /\ status' = status
      /\ snapshot' = snapshot /\ Claimed(s, u)
  BY DEF SendPresence, Claimed, Registered
<1>2. Right(s, u)
  BY <1>1 DEF Inv, NewsRight
<1>3. \A x \in Session : x # t => (Tells(x, u, s)' <=> Tells(x, u, s))
  BY DEF SendPresence, Inv, Tells, Reaches, TypeOK
<1>4. CASE s = r /\ u = user[t]
  <2>1. Tells(t, u, s) /\ ~Tells(t, u, s)'
    BY <1>4 DEF SendPresence, Inv, Tells, Reaches, TypeOK
  <2>2. status[t] \in News(u, s) /\ News(u, s)' \subseteq News(u, s)
    BY <1>1, <1>3, <2>1 DEF News, Tells
  <2>3. state[s] = "Established" /\ status[t] \in {"ONLINE", "OFFLINE"}
    BY <1>1 DEF Claimed, Inv, TypeOK
  <2>4. view'[s] = IF status[t] = "ONLINE" THEN view[s] \cup {u} ELSE view[s] \ {u}
    BY <1>4, <2>3 DEF SendPresence, Inv, TypeOK
  <2>5. entry[u] = None => status[t] = "OFFLINE" /\ u \notin view'[s]
    BY <1>2, <2>2, <2>4 DEF Right
  <2>6. entry[u] # None /\ state[entry[u]] # "Dead" => status[t] = "ONLINE" /\ u \in view'[s]
    BY <1>2, <2>2, <2>4 DEF Right
  <2> QED BY <1>1, <1>2, <2>2, <2>5, <2>6 DEF Right
<1>5. CASE ~(s = r /\ u = user[t])
  <2>1. Tells(t, u, s)' <=> Tells(t, u, s)
    BY <1>5 DEF SendPresence, Inv, Tells, Reaches, TypeOK
  <2>2. u \in view'[s] <=> u \in view[s]
    BY <1>5 DEF SendPresence, Inv, TypeOK
  <2>3. News(u, s)' = News(u, s)
    BY <1>1, <1>3, <2>1, NewsUnchanged
  <2> QED BY <1>1, <1>2, <2>2, <2>3, Kept
<1> QED BY <1>4, <1>5

LEMMA DoneNews ==
  ASSUME Inv, NEW t \in Session, HandlerDone(t) \/ Close(t),
         NEW s \in Session, NEW u \in User, Claimed(s, u)'
  PROVE  Right(s, u)'
<1> USE PresenceAssumption
<1>1. /\ entry' = entry /\ user' = user /\ status' = status /\ to' = to
      /\ view' = view /\ snapshot' = snapshot /\ crossed' = crossed
  BY DEF HandlerDone, Close
<1>2. \A x \in Session : state'[x] = state[x] \/ state'[x] = "Dead"
  BY DEF HandlerDone, Close, Inv, TypeOK
<1>3. Claimed(s, u)
  BY <1>1, <1>2 DEF Claimed, Registered
<1>4. \A x \in Session : Tells(x, u, s)' <=> Tells(x, u, s)
  BY DEF HandlerDone, Close, Inv, Tells, Reaches, TypeOK
<1>5. News(u, s)' = News(u, s)
  BY <1>1, <1>4, NewsUnchanged
<1>6. entry[u] # None => entry[u] \in Session
  BY DEF Inv, TypeOK
<1> QED BY <1>1, <1>2, <1>3, <1>5, <1>6, Kept DEF Inv, NewsRight

LEMMA DisconnectedNews ==
  ASSUME Inv, NEW t \in Session, OnSessionDisconnected(t),
         NEW s \in Session, NEW u \in User, Claimed(s, u)'
  PROVE  Right(s, u)'
<1> USE PresenceAssumption
<1>1. /\ pc[t] = "idle" /\ user[t] \in User /\ state' = state /\ user' = user /\ view' = view
      /\ snapshot' = snapshot /\ entry' = [entry EXCEPT ![user[t]] = None]
      /\ status'[t] = "OFFLINE" /\ pc'[t] = "announce"
  BY RegisteredNotFresh DEF Inv, Shape, OnSessionDisconnected, TypeOK
<1>2. \A x \in Session : x # t => (Tells(x, u, s)' <=> Tells(x, u, s)) /\ status'[x] = status[x]
  BY DEF OnSessionDisconnected, Inv, Tells, Reaches, TypeOK
<1>3. ~Tells(t, u, s)
  BY <1>1 DEF Tells, Reaches
<1>4. <<s, u>> \in Session \X User /\ <<s, u>> \notin crossed'
  BY DEF Claimed
<1>5. CASE u = user[t]
  <2>1. ~Crossed(s, u, "OFFLINE")
    BY <1>4, <1>5 DEF OnSessionDisconnected
  <2>2. Tells(t, u, s)'
    BY <1>1, <1>5 DEF Tells, Reaches
  <2>3. News(u, s)' \subseteq News(u, s) \cup {"OFFLINE"} /\ News(u, s)' # {}
    BY <1>1, <1>2, <1>3, <2>2 DEF News, Tells
  <2>4. entry'[u] = None
    BY <1>1, <1>5 DEF Inv, TypeOK
  <2> QED BY <2>1, <2>3, <2>4 DEF Crossed, Right
<1>6. CASE u # user[t]
  <2>1. Claimed(s, u)
    <3>1. s \in Registered
      BY <1>1 DEF Claimed, Registered, Inv, TypeOK
    <3>2. <<s, u>> \notin crossed
      BY <1>4, <1>6 DEF OnSessionDisconnected
    <3> QED BY <1>1, <3>1, <3>2 DEF Claimed
  <2>2. ~Tells(t, u, s)'
    BY <1>1, <1>6 DEF Tells
  <2>3. News(u, s)' = News(u, s)
    BY <1>1, <1>2, <1>3, <2>2, NewsUnchanged
  <2>4. entry'[u] = entry[u]
    BY <1>1, <1>6 DEF Inv, TypeOK
  <2> QED BY <1>1, <2>1, <2>3, <2>4, Kept DEF Inv, NewsRight
<1> QED BY <1>5, <1>6

LEMMA NewsStep == Inv /\ [Next]_vars => NewsRight'
<1> SUFFICES ASSUME Inv, [Next]_vars, NEW s \in Session, NEW u \in User, Claimed(s, u)'
             PROVE  Right(s, u)'
  BY DEF NewsRight
<1>1. ASSUME NEW t \in Session, NEW v \in User, Authenticate(t, v) PROVE Right(s, u)'
  BY <1>1, AuthenticateNews
<1>2. ASSUME NEW t \in Session, NEW v \in User, SendSnapshot(t, v) PROVE Right(s, u)'
  BY <1>2, SnapshotNews
<1>3. ASSUME NEW t \in Session, OnSessionAuthenticated(t) PROVE Right(s, u)'
  BY <1>3, AuthenticatedNews
<1>4. ASSUME NEW t \in Session, Collect(t) PROVE Right(s, u)'
  BY <1>4, CollectNews
<1>5. ASSUME NEW t \in Session, HandlerDone(t) \/ Close(t) PROVE Right(s, u)'
  BY <1>5, DoneNews
<1>6. ASSUME NEW t \in Session, NEW r \in Session, SendPresence(t, r) PROVE Right(s, u)'
  BY <1>6, SendNews
<1>7. ASSUME NEW t \in Session, OnSessionDisconnected(t) PROVE Right(s, u)'
  BY <1>7, DisconnectedNews
<1>8. CASE Shutdown
  BY <1>8, PresenceAssumption DEF Shutdown, Claimed, Registered, Inv, TypeOK
<1>9. CASE UNCHANGED vars
  <2>1. Claimed(s, u)
    BY <1>9 DEF vars, Claimed, Registered
  <2>2. Right(s, u)' <=> Right(s, u)
    BY <1>9 DEF vars, Right, News, Reaches
  <2> QED BY <2>1, <2>2 DEF Inv, NewsRight
<1> QED BY <1>1, <1>2, <1>3, <1>4, <1>5, <1>6, <1>7, <1>8, <1>9 DEF Next

LEMMA InitInv == Init => Inv
<1> USE PresenceAssumption
<1> SUFFICES ASSUME Init PROVE Inv
  OBVIOUS
<1>1. TypeOK
  BY DEF Init, TypeOK
<1>2. Shape
  BY DEF Init, Shape, Handlers, NothingSent, Entries, Fresh
<1>3. NewsRight
  BY DEF Init, NewsRight, Claimed
<1> QED BY <1>1, <1>2, <1>3 DEF Inv

LEMMA InvStep == Inv /\ [Next]_vars => Inv'
  BY TypeStep, ShapeStep, NewsStep DEF Inv, Shape

LEMMA InvAlways == Spec => []Inv
  BY InitInv, InvStep, PTL DEF Spec

-----------------------------------------------------------------------------
(* Types of the handlers' state and of the clients' views. *)
THEOREM TypeCorrect == Spec => []TypeOK
<1>1. Inv => TypeOK
  BY DEF Inv
<1> QED BY <1>1, InvAlways, PTL

(* A registered client for which nothing about a user is under way, and    *)
(* whose news did not cross, knows whether on_session_authenticated or     *)
(* on_session_disconnected ran last for that user.                         *)
THEOREM ViewsAreSettled == Spec => []ViewsSettle
<1>1. Inv => ViewsSettle
  <2> SUFFICES ASSUME Inv, NEW s \in Registered, NEW u \in User,
                      state[s] = "Established" /\ user[s] # u,
                      News(u, s) = {} /\ <<s, u>> \notin crossed
               PROVE  /\ entry[u] = None => u \notin view[s]
                      /\ entry[u] # None => u \in view[s] \/ state[entry[u]] = "Dead"
    BY DEF ViewsSettle
  <2>1. s \in Session /\ Claimed(s, u)
    BY DEF Registered, Claimed
  <2> QED BY <2>1 DEF Inv, NewsRight, Right
<1> QED BY <1>1, InvAlways, PTL

-----------------------------------------------------------------------------
(* Refinement. *)

(* The sessions that on_session_authenticated has been run for. *)
Entered == {s \in Session : state[s] # "new" /\ pc[s] # "register"}

Directory == INSTANCE SessionDirectory WITH online <- entry, served <- Entered

(* The registry as the announcements see it implements the session         *)
(* directory: on_session_authenticated is a login of a session that was    *)
(* never entered, on_session_disconnected the logout of one user, shutdown *)
(* a clear, and no announcement is a step of the directory.                *)
THEOREM DirectoryImplemented == Spec => Directory!Spec
<1>1. Init => Directory!Init
  BY DEF Init, Directory!Init, Entered
<1>2. ASSUME Inv, [Next]_vars
      PROVE  [Directory!Next]_<<entry, Entered>>
  <2> USE PresenceAssumption DEF Inv, Shape
  <2>1. ASSUME NEW s \in Session, NEW u \in User, Authenticate(s, u)
        PROVE  UNCHANGED <<entry, Entered>>
    BY <1>2, <2>1 DEF Authenticate, Entered, TypeOK
  <2>2. ASSUME NEW s \in Session, OnSessionAuthenticated(s) PROVE Directory!Next
    <3>1. user[s] \in User /\ state[s] = "Established" /\ s \notin Entered
      BY <1>2, <2>2 DEF OnSessionAuthenticated, Handlers, Entered
    <3>2. entry' = [entry EXCEPT ![user[s]] = s]
      BY <2>2 DEF OnSessionAuthenticated
    <3>3. Entered' = Entered \cup {s}
      BY <1>2, <2>2, <3>1 DEF OnSessionAuthenticated, Entered, TypeOK
    <3>4. Directory!Login(s, user[s])
      BY <3>1, <3>2, <3>3 DEF Directory!Login
    <3> QED BY <3>1, <3>4 DEF Directory!Next
  <2>3. ASSUME NEW s \in Session, OnSessionDisconnected(s) PROVE Directory!Next
    <3>1. user[s] \in User /\ entry[user[s]] = s /\ s # None
      BY <1>2, <2>3, RegisteredNotFresh DEF OnSessionDisconnected
    <3>2. entry' = [entry EXCEPT ![user[s]] = None] /\ Entered' = Entered
      BY <1>2, <2>3 DEF OnSessionDisconnected, Entered, TypeOK
    <3>3. Directory!Logout(user[s])
      BY <3>1, <3>2 DEF Directory!Logout
    <3> QED BY <3>1, <3>3 DEF Directory!Next
  <2>4. CASE Shutdown
    <3>1. Entered' = Entered /\ Entered \subseteq Session
      BY <2>4 DEF Shutdown, Entered
    <3>2. Directory!Clear
      BY <2>4, <3>1 DEF Shutdown, Directory!Clear
    <3> QED BY <3>2 DEF Directory!Next
  <2>5. ASSUME NEW s \in Session, NEW u \in User, SendSnapshot(s, u)
        PROVE  UNCHANGED <<entry, Entered>>
    BY <2>5 DEF SendSnapshot, Entered
  <2>6. ASSUME NEW s \in Session,
               Collect(s) \/ HandlerDone(s) \/ Close(s) \/ \E r \in Session : SendPresence(s, r)
        PROVE  UNCHANGED <<entry, Entered>>
    BY <1>2, <2>6 DEF Collect, HandlerDone, Close, SendPresence, Entered, TypeOK
  <2>7. CASE UNCHANGED vars
    BY <2>7 DEF vars, Entered
  <2> QED BY <1>2, <2>1, <2>2, <2>3, <2>4, <2>5, <2>6, <2>7 DEF Next
<1> QED BY <1>1, <1>2, InvAlways, PTL DEF Spec, Directory!Spec
=============================================================================
