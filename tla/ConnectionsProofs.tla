-------------------------- MODULE ConnectionsProofs --------------------------
(***************************************************************************)
(* Proofs about Connections for every set of sessions and users and every  *)
(* value of the bounds.                                                    *)
(***************************************************************************)
EXTENDS Connections, SequenceTheorems, TLAPS

USE ConnectionsAssumption

-----------------------------------------------------------------------------
(* Type correctness. *)

LEMMA InitType == Init => TypeOK
<1> SUFFICES ASSUME Init PROVE TypeOK
  OBVIOUS
<1>1. strand \in [Session -> Seq(Handler)]
  <2>1. <<>> \in Seq(Handler)
    OBVIOUS
  <2> QED BY <2>1 DEF Init
<1>2. reading \in [Session -> BOOLEAN] /\ pingSent \in [Session -> BOOLEAN]
  BY DEF Init
<1>3. writes \in [Session -> 0..MaxWrites] /\ activeConnections \in Int
  BY DEF Init
<1> QED BY <1>1, <1>2, <1>3 DEF Init, TypeOK, SessionState, TimerHandler

LEMMA SendType ==
  ASSUME writes \in [Session -> 0..MaxWrites], NEW S, Send(S)
  PROVE  writes' \in [Session -> 0..MaxWrites]
  BY DEF Send

LEMMA TailType ==
  ASSUME NEW q \in Seq(Handler), q # <<>>
  PROVE  Tail(q) \in Seq(Handler)
  OBVIOUS

LEMMA AppendType ==
  ASSUME NEW q \in Seq(Handler), NEW h \in Handler
  PROVE  Append(q, h) \in Seq(Handler)
  OBVIOUS

LEMMA ReactorType ==
  ASSUME TypeOK, NEW s \in Session, Reactor(s)
  PROVE  TypeOK'
<1>1. ASSUME NEW h \in ReadHandler, ReadCompletes(s, h) PROVE TypeOK'
  <2>1. Append(strand[s], h) \in Seq(Handler)
    BY AppendType DEF TypeOK, Handler
  <2> QED BY <1>1, <2>1 DEF ReadCompletes, TypeOK, pings, registry, listener
<1>2. ASSUME NEW ok \in BOOLEAN, WriteCompletes(s, ok) PROVE TypeOK'
  <2>1. Append(strand[s], "writeError") \in Seq(Handler)
    BY AppendType DEF TypeOK, Handler
  <2> QED BY <1>2, <2>1 DEF WriteCompletes, TypeOK, pings, registry, listener
<1>3. CASE TimerExpires(s)
  <2>1. Append(strand[s], timer[s]) \in Seq(Handler)
    BY <1>3, AppendType DEF TypeOK, Handler, TimerExpires
  <2> QED BY <1>3, <2>1 DEF TimerExpires, TypeOK, pings, registry, listener
<1> QED BY <1>1, <1>2, <1>3 DEF Reactor

LEMMA OnSessionDisconnectedType ==
  ASSUME TypeOK, NEW s \in Session, OnSessionDisconnected(s)
  PROVE  /\ activeConnections' \in Int
         /\ sessionsByUser' \in [User -> Session \cup {None}]
         /\ usersBySession' \in [Session -> User \cup {None}]
         /\ pc' \in [Session -> {"idle", "auth", "announce", "offline"}]
<1>1. activeConnections' \in Int
  BY DEF OnSessionDisconnected, TypeOK
<1>2. CASE usersBySession[s] # None
  BY <1>1, <1>2 DEF OnSessionDisconnected, TypeOK
<1>3. CASE usersBySession[s] = None
  BY <1>1, <1>3 DEF OnSessionDisconnected, TypeOK, registry
<1> QED BY <1>2, <1>3

LEMMA ListenerType ==
  ASSUME TypeOK,
         \/ AcceptCompletes \/ Shutdown
         \/ \E s \in Session : Accept(s)
         \/ \E u \in User : AdminKick(u)
  PROVE  TypeOK'
<1>1. CASE AcceptCompletes
  BY <1>1 DEF AcceptCompletes, TypeOK, pings, registry
<1>2. CASE Shutdown
  <2>1. \A s \in Session : Append(strand[s], "close") \in Seq(Handler)
    BY AppendType DEF TypeOK, Handler
  <2> QED BY <1>2, <2>1 DEF Shutdown, TypeOK, pings
<1>3. ASSUME NEW s \in Session, Accept(s) PROVE TypeOK'
  <2>1. CASE UNCHANGED <<activeConnections, state, reading>>
    BY <1>3, <2>1 DEF Accept, TypeOK, pings, registry
  <2>2. CASE /\ activeConnections' = activeConnections + 1
             /\ state' = [state EXCEPT ![s] = "Handshake"]
             /\ reading' = [reading EXCEPT ![s] = TRUE]
    <3>1. activeConnections' \in Int
      BY <2>2 DEF TypeOK
    <3>2. /\ state' \in [Session -> SessionState]
          /\ reading' \in [Session -> BOOLEAN]
      BY <2>2 DEF TypeOK, SessionState
    <3> QED BY <1>3, <3>1, <3>2 DEF Accept, TypeOK, pings, registry
  <2> QED BY <1>3, <2>1, <2>2 DEF Accept
<1>4. ASSUME NEW u \in User, AdminKick(u) PROVE TypeOK'
  <2>1. Append(strand[sessionsByUser[u]], "close") \in Seq(Handler)
    BY <1>4, AppendType DEF AdminKick, TypeOK, Handler
  <2> QED BY <1>4, <2>1 DEF AdminKick, TypeOK, pings, registry, listener
<1> QED BY <1>1, <1>2, <1>3, <1>4

LEMMA PopType ==
  ASSUME TypeOK, NEW s \in Session, NEW h, Runs(s, h)
  PROVE  /\ Pop(s) => strand' \in [Session -> Seq(Handler)]
         /\ PopAndDisconnect(s) => strand' \in [Session -> Seq(Handler)]
<1>1. Tail(strand[s]) \in Seq(Handler)
  BY TailType DEF TypeOK, Runs
<1>2. Append(Tail(strand[s]), "close") \in Seq(Handler)
  BY <1>1, AppendType DEF Handler
<1>3. ASSUME Pop(s) PROVE strand' \in [Session -> Seq(Handler)]
  BY <1>1, <1>3 DEF Pop, TypeOK
<1>4. ASSUME PopAndDisconnect(s) PROVE strand' \in [Session -> Seq(Handler)]
  BY <1>2, <1>4 DEF PopAndDisconnect, TypeOK
<1> QED BY <1>3, <1>4

LEMMA FrameType ==
  ASSUME TypeOK, NEW s \in Session,
         \/ HandshakeDone(s) \/ HandleHello(s) \/ HandlePong(s) \/ RejectFrame(s)
         \/ \E u \in User : CheckNickname(s, u)
         \/ \E S \in SUBSET Session : HandleFrame(s, S)
  PROVE  TypeOK'
<1>1. CASE HandshakeDone(s)
  BY <1>1, PopType DEF HandshakeDone, TypeOK, pings, registry, listener, SessionState
<1>2. CASE HandleHello(s)
  BY <1>2, PopType, SendType
     DEF HandleHello, ReadNext, TypeOK, pings, registry, listener, SessionState
<1>3. CASE HandlePong(s)
  BY <1>3, PopType DEF HandlePong, ReadNext, TypeOK, registry, listener, TimerHandler
<1>4. CASE RejectFrame(s)
  BY <1>4, PopType, SendType DEF RejectFrame, ReadNext, TypeOK, pings, registry, listener
<1>5. ASSUME NEW u \in User, CheckNickname(s, u) PROVE TypeOK'
  BY <1>5, PopType DEF CheckNickname, TypeOK, pings, registry, listener
<1>6. ASSUME NEW S \in SUBSET Session, HandleFrame(s, S) PROVE TypeOK'
  BY <1>6, PopType, SendType DEF HandleFrame, ReadNext, TypeOK, pings, registry, listener
<1> QED BY <1>1, <1>2, <1>3, <1>4, <1>5, <1>6

LEMMA AuthType ==
  ASSUME TypeOK, NEW s \in Session,
         \/ Authenticate(s) \/ AnnounceOnline(s) \/ AnnounceOffline(s)
         \/ \E exception \in BOOLEAN : RefuseCredentials(s, exception)
  PROVE  TypeOK'
<1> \A t \in Session : Append(strand[t], "close") \in Seq(Handler)
  BY AppendType DEF TypeOK, Handler
<1>1. CASE Authenticate(s)
  <2>1. writes' \in [Session -> 0..MaxWrites]
    BY <1>1, SendType DEF Authenticate, TypeOK
  <2>2. /\ strand' \in [Session -> Seq(Handler)]
        /\ sessionsByUser' \in [User -> Session \cup {None}]
        /\ usersBySession' \in [Session -> User \cup {None}]
    BY <1>1 DEF Authenticate, OnSessionAuthenticated, TypeOK
  <2> QED
    BY <1>1, <2>1, <2>2 DEF Authenticate, TypeOK, listener, SessionState, TimerHandler
<1>2. CASE AnnounceOnline(s)
  BY <1>2, SendType DEF AnnounceOnline, ReadNext, TypeOK, pings, registry, listener
<1>3. CASE AnnounceOffline(s)
  BY <1>3, SendType DEF AnnounceOffline, TypeOK, pings, registry, listener
<1>4. ASSUME NEW exception \in BOOLEAN, RefuseCredentials(s, exception) PROVE TypeOK'
  <2>1. writes' \in [Session -> 0..MaxWrites]
    BY <1>4, SendType DEF RefuseCredentials, TypeOK
  <2>2. strand' \in [Session -> Seq(Handler)]
    BY <1>4 DEF RefuseCredentials, TypeOK
  <2> QED
    BY <1>4, <2>1, <2>2 DEF RefuseCredentials, ReadNext, TypeOK, pings, registry, listener
<1> QED BY <1>1, <1>2, <1>3, <1>4

LEMMA EndType ==
  ASSUME TypeOK, NEW s \in Session,
         \/ Close(s) \/ PingInterval(s) \/ PingTimeout(s)
         \/ \E h \in Handler : ConnectionLost(s, h)
  PROVE  TypeOK'
<1>1. CASE Close(s)
  BY <1>1, PopType DEF Close, TypeOK, registry, listener, SessionState
<1>2. CASE PingInterval(s)
  <2>1. strand' \in [Session -> Seq(Handler)]
    BY <1>2, PopType DEF PingInterval
  <2>2. CASE state[s] # "Established" \/ ~Referenced(s)
    BY <1>2, <2>1, <2>2 DEF PingInterval, TypeOK, registry, pings, listener
  <2>3. CASE ~(state[s] # "Established" \/ ~Referenced(s)) /\ pingSent[s]
    BY <1>2, <2>1, <2>3, OnSessionDisconnectedType DEF PingInterval, TypeOK, pings, listener
  <2>4. CASE ~(state[s] # "Established" \/ ~Referenced(s)) /\ ~pingSent[s]
    <3>1. writes' \in [Session -> 0..MaxWrites]
      BY <1>2, <2>4, SendType DEF PingInterval, TypeOK
    <3> QED
      BY <1>2, <2>1, <2>4, <3>1 DEF PingInterval, TypeOK, registry, listener, TimerHandler
  <2> QED BY <2>2, <2>3, <2>4
<1>3. CASE PingTimeout(s)
  <2>1. strand' \in [Session -> Seq(Handler)]
    BY <1>3, PopType DEF PingTimeout
  <2> QED
    BY <1>3, <2>1, OnSessionDisconnectedType
       DEF PingTimeout, TypeOK, registry, pings, listener
<1>4. ASSUME NEW h \in Handler, ConnectionLost(s, h) PROVE TypeOK'
  <2>1. strand' \in [Session -> Seq(Handler)]
    BY <1>4, PopType DEF ConnectionLost
  <2>2. writes' \in [Session -> 0..MaxWrites]
    BY <1>4, SendType DEF ConnectionLost, TypeOK
  <2> QED
    BY <1>4, <2>1, <2>2, OnSessionDisconnectedType DEF ConnectionLost, TypeOK, pings, listener
<1> QED BY <1>1, <1>2, <1>3, <1>4

LEMMA StepType == TypeOK /\ [Next]_vars => TypeOK'
<1> SUFFICES ASSUME TypeOK, [Next]_vars PROVE TypeOK'
  OBVIOUS
<1>1. CASE UNCHANGED vars
  BY <1>1 DEF vars, TypeOK
<1>2. CASE AcceptCompletes \/ Shutdown \/ \E u \in User : AdminKick(u)
  BY <1>2, ListenerType
<1>3. ASSUME NEW s \in Session, Accept(s) PROVE TypeOK'
  BY <1>3, ListenerType
<1>4. ASSUME NEW s \in Session, Reactor(s) PROVE TypeOK'
  BY <1>4, ReactorType
<1>5. ASSUME NEW s \in Session, Strand(s) PROVE TypeOK'
  BY <1>5, FrameType, AuthType, EndType DEF Strand
<1> QED BY <1>1, <1>2, <1>3, <1>4, <1>5 DEF Next

(* Every variable of the sessions and the listener keeps its type, for any *)
(* number of sessions and users.                                           *)
THEOREM TypeCorrect == Spec => []TypeOK
  BY InitType, StepType, PTL DEF Spec

-----------------------------------------------------------------------------
(* What the queue operations do to Has and AtMostOne. *)

LEMMA TailFacts ==
  ASSUME NEW q \in Seq(Handler), q # <<>>, NEW H
  PROVE  /\ Has(Tail(q), H) => Has(q, H)
         /\ AtMostOne(q, H) => AtMostOne(Tail(q), H)
         /\ AtMostOne(q, H) /\ Head(q) \in H => ~Has(Tail(q), H)
<1>1. /\ Len(q) \in Nat \ {0} /\ Len(Tail(q)) = Len(q) - 1 /\ Head(q) = q[1]
      /\ \A i \in 1..Len(Tail(q)) : Tail(q)[i] = q[i + 1] /\ i + 1 \in 2..Len(q)
  OBVIOUS
<1>2. Has(Tail(q), H) => Has(q, H)
  BY <1>1 DEF Has
<1>3. AtMostOne(q, H) => AtMostOne(Tail(q), H)
  <2> SUFFICES ASSUME AtMostOne(q, H), NEW i \in 1..Len(Tail(q)), NEW j \in 1..Len(Tail(q)),
                      Tail(q)[i] \in H, Tail(q)[j] \in H
               PROVE  i = j
    BY DEF AtMostOne
  <2>1. q[i + 1] \in H /\ q[j + 1] \in H /\ i + 1 \in 1..Len(q) /\ j + 1 \in 1..Len(q)
    BY <1>1
  <2>2. i + 1 = j + 1
    BY <2>1 DEF AtMostOne
  <2> QED BY <2>2
<1>4. ASSUME AtMostOne(q, H), Head(q) \in H, Has(Tail(q), H) PROVE FALSE
  <2>1. PICK i \in 1..Len(Tail(q)) : Tail(q)[i] \in H
    BY <1>4 DEF Has
  <2>2. q[i + 1] \in H /\ i + 1 \in 1..Len(q) /\ 1 \in 1..Len(q) /\ q[1] \in H
    BY <1>1, <1>4, <2>1
  <2>3. i + 1 = 1
    BY <1>4, <2>2 DEF AtMostOne
  <2> QED BY <2>3
<1> QED BY <1>2, <1>3, <1>4

LEMMA AppendFacts ==
  ASSUME NEW q \in Seq(Handler), NEW h \in Handler, NEW H
  PROVE  /\ Has(Append(q, h), H) => Has(q, H) \/ h \in H
         /\ AtMostOne(q, H) /\ h \notin H => AtMostOne(Append(q, h), H)
         /\ ~Has(q, H) => AtMostOne(Append(q, h), H)
<1>1. /\ Len(q) \in Nat /\ Len(Append(q, h)) = Len(q) + 1
      /\ Append(q, h)[Len(q) + 1] = h
      /\ \A i \in 1..Len(q) : Append(q, h)[i] = q[i]
  OBVIOUS
<1>2. \A i \in 1..(Len(q) + 1) : i = Len(q) + 1 \/ i \in 1..Len(q)
  BY <1>1
<1>3. Has(Append(q, h), H) => Has(q, H) \/ h \in H
  BY <1>1, <1>2 DEF Has
<1>4. AtMostOne(q, H) /\ h \notin H => AtMostOne(Append(q, h), H)
  BY <1>1, <1>2 DEF AtMostOne
<1>5. ~Has(q, H) => AtMostOne(Append(q, h), H)
  BY <1>1, <1>2 DEF AtMostOne, Has
<1> QED BY <1>3, <1>4, <1>5

LEMMA CloseFacts ==
  ASSUME NEW q \in Seq(Handler)
  PROVE  /\ AtMostOne(q, ReadHandler) => AtMostOne(Append(q, "close"), ReadHandler)
         /\ Has(Append(q, "close"), ReadHandler) => Has(q, ReadHandler)
         /\ Has(Append(q, "close"), {"handshake"}) => Has(q, {"handshake"})
  BY AppendFacts DEF Handler, ReadHandler

LEMMA PlainFacts ==
  ASSUME NEW q \in Seq(Handler), NEW h \in {"writeError", "interval", "timeout"}
  PROVE  /\ AtMostOne(q, ReadHandler) => AtMostOne(Append(q, h), ReadHandler)
         /\ Has(Append(q, h), ReadHandler) => Has(q, ReadHandler)
         /\ Has(Append(q, h), {"handshake"}) => Has(q, {"handshake"})
         /\ Has(Append(q, h), {"close"}) => Has(q, {"close"})
<1>1. h \in Handler /\ h \notin ReadHandler /\ h \notin {"handshake"} /\ h \notin {"close"}
  BY DEF Handler, ReadHandler, TimerHandler
<1> QED BY <1>1, AppendFacts

LEMMA EmptyFacts == \A H : ~Has(<<>>, H) /\ AtMostOne(<<>>, H)
  BY DEF Has, AtMostOne

-----------------------------------------------------------------------------
(* The inductive invariant. *)

Inv == TypeOK /\ RegistryBijection /\ RegisteredAreAuthenticated
       /\ SingleReadChain /\ StrandMatchesState

Registry == RegistryBijection /\ RegisteredAreAuthenticated
Strands  == SingleReadChain /\ StrandMatchesState

LEMMA InitInv == Init => Inv
<1> SUFFICES ASSUME Init PROVE Inv
  OBVIOUS
<1>1. TypeOK
  BY InitType
<1>2. Registry
  BY DEF Init, Registry, RegistryBijection, RegisteredAreAuthenticated, Registered
<1>3. Strands
  BY EmptyFacts DEF Init, Strands, SingleReadChain, StrandMatchesState
<1> QED BY <1>1, <1>2, <1>3 DEF Inv, Registry, Strands

(* What is known of the queue of s while its oldest handler h runs. *)
LEMMA PopFacts ==
  ASSUME Inv, NEW s \in Session, NEW h, Runs(s, h)
  PROVE  /\ Tail(strand[s]) \in Seq(Handler)
         /\ AtMostOne(Tail(strand[s]), ReadHandler)
         /\ h \in ReadHandler => ~Has(Tail(strand[s]), ReadHandler)
         /\ Has(Tail(strand[s]), ReadHandler) => Has(strand[s], ReadHandler)
         /\ Has(Tail(strand[s]), {"handshake"}) => Has(strand[s], {"handshake"})
         /\ Has(Tail(strand[s]), {"close"}) => Has(strand[s], {"close"})
         /\ h \in ReadHandler => ~Has(Tail(strand[s]), {"handshake"})
         /\ Has(strand[s], {h}) /\ state[s] # "Unused" /\ pc[s] = "idle"
<1>1. strand[s] \in Seq(Handler) /\ strand[s] # <<>> /\ Head(strand[s]) = h /\ pc[s] = "idle"
  BY DEF Inv, TypeOK, Runs
<1>2. AtMostOne(strand[s], ReadHandler) /\ state[s] # "Unused"
  BY <1>1 DEF Inv, SingleReadChain, StrandMatchesState
<1>3. Has(strand[s], {h})
  <2>1. 1 \in 1..Len(strand[s]) /\ strand[s][1] = h
    BY <1>1
  <2> QED BY <2>1 DEF Has
<1>4. Tail(strand[s]) \in Seq(Handler)
  BY <1>1, TailType
<1>5. Has(Tail(strand[s]), {"handshake"}) => Has(Tail(strand[s]), ReadHandler)
  BY DEF Has, ReadHandler
<1> QED BY <1>1, <1>2, <1>3, <1>4, <1>5, TailFacts

LEMMA ReactorStrands ==
  ASSUME Inv, NEW s \in Session, Reactor(s)
  PROVE  Strands'
<1> USE DEF Inv
<1>0. strand[s] \in Seq(Handler) /\ strand \in [Session -> Seq(Handler)]
  BY DEF TypeOK
<1>1. ASSUME NEW h \in ReadHandler, ReadCompletes(s, h) PROVE Strands'
  <2>1. h \in Handler /\ h \notin {"close"} /\ (h = "handshake" => state[s] = "Handshake")
    BY <1>1 DEF ReadCompletes, Handler, ReadHandler
  <2>2. /\ AtMostOne(Append(strand[s], h), ReadHandler)
        /\ Has(Append(strand[s], h), {"handshake"}) => Has(strand[s], {"handshake"}) \/ h = "handshake"
        /\ Has(Append(strand[s], h), {"close"}) => Has(strand[s], {"close"})
    <3>1. ~Has(strand[s], ReadHandler)
      BY <1>1 DEF ReadCompletes, SingleReadChain
    <3> QED BY <1>0, <2>1, <3>1, AppendFacts
  <2>3. /\ strand' = [strand EXCEPT ![s] = Append(@, h)]
        /\ reading' = [reading EXCEPT ![s] = FALSE] /\ reading[s]
        /\ UNCHANGED <<state, userId, pc, claim, writes, timer>>
    BY <1>1 DEF ReadCompletes, pings
  <2>4. SingleReadChain'
    BY <1>0, <2>2, <2>3 DEF SingleReadChain, TypeOK
  <2>5. StrandMatchesState'
    BY <1>0, <2>1, <2>2, <2>3 DEF StrandMatchesState, TypeOK
  <2> QED BY <2>4, <2>5 DEF Strands
<1>2. ASSUME NEW ok \in BOOLEAN, WriteCompletes(s, ok) PROVE Strands'
  <2>1. /\ strand' = strand \/ strand' = [strand EXCEPT ![s] = Append(@, "writeError")]
        /\ writes' = [writes EXCEPT ![s] = @ - 1] /\ writes[s] > 0
        /\ UNCHANGED <<state, userId, pc, claim, reading, timer>>
    BY <1>2 DEF WriteCompletes, pings
  <2>2. state[s] # "Unused"
    BY <2>1 DEF StrandMatchesState
  <2>3. CASE strand' = strand
    BY <2>1, <2>2, <2>3 DEF Strands, SingleReadChain, StrandMatchesState, TypeOK
  <2>4. CASE strand' = [strand EXCEPT ![s] = Append(@, "writeError")]
    <3>1. SingleReadChain'
      BY <1>0, <2>1, <2>4, PlainFacts DEF SingleReadChain
    <3>2. StrandMatchesState'
      BY <1>0, <2>1, <2>2, <2>4, PlainFacts DEF StrandMatchesState, TypeOK
    <3> QED BY <3>1, <3>2 DEF Strands
  <2> QED BY <2>1, <2>3, <2>4
<1>3. CASE TimerExpires(s)
  <2>1. /\ timer[s] \in {"interval", "timeout"}
        /\ strand' = [strand EXCEPT ![s] = Append(@, timer[s])]
        /\ timer' = [timer EXCEPT ![s] = "off"]
        /\ UNCHANGED <<state, userId, pc, claim, reading, writes>>
    BY <1>3 DEF TimerExpires, TypeOK, TimerHandler
  <2>2. state[s] # "Unused"
    BY <2>1 DEF StrandMatchesState
  <2>3. SingleReadChain'
    BY <1>0, <2>1, PlainFacts DEF SingleReadChain
  <2>4. StrandMatchesState'
    BY <1>0, <2>1, <2>2, PlainFacts DEF StrandMatchesState, TypeOK
  <2> QED BY <2>3, <2>4 DEF Strands
<1> QED BY <1>1, <1>2, <1>3 DEF Reactor

LEMMA ReactorRegistry ==
  ASSUME Inv, NEW s \in Session, Reactor(s)
  PROVE  Registry'
  BY DEF Inv, Reactor, ReadCompletes, WriteCompletes, TimerExpires, registry,
         Registry, RegistryBijection, RegisteredAreAuthenticated, Registered

-----------------------------------------------------------------------------
(* The listener preserves the invariant. *)

(* A session in the registry has been through the handshake. *)
LEMMA RegisteredState ==
  ASSUME Inv, NEW u \in User, sessionsByUser[u] # None
  PROVE  /\ sessionsByUser[u] \in Session
         /\ usersBySession[sessionsByUser[u]] = u
         /\ state[sessionsByUser[u]] \in {"Established", "Dead"}
  BY DEF Inv, TypeOK, RegistryBijection, RegisteredAreAuthenticated, Registered

(* disconnect() called from other threads on sessions of the registry. *)
LEMMA DisconnectsPosted ==
  ASSUME Inv,
         UNCHANGED <<state, userId, pc, claim, reading, writes, timer>>,
         \A t \in Session :
           \/ strand'[t] = strand[t]
           \/ strand'[t] = Append(strand[t], "close") /\ state[t] \in {"Established", "Dead"}
  PROVE  Strands'
<1> USE DEF Inv
<1>1. ASSUME NEW t \in Session
      PROVE  /\ AtMostOne(strand'[t], ReadHandler)
             /\ Has(strand'[t], ReadHandler) => Has(strand[t], ReadHandler)
             /\ Has(strand'[t], {"handshake"}) => Has(strand[t], {"handshake"})
             /\ strand'[t] = strand[t] \/ state[t] \in {"Established", "Dead"}
  <2>1. strand[t] \in Seq(Handler) /\ AtMostOne(strand[t], ReadHandler)
    BY DEF TypeOK, SingleReadChain
  <2>2. CASE strand'[t] = strand[t]
    BY <2>1, <2>2
  <2>3. CASE strand'[t] = Append(strand[t], "close") /\ state[t] \in {"Established", "Dead"}
    BY <2>1, <2>3, CloseFacts
  <2> QED BY <2>2, <2>3
<1>2. SingleReadChain'
  BY <1>1 DEF SingleReadChain
<1>3. StrandMatchesState'
  BY <1>1 DEF StrandMatchesState
<1> QED BY <1>2, <1>3 DEF Strands

LEMMA ListenerInv ==
  ASSUME Inv,
         \/ AcceptCompletes \/ Shutdown
         \/ \E s \in Session : Accept(s)
         \/ \E u \in User : AdminKick(u)
  PROVE  Registry' /\ Strands'
<1> USE DEF Inv
<1>0. strand \in [Session -> Seq(Handler)]
  BY DEF TypeOK
<1>1. CASE AcceptCompletes
  BY <1>1 DEF AcceptCompletes, registry, pings, Registry, Strands, RegistryBijection,
     RegisteredAreAuthenticated, Registered, SingleReadChain, StrandMatchesState
<1>2. CASE Shutdown
  <2>1. Registry'
    BY <1>2 DEF Shutdown, Registry, RegistryBijection, RegisteredAreAuthenticated, Registered
  <2>2. UNCHANGED <<state, userId, pc, claim, reading, writes, timer>>
    BY <1>2 DEF Shutdown, pings
  <2>3. \A t \in Session :
          \/ strand'[t] = strand[t]
          \/ strand'[t] = Append(strand[t], "close") /\ state[t] \in {"Established", "Dead"}
    BY <1>2 DEF Shutdown, RegisteredAreAuthenticated
  <2> QED BY <2>1, <2>2, <2>3, DisconnectsPosted
<1>3. ASSUME NEW s \in Session, Accept(s) PROVE Registry' /\ Strands'
  <2>1. CASE state' = state /\ reading' = reading
    BY <1>3, <2>1 DEF Accept, registry, pings, Registry, Strands, RegistryBijection,
       RegisteredAreAuthenticated, Registered, SingleReadChain, StrandMatchesState
  <2>2. CASE /\ state' = [state EXCEPT ![s] = "Handshake"]
             /\ reading' = [reading EXCEPT ![s] = TRUE]
    <3>1. /\ state[s] = "Unused" /\ strand[s] = <<>> /\ pc[s] = "idle"
          /\ UNCHANGED <<userId, strand, pc, claim, writes, timer, sessionsByUser, usersBySession>>
      BY <1>3 DEF Accept, StrandMatchesState, pings, registry
    <3>2. Registry'
      BY <2>2, <3>1 DEF TypeOK, Registry, RegistryBijection, RegisteredAreAuthenticated, Registered
    <3>3. SingleReadChain'
      BY <2>2, <3>1, EmptyFacts DEF TypeOK, SingleReadChain
    <3>4. StrandMatchesState'
      BY <2>2, <3>1, EmptyFacts DEF TypeOK, StrandMatchesState
    <3> QED BY <3>2, <3>3, <3>4 DEF Strands
  <2> QED BY <1>3, <2>1, <2>2 DEF Accept
<1>4. ASSUME NEW u \in User, AdminKick(u) PROVE Registry' /\ Strands'
  <2>1. Registry'
    BY <1>4 DEF AdminKick, registry, Registry, RegistryBijection,
       RegisteredAreAuthenticated, Registered
  <2>2. UNCHANGED <<state, userId, pc, claim, reading, writes, timer>>
    BY <1>4 DEF AdminKick, pings
  <2>3. \A t \in Session :
          \/ strand'[t] = strand[t]
          \/ strand'[t] = Append(strand[t], "close") /\ state[t] \in {"Established", "Dead"}
    BY <1>0, <1>4, RegisteredState DEF AdminKick
  <2> QED BY <2>1, <2>2, <2>3, DisconnectsPosted
<1> QED BY <1>1, <1>2, <1>3, <1>4

-----------------------------------------------------------------------------
(* The handlers of one session preserve the invariant. *)

(* Strands, for one session that has been accepted. *)
StrandOf(s) ==
    /\ state[s] # "Unused"
    /\ AtMostOne(strand[s], ReadHandler)
    /\ reading[s] \/ pc[s] \in {"auth", "announce"} => ~Has(strand[s], ReadHandler)
    /\ pc[s] \in {"auth", "announce"} => ~reading[s]
    /\ Has(strand[s], {"handshake"}) => state[s] = "Handshake"
    /\ Has(strand[s], {"close"}) => state[s] \notin {"Unused", "Handshake"}
    /\ pc[s] = "auth" => state[s] = "AuthPending" /\ claim[s] \in User
    /\ userId[s] # None => state[s] \in {"Established", "Dead"}

(* A handler of s touches no other strand; it may write to sessions that   *)
(* have been accepted.                                                     *)
OthersKept(s) ==
    \A t \in Session \ {s} :
        /\ state'[t] = state[t] /\ userId'[t] = userId[t] /\ strand'[t] = strand[t]
        /\ pc'[t] = pc[t] /\ claim'[t] = claim[t] /\ reading'[t] = reading[t]
        /\ timer'[t] = timer[t]
        /\ state[t] = "Unused" => writes'[t] = writes[t]

LEMMA OneStrand ==
  ASSUME Inv, NEW s \in Session, StrandOf(s)', OthersKept(s)
  PROVE  Strands'
<1>1. SingleReadChain'
  BY DEF Inv, StrandOf, OthersKept, SingleReadChain
<1>2. StrandMatchesState'
  BY DEF Inv, StrandOf, OthersKept, StrandMatchesState
<1> QED BY <1>1, <1>2 DEF Strands

(* The registry only changes in three places; elsewhere it is enough that  *)
(* an authenticated session stays authenticated.                           *)
LEMMA RegistryKept ==
  ASSUME Inv, NEW s \in Session, UNCHANGED registry, UNCHANGED userId,
         \A t \in Session \ {s} : state'[t] = state[t],
         state[s] \in {"Established", "Dead"} => state'[s] \in {"Established", "Dead"}
  PROVE  Registry'
  BY DEF Inv, registry, Registry, RegistryBijection, RegisteredAreAuthenticated, Registered

LEMMA SendOthers ==
  ASSUME Inv, NEW s \in Session, NEW S, S \subseteq Registered \cup {s}, Send(S)
  PROVE  \A t \in Session \ {s} : state[t] = "Unused" => writes'[t] = writes[t]
  BY DEF Inv, Send, RegisteredAreAuthenticated, Registered

LEMMA FrameInv ==
  ASSUME Inv, NEW s \in Session,
         \/ HandshakeDone(s) \/ HandleHello(s) \/ HandlePong(s) \/ RejectFrame(s)
         \/ \E u \in User : CheckNickname(s, u)
         \/ \E S \in SUBSET Session : HandleFrame(s, S)
  PROVE  Registry' /\ Strands'
<1> USE DEF Inv
<1>1. CASE HandshakeDone(s)
  <2>1. OthersKept(s)
    BY <1>1 DEF HandshakeDone, Pop, OthersKept, TypeOK, pings
  <2>2. state[s] = "Handshake" /\ ~Has(Tail(strand[s]), {"handshake"})
    BY <1>1, PopFacts DEF HandshakeDone, StrandMatchesState, ReadHandler
  <2>3. StrandOf(s)'
    BY <1>1, <2>2, PopFacts
       DEF HandshakeDone, Pop, StrandOf, TypeOK, StrandMatchesState, ReadHandler
  <2>4. Registry'
    BY <1>1, <2>2, RegistryKept DEF HandshakeDone, TypeOK
  <2> QED BY <2>1, <2>3, <2>4, OneStrand
<1>2. CASE HandleHello(s)
  <2>1. OthersKept(s)
    BY <1>2, SendOthers DEF HandleHello, Pop, ReadNext, OthersKept, TypeOK, pings
  <2>2. StrandOf(s)'
    BY <1>2, PopFacts
       DEF HandleHello, Pop, StrandOf, TypeOK, StrandMatchesState, ReadHandler
  <2>3. Registry'
    BY <1>2, RegistryKept DEF HandleHello, TypeOK
  <2> QED BY <2>1, <2>2, <2>3, OneStrand
<1>3. CASE HandlePong(s)
  <2>1. OthersKept(s)
    BY <1>3 DEF HandlePong, Pop, ReadNext, OthersKept, TypeOK
  <2>2. StrandOf(s)'
    BY <1>3, PopFacts
       DEF HandlePong, Pop, StrandOf, TypeOK, StrandMatchesState, ReadHandler
  <2>3. Registry'
    BY <1>3, RegistryKept DEF HandlePong, TypeOK
  <2> QED BY <2>1, <2>2, <2>3, OneStrand
<1>4. CASE RejectFrame(s)
  <2>1. OthersKept(s)
    BY <1>4, SendOthers DEF RejectFrame, PopAndDisconnect, ReadNext, OthersKept, TypeOK, pings
  <2>2. StrandOf(s)'
    <3> DEFINE q == Tail(strand[s])
    <3>1. Runs(s, "frame") /\ "frame" \in ReadHandler
      BY <1>4 DEF RejectFrame, ReadHandler
    <3>2. /\ q \in Seq(Handler) /\ AtMostOne(q, ReadHandler)
          /\ ~Has(q, ReadHandler) /\ ~Has(q, {"handshake"})
      BY <3>1, PopFacts
    <3>3. /\ strand'[s] = Append(q, "close") /\ pc'[s] = "idle"
          /\ state'[s] = state[s] /\ state[s] \in {"Hello", "AuthPending", "Established"}
          /\ userId'[s] = userId[s]
      BY <1>4, PopFacts DEF RejectFrame, PopAndDisconnect, TypeOK
    <3> HIDE DEF q
    <3>4. /\ AtMostOne(strand'[s], ReadHandler) /\ ~Has(strand'[s], ReadHandler)
          /\ ~Has(strand'[s], {"handshake"})
      BY <3>2, <3>3, CloseFacts
    <3> QED BY <3>3, <3>4 DEF StrandOf, StrandMatchesState
  <2>3. Registry'
    BY <1>4, RegistryKept DEF RejectFrame, TypeOK
  <2> QED BY <2>1, <2>2, <2>3, OneStrand
<1>5. ASSUME NEW u \in User, CheckNickname(s, u) PROVE Registry' /\ Strands'
  <2>1. OthersKept(s)
    BY <1>5 DEF CheckNickname, Pop, OthersKept, TypeOK, pings
  <2>2. ~reading[s]
    BY <1>5, PopFacts DEF CheckNickname, SingleReadChain, Has, ReadHandler
  <2>3. StrandOf(s)'
    BY <1>5, <2>2, PopFacts
       DEF CheckNickname, Pop, StrandOf, TypeOK, StrandMatchesState, ReadHandler
  <2>4. Registry'
    BY <1>5, RegistryKept DEF CheckNickname, TypeOK
  <2> QED BY <2>1, <2>3, <2>4, OneStrand
<1>6. ASSUME NEW S \in SUBSET Session, HandleFrame(s, S) PROVE Registry' /\ Strands'
  <2>1. OthersKept(s)
    BY <1>6, SendOthers DEF HandleFrame, Recipients, Pop, ReadNext, OthersKept, TypeOK, pings
  <2>2. StrandOf(s)'
    BY <1>6, PopFacts
       DEF HandleFrame, ReadNext, Pop, StrandOf, TypeOK, StrandMatchesState, ReadHandler
  <2>3. Registry'
    BY <1>6, RegistryKept DEF HandleFrame, TypeOK
  <2> QED BY <2>1, <2>2, <2>3, OneStrand
<1> QED BY <1>1, <1>2, <1>3, <1>4, <1>5, <1>6

(* Registering s: the entry of an older session is taken over. *)
LEMMA AuthenticateRegistry ==
  ASSUME Inv, NEW s \in Session, Authenticate(s)
  PROVE  Registry'
<1> USE DEF Inv
<1>1. claim[s] \in User /\ state[s] = "AuthPending"
  BY DEF Authenticate, StrandMatchesState
<1>2. usersBySession[s] = None
  BY <1>1 DEF RegisteredAreAuthenticated, Registered
<1> DEFINE u == claim[s]
           old == sessionsByUser[u]
<1>3. old # s
  BY <1>1, <1>2 DEF RegistryBijection
<1>4. /\ sessionsByUser' = [sessionsByUser EXCEPT ![u] = s]
      /\ usersBySession' = [t \in Session |-> IF t = s THEN u
                                              ELSE IF t = old THEN None
                                              ELSE usersBySession[t]]
      /\ userId' = [userId EXCEPT ![s] = u]
      /\ state' = [state EXCEPT ![s] = "Established"]
  BY DEF Authenticate, OnSessionAuthenticated
<1>5. RegistryBijection'
  <2> SUFFICES ASSUME NEW t \in Session, NEW v \in User
               PROVE  sessionsByUser'[v] = t <=> usersBySession'[t] = v
    BY DEF RegistryBijection
  <2>1. sessionsByUser[v] = t <=> usersBySession[t] = v
    BY DEF RegistryBijection
  <2>2. sessionsByUser[u] = t <=> usersBySession[t] = u
    BY <1>1 DEF RegistryBijection
  <2> QED BY <1>1, <1>2, <1>3, <1>4, <2>1, <2>2 DEF TypeOK
<1>6. RegisteredAreAuthenticated'
  BY <1>1, <1>4 DEF RegisteredAreAuthenticated, Registered, TypeOK
<1> QED BY <1>5, <1>6 DEF Registry

LEMMA AuthInv ==
  ASSUME Inv, NEW s \in Session,
         \/ Authenticate(s) \/ AnnounceOnline(s) \/ AnnounceOffline(s)
         \/ \E exception \in BOOLEAN : RefuseCredentials(s, exception)
  PROVE  Registry' /\ Strands'
<1> USE DEF Inv
<1>1. CASE Authenticate(s)
  <2>1. claim[s] \in User /\ state[s] = "AuthPending" /\ usersBySession[s] = None
    BY <1>1 DEF Authenticate, StrandMatchesState, RegisteredAreAuthenticated, Registered
  <2>2. sessionsByUser[claim[s]] # s
    BY <2>1 DEF RegistryBijection
  <2>3. ASSUME NEW t \in Session
        PROVE  \/ strand'[t] = strand[t]
               \/ /\ strand'[t] = Append(strand[t], "close")
                  /\ t # s /\ state[t] \in {"Established", "Dead"}
    <3>1. CASE t = sessionsByUser[claim[s]]
      BY <1>1, <2>1, <2>2, <3>1, RegisteredState DEF Authenticate, OnSessionAuthenticated
    <3>2. CASE t # sessionsByUser[claim[s]]
      BY <1>1, <3>2 DEF Authenticate, OnSessionAuthenticated
    <3> QED BY <3>1, <3>2
  <2>4. ASSUME NEW t \in Session
        PROVE  /\ AtMostOne(strand'[t], ReadHandler)
               /\ Has(strand'[t], ReadHandler) => Has(strand[t], ReadHandler)
               /\ Has(strand'[t], {"handshake"}) => Has(strand[t], {"handshake"})
    <3>1. strand[t] \in Seq(Handler) /\ AtMostOne(strand[t], ReadHandler)
      BY DEF TypeOK, SingleReadChain
    <3>2. CASE strand'[t] = strand[t]
      BY <3>1, <3>2
    <3>3. CASE strand'[t] = Append(strand[t], "close")
      BY <3>1, <3>3, CloseFacts
    <3> QED BY <2>3, <3>2, <3>3
  <2>5. /\ strand'[s] = strand[s] /\ pc'[s] = "announce" /\ state'[s] = "Established"
        /\ UNCHANGED reading
        /\ \A t \in Session \ {s} :
             /\ pc'[t] = pc[t] /\ claim'[t] = claim[t] /\ userId'[t] = userId[t]
             /\ state'[t] = state[t] /\ timer'[t] = timer[t]
             /\ state[t] = "Unused" => writes'[t] = writes[t]
    BY <1>1, <2>3, SendOthers DEF Authenticate, TypeOK
  <2>6. SingleReadChain'
    BY <1>1, <2>4, <2>5 DEF SingleReadChain, Authenticate
  <2>7. StrandMatchesState'
    BY <2>1, <2>3, <2>4, <2>5 DEF StrandMatchesState
  <2> QED BY <1>1, <2>6, <2>7, AuthenticateRegistry DEF Strands
<1>2. CASE AnnounceOnline(s)
  <2>1. OthersKept(s)
    BY <1>2, SendOthers DEF AnnounceOnline, ReadNext, OthersKept, TypeOK, pings
  <2>2. StrandOf(s)'
    BY <1>2 DEF AnnounceOnline, StrandOf, TypeOK, SingleReadChain, StrandMatchesState
  <2>3. Registry'
    BY <1>2, RegistryKept DEF AnnounceOnline
  <2> QED BY <2>1, <2>2, <2>3, OneStrand
<1>3. CASE AnnounceOffline(s)
  <2>1. OthersKept(s)
    BY <1>3, SendOthers DEF AnnounceOffline, OthersKept, TypeOK, pings
  <2>2. StrandOf(s)'
    BY <1>3 DEF AnnounceOffline, StrandOf, TypeOK, SingleReadChain, StrandMatchesState
  <2>3. Registry'
    BY <1>3, RegistryKept DEF AnnounceOffline
  <2> QED BY <2>1, <2>2, <2>3, OneStrand
<1>4. ASSUME NEW exception \in BOOLEAN, RefuseCredentials(s, exception)
      PROVE  Registry' /\ Strands'
  <2>1. OthersKept(s)
    BY <1>4, SendOthers DEF RefuseCredentials, ReadNext, OthersKept, TypeOK, pings
  <2>2. strand[s] \in Seq(Handler) /\ AtMostOne(strand[s], ReadHandler)
        /\ ~Has(strand[s], ReadHandler) /\ state[s] = "AuthPending"
        /\ userId[s] = None
    BY <1>4 DEF RefuseCredentials, TypeOK, SingleReadChain, StrandMatchesState
  <2>3. strand'[s] = strand[s] \/ strand'[s] = Append(strand[s], "close")
    BY <1>4 DEF RefuseCredentials, TypeOK
  <2>4. /\ AtMostOne(strand'[s], ReadHandler) /\ ~Has(strand'[s], ReadHandler)
        /\ Has(strand'[s], {"handshake"}) => Has(strand[s], {"handshake"})
    <3>1. CASE strand'[s] = strand[s]
      BY <2>2, <3>1
    <3>2. CASE strand'[s] = Append(strand[s], "close")
      BY <2>2, <3>2, CloseFacts
    <3> QED BY <2>3, <3>1, <3>2
  <2>5. StrandOf(s)'
    BY <1>4, <2>2, <2>4 DEF RefuseCredentials, StrandOf, TypeOK, StrandMatchesState
  <2>6. Registry'
    BY <1>4, RegistryKept DEF RefuseCredentials
  <2> QED BY <2>1, <2>5, <2>6, OneStrand
<1> QED BY <1>1, <1>2, <1>3, <1>4

(* Unregistering s: its user's entry is its own. *)
LEMMA DisconnectedRegistry ==
  ASSUME Inv, NEW s \in Session, OnSessionDisconnected(s), UNCHANGED <<state, userId>>
  PROVE  Registry'
<1> USE DEF Inv
<1>1. CASE usersBySession[s] = None
  BY <1>1 DEF OnSessionDisconnected, registry, Registry, RegistryBijection,
     RegisteredAreAuthenticated, Registered
<1>2. CASE usersBySession[s] # None
  <2>1. /\ usersBySession[s] \in User
        /\ sessionsByUser' = [sessionsByUser EXCEPT ![usersBySession[s]] = None]
        /\ usersBySession' = [usersBySession EXCEPT ![s] = None]
    BY <1>2 DEF OnSessionDisconnected, TypeOK
  <2>2. RegistryBijection'
    BY <2>1 DEF RegistryBijection, TypeOK
  <2>3. RegisteredAreAuthenticated'
    BY <2>1 DEF RegisteredAreAuthenticated, Registered, TypeOK
  <2> QED BY <2>2, <2>3 DEF Registry
<1> QED BY <1>1, <1>2

(* A handler that removes itself from its queue and then, at most,         *)
(* unregisters its session or sends to it.                                 *)
LEMMA HandlerEnds ==
  ASSUME Inv, NEW s \in Session, NEW h, Runs(s, h), Pop(s),
         \/ OnSessionDisconnected(s)
         \/ UNCHANGED pc,
         Send({s}) \/ UNCHANGED writes,
         UNCHANGED <<state, userId, claim, reading>>,
         \A t \in Session \ {s} : timer'[t] = timer[t]
  PROVE  Strands'
<1> USE DEF Inv
<1>1. /\ \A t \in Session \ {s} : pc'[t] = pc[t]
      /\ pc'[s] \in {"idle", "offline"}
  BY PopFacts DEF OnSessionDisconnected, TypeOK, registry
<1>2. \A t \in Session \ {s} : state[t] = "Unused" => writes'[t] = writes[t]
  BY SendOthers
<1>3. OthersKept(s)
  BY <1>1, <1>2 DEF OthersKept, Pop, TypeOK
<1>4. strand'[s] = Tail(strand[s])
  BY DEF Pop, TypeOK
<1>5. StrandOf(s)'
  BY <1>1, <1>4, PopFacts DEF StrandOf, SingleReadChain, StrandMatchesState
<1> QED BY <1>3, <1>5, OneStrand

LEMMA EndInv ==
  ASSUME Inv, NEW s \in Session,
         \/ Close(s) \/ PingInterval(s) \/ PingTimeout(s)
         \/ \E h \in Handler : ConnectionLost(s, h)
  PROVE  Registry' /\ Strands'
<1> USE DEF Inv
<1>1. CASE Close(s)
  <2>1. OthersKept(s)
    BY <1>1 DEF Close, Pop, OthersKept, TypeOK
  <2>2. strand'[s] = Tail(strand[s]) /\ state'[s] = "Dead" /\ pc'[s] = "idle"
        /\ reading'[s] = reading[s] /\ userId'[s] = userId[s]
    BY <1>1, PopFacts DEF Close, Pop, TypeOK
  <2>3. ~Has(strand[s], {"handshake"})
    BY <1>1, PopFacts DEF Close, StrandMatchesState
  <2>4. StrandOf(s)'
    BY <1>1, <2>2, <2>3, PopFacts DEF Close, StrandOf, SingleReadChain
  <2>5. Registry'
    BY <1>1, RegistryKept DEF Close, TypeOK
  <2> QED BY <2>1, <2>4, <2>5, OneStrand
<1>2. CASE PingInterval(s)
  <2>1. Runs(s, "interval") /\ Pop(s) /\ UNCHANGED <<state, userId, claim, reading>>
    BY <1>2 DEF PingInterval
  <2>2. \A t \in Session \ {s} : timer'[t] = timer[t]
    BY <1>2 DEF PingInterval, pings, TypeOK
  <2>3. CASE OnSessionDisconnected(s) /\ UNCHANGED writes
    BY <2>1, <2>2, <2>3, HandlerEnds, DisconnectedRegistry
  <2>4. CASE UNCHANGED <<pc, registry>> /\ (Send({s}) \/ UNCHANGED writes)
    <3>1. Registry'
      BY <2>1, <2>4, RegistryKept
    <3> QED BY <2>1, <2>2, <2>4, <3>1, HandlerEnds
  <2> QED BY <1>2, <2>3, <2>4 DEF PingInterval
<1>3. CASE PingTimeout(s)
  <2>1. /\ Runs(s, "timeout") /\ Pop(s)
        /\ UNCHANGED <<state, userId, claim, reading, writes, timer>>
    BY <1>3 DEF PingTimeout, pings
  <2>2. CASE OnSessionDisconnected(s)
    BY <2>1, <2>2, HandlerEnds, DisconnectedRegistry
  <2>3. CASE UNCHANGED <<pc, registry>>
    <3>1. Registry'
      BY <2>1, <2>3, RegistryKept
    <3> QED BY <2>1, <2>3, <3>1, HandlerEnds
  <2> QED BY <1>3, <2>2, <2>3 DEF PingTimeout
<1>4. ASSUME NEW h \in Handler, ConnectionLost(s, h) PROVE Registry' /\ Strands'
  <2>1. /\ Runs(s, h) /\ Pop(s) /\ OnSessionDisconnected(s)
        /\ Send({s}) \/ UNCHANGED writes
        /\ UNCHANGED <<state, userId, claim, reading, timer>>
    BY <1>4 DEF ConnectionLost, pings
  <2> QED BY <2>1, HandlerEnds, DisconnectedRegistry
<1> QED BY <1>1, <1>2, <1>3, <1>4

-----------------------------------------------------------------------------
LEMMA StepInv == Inv /\ [Next]_vars => Inv'
<1> SUFFICES ASSUME Inv, [Next]_vars PROVE Inv'
  OBVIOUS
<1>1. TypeOK'
  BY StepType DEF Inv
<1>2. Registry' /\ Strands'
  <2>1. CASE UNCHANGED vars
    BY <2>1 DEF vars, Inv, Registry, Strands, RegistryBijection,
       RegisteredAreAuthenticated, Registered, SingleReadChain, StrandMatchesState
  <2>2. CASE AcceptCompletes \/ Shutdown \/ \E u \in User : AdminKick(u)
    BY <2>2, ListenerInv
  <2>3. ASSUME NEW s \in Session, Accept(s) PROVE Registry' /\ Strands'
    BY <2>3, ListenerInv
  <2>4. ASSUME NEW s \in Session, Reactor(s) PROVE Registry' /\ Strands'
    BY <2>4, ReactorRegistry, ReactorStrands
  <2>5. ASSUME NEW s \in Session, Strand(s) PROVE Registry' /\ Strands'
    BY <2>5, FrameInv, AuthInv, EndInv DEF Strand
  <2> QED BY <2>1, <2>2, <2>3, <2>4, <2>5 DEF Next
<1> QED BY <1>1, <1>2 DEF Inv, Registry, Strands

LEMMA Invariance == Spec => []Inv
  BY InitInv, StepInv, PTL DEF Spec

(* The two maps of the listener stay inverse to each other under every     *)
(* interleaving of on_session_authenticated, on_session_disconnected and   *)
(* shutdown.                                                               *)
THEOREM RegistryConsistent == Spec => []RegistryBijection
<1>1. Inv => RegistryBijection
  BY DEF Inv
<1> QED BY <1>1, Invariance, PTL

(* Whatever find_session returns has authenticated as the user asked for.  *)
THEOREM RegisteredAuthenticated == Spec => []RegisteredAreAuthenticated
<1>1. Inv => RegisteredAreAuthenticated
  BY DEF Inv
<1> QED BY <1>1, Invariance, PTL

(* Both together: the registry the rest of the server looks sessions up in *)
(* is sound.                                                               *)
THEOREM RegistryIsSound == Spec => []RegistrySound
<1>1. Inv => RegistrySound
  BY DEF Inv, RegistrySound
<1> QED BY <1>1, Invariance, PTL

(* No session ever has two reads, or a read and an unfinished frame        *)
(* handler, at the same time.                                              *)
THEOREM OneReadAtATime == Spec => []SingleReadChain
<1>1. Inv => SingleReadChain
  BY DEF Inv
<1> QED BY <1>1, Invariance, PTL

(* The queue of a session holds only what its state can expect: in         *)
(* particular no disconnect() is pending on a session in its handshake,    *)
(* which would come back to life when the handshake completes.             *)
THEOREM StrandMatches == Spec => []StrandMatchesState
<1>1. Inv => StrandMatchesState
  BY DEF Inv
<1> QED BY <1>1, Invariance, PTL

-----------------------------------------------------------------------------
(* Action properties. *)

LEMMA RankValues ==
  /\ Rank("Unused") = 0 /\ Rank("Handshake") = 1 /\ Rank("Hello") = 2
  /\ Rank("AuthPending") = 3 /\ Rank("Established") = 4 /\ Rank("Dead") = 5
  BY DEF Rank

LEMMA StepStates ==
  ASSUME Inv, [Next]_vars, NEW s \in Session
  PROVE  /\ Rank(state[s]) <= Rank(state'[s])
         /\ state[s] = "Dead" /\ ~reading[s] => ~reading'[s]
<1> USE DEF Inv
<1>0. state[s] \in SessionState
  BY DEF TypeOK
<1>1. ASSUME state'[s] = state[s] PROVE Rank(state[s]) <= Rank(state'[s])
  BY <1>0, <1>1, RankValues DEF SessionState
<1>2. ASSUME UNCHANGED <<state, reading>>
      PROVE  /\ Rank(state[s]) <= Rank(state'[s])
             /\ state[s] = "Dead" /\ ~reading[s] => ~reading'[s]
  BY <1>1, <1>2
<1>3. CASE UNCHANGED vars
  BY <1>2, <1>3 DEF vars
<1>4. CASE AcceptCompletes \/ Shutdown \/ \E u \in User : AdminKick(u)
  BY <1>2, <1>4 DEF AcceptCompletes, Shutdown, AdminKick
<1>5. ASSUME NEW t \in Session, Accept(t)
      PROVE  /\ Rank(state[s]) <= Rank(state'[s])
             /\ state[s] = "Dead" /\ ~reading[s] => ~reading'[s]
  <2>1. CASE UNCHANGED <<state, reading>>
    BY <1>2, <2>1
  <2>2. CASE s # t /\ state'[s] = state[s] /\ reading'[s] = reading[s]
    BY <1>1, <2>2
  <2>3. CASE s = t /\ state[s] = "Unused" /\ state'[s] = "Handshake"
    BY <2>3, RankValues
  <2> QED BY <1>5, <2>1, <2>2, <2>3 DEF Accept, TypeOK
<1>6. ASSUME NEW t \in Session, Reactor(t)
      PROVE  /\ Rank(state[s]) <= Rank(state'[s])
             /\ state[s] = "Dead" /\ ~reading[s] => ~reading'[s]
  BY <1>1, <1>6 DEF Reactor, ReadCompletes, WriteCompletes, TimerExpires, TypeOK
<1>7. ASSUME NEW t \in Session, Strand(t)
      PROVE  /\ Rank(state[s]) <= Rank(state'[s])
             /\ state[s] = "Dead" /\ ~reading[s] => ~reading'[s]
  <2>1. CASE HandshakeDone(t)
    <3>1. state[t] = "Handshake"
      BY <2>1, PopFacts DEF HandshakeDone, StrandMatchesState
    <3> QED BY <1>1, <2>1, <3>1, RankValues DEF HandshakeDone, TypeOK
  <2>2. CASE HandleHello(t)
    BY <1>1, <2>2, RankValues DEF HandleHello, ReadNext, TypeOK
  <2>3. CASE Authenticate(t)
    <3>1. state[t] = "AuthPending"
      BY <2>3 DEF Authenticate, StrandMatchesState
    <3> QED BY <1>1, <2>3, <3>1, RankValues DEF Authenticate, TypeOK
  <2>4. CASE Close(t)
    BY <1>0, <1>1, <2>4, RankValues DEF Close, TypeOK, SessionState
  <2>5. CASE \/ \E S \in SUBSET Session : HandleFrame(t, S)
             \/ HandlePong(t) \/ RejectFrame(t) \/ AnnounceOnline(t)
             \/ \E exception \in BOOLEAN : RefuseCredentials(t, exception)
    <3>1. state' = state /\ ReadNext(t)
      BY <2>5 DEF HandleFrame, HandlePong, RejectFrame, AnnounceOnline, RefuseCredentials
    <3> QED BY <1>1, <3>1 DEF ReadNext, TypeOK
  <2>6. CASE \/ \E u \in User : CheckNickname(t, u)
             \/ AnnounceOffline(t) \/ PingInterval(t) \/ PingTimeout(t)
             \/ \E h \in Handler : ConnectionLost(t, h)
    BY <1>2, <2>6 DEF CheckNickname, AnnounceOffline, PingInterval, PingTimeout, ConnectionLost
  <2> QED BY <1>7, <2>1, <2>2, <2>3, <2>4, <2>5, <2>6 DEF Strand
<1> QED BY <1>3, <1>4, <1>5, <1>6, <1>7 DEF Next

(* A session's state never goes back, and Dead is final.                   *)
THEOREM StatesForward == Spec => LifecycleForward
<1>1. Inv /\ [Next]_vars => [\A s \in Session : Rank(state[s]) <= Rank(state'[s])]_vars
  BY StepStates
<1> QED BY <1>1, Invariance, PTL DEF Spec, LifecycleForward

(* A Dead session starts no read.                                          *)
THEOREM DeadStopsReading == Spec => NoReadAfterDead
<1>1. Inv /\ [Next]_vars =>
        [\A s \in Session : state[s] = "Dead" /\ ~reading[s] => ~reading'[s]]_vars
  BY StepStates
<1> QED BY <1>1, Invariance, PTL DEF Spec, NoReadAfterDead

(* The four kinds of step, as the registry sees them. *)
LEMMA RegistrySteps ==
  ASSUME Inv, [Next]_vars
  PROVE  \/ UNCHANGED <<sessionsByUser, usersBySession, userId>>
         \/ \E s \in Session : Authenticate(s)
         \/ \E s \in Session : pc[s] = "idle" /\ OnSessionDisconnected(s) /\ UNCHANGED userId
         \/ Shutdown
<1> USE DEF registry
<1>1. CASE UNCHANGED vars
  BY <1>1 DEF vars
<1>2. CASE AcceptCompletes \/ \E u \in User : AdminKick(u)
  BY <1>2 DEF AcceptCompletes, AdminKick
<1>3. ASSUME NEW s \in Session, Accept(s) \/ Reactor(s)
      PROVE  UNCHANGED <<sessionsByUser, usersBySession, userId>>
  BY <1>3 DEF Accept, Reactor, ReadCompletes, WriteCompletes, TimerExpires
<1>4. ASSUME NEW s \in Session, Strand(s)
      PROVE  \/ UNCHANGED <<sessionsByUser, usersBySession, userId>>
             \/ Authenticate(s)
             \/ pc[s] = "idle" /\ OnSessionDisconnected(s) /\ UNCHANGED userId
  <2>1. CASE \/ HandshakeDone(s) \/ HandleHello(s) \/ HandlePong(s) \/ RejectFrame(s)
             \/ \E u \in User : CheckNickname(s, u)
             \/ \E S \in SUBSET Session : HandleFrame(s, S)
             \/ \E exception \in BOOLEAN : RefuseCredentials(s, exception)
             \/ AnnounceOnline(s) \/ AnnounceOffline(s) \/ Close(s)
    BY <2>1 DEF HandshakeDone, HandleHello, HandlePong, RejectFrame, CheckNickname,
       HandleFrame, RefuseCredentials, AnnounceOnline, AnnounceOffline, Close
  <2>2. CASE PingInterval(s) \/ PingTimeout(s) \/ \E h \in Handler : ConnectionLost(s, h)
    BY <2>2 DEF PingInterval, PingTimeout, ConnectionLost, Runs
  <2> QED BY <1>4, <2>1, <2>2 DEF Strand
<1> QED BY <1>1, <1>2, <1>3, <1>4 DEF Next

(* An entry goes away only at the hand of its own session, of a newer      *)
(* session of the same user, or of shutdown.                               *)
THEOREM EntriesLostByOwner == Spec => EntryLostOnlyByOwner
<1> DEFINE Lost(s) == usersBySession[s] # None /\ usersBySession'[s] = None
           Cause(s) == \/ pc[s] = "idle" /\ pc'[s] = "offline"
                       \/ sessionsByUser'[usersBySession[s]] \notin {s, None}
                       \/ ~shuttingDown /\ shuttingDown'
<1>1. ASSUME Inv, [Next]_vars, NEW s \in Session, Lost(s) PROVE Cause(s)
  <2> USE DEF Inv
  <2>1. ASSUME NEW t \in Session, Authenticate(t) PROVE Cause(s)
    <3>1. /\ claim[t] \in User /\ usersBySession[t] = None
      BY <2>1, <1>1
         DEF Authenticate, StrandMatchesState, RegisteredAreAuthenticated, Registered
    <3>2. s # t /\ s = sessionsByUser[claim[t]] /\ sessionsByUser'[claim[t]] = t
      BY <1>1, <2>1, <3>1 DEF Authenticate, OnSessionAuthenticated, TypeOK
    <3>3. usersBySession[s] = claim[t]
      BY <1>1, <3>1, <3>2 DEF RegistryBijection
    <3> QED BY <3>2, <3>3
  <2>2. ASSUME NEW t \in Session, pc[t] = "idle", OnSessionDisconnected(t) PROVE Cause(s)
    <3>1. t = s
      BY <1>1, <2>2 DEF OnSessionDisconnected, TypeOK, registry
    <3> QED BY <1>1, <2>2, <3>1 DEF OnSessionDisconnected, TypeOK
  <2>3. CASE Shutdown
    BY <2>3 DEF Shutdown
  <2> QED BY <1>1, <2>1, <2>2, <2>3, RegistrySteps
<1>2. Inv /\ [Next]_vars => [\A s \in Session : Lost(s) => Cause(s)]_vars
  BY <1>1
<1> QED BY <1>2, Invariance, PTL DEF Spec, EntryLostOnlyByOwner

(* The three together: what no step may do to a session.                   *)
THEOREM SessionsEnd == Spec => SessionsOnlyEnd
  BY StatesForward, DeadStopsReading, EntriesLostByOwner DEF SessionsOnlyEnd

-----------------------------------------------------------------------------
(* Refinement. *)

(* The listener and the sessions implement the session directory: every    *)
(* step is a login of a session that was never entered before, the logout  *)
(* of one user, a clear, or no step of the directory.                      *)
THEOREM DirectoryImplemented == Spec => ImplementsDirectory
<1> DEFINE served == {s \in Session : userId[s] # None}
<1>1. Init => Directory!Init
  BY DEF Init, Directory!Init
<1>2. ASSUME Inv, [Next]_vars
      PROVE  [Directory!Next]_<<sessionsByUser, served>>
  <2> USE DEF Inv
  <2>1. ASSUME NEW s \in Session, Authenticate(s) PROVE Directory!Next
    <3>1. claim[s] \in User /\ userId[s] = None
      BY <1>2, <2>1 DEF Authenticate, StrandMatchesState
    <3>2. sessionsByUser' = [sessionsByUser EXCEPT ![claim[s]] = s]
      BY <2>1 DEF Authenticate, OnSessionAuthenticated
    <3>3. s \notin served /\ served' = served \cup {s}
      BY <1>2, <2>1, <3>1 DEF Authenticate, TypeOK
    <3>4. \E u \in User : Directory!Login(s, u)
      BY <3>1, <3>2, <3>3 DEF Directory!Login
    <3> QED BY <3>4 DEF Directory!Next
  <2>2. ASSUME NEW s \in Session, OnSessionDisconnected(s), UNCHANGED userId
        PROVE  Directory!Next \/ UNCHANGED <<sessionsByUser, served>>
    <3>1. CASE usersBySession[s] = None
      BY <2>2, <3>1 DEF OnSessionDisconnected, registry
    <3>2. CASE usersBySession[s] # None
      <4> DEFINE u == usersBySession[s]
      <4>1. u \in User /\ sessionsByUser[u] # None
        BY <1>2, <3>2 DEF TypeOK, RegistryBijection
      <4>2. sessionsByUser' = [sessionsByUser EXCEPT ![u] = None] /\ served' = served
        BY <2>2, <3>2 DEF OnSessionDisconnected
      <4>3. Directory!Logout(u)
        BY <4>1, <4>2 DEF Directory!Logout
      <4> QED BY <4>1, <4>3 DEF Directory!Next
    <3> QED BY <3>1, <3>2
  <2>3. CASE Shutdown
    <3>1. served' = served
      BY <2>3 DEF Shutdown
    <3>2. Directory!Clear
      BY <2>3, <3>1 DEF Shutdown, Directory!Clear
    <3> QED BY <3>2 DEF Directory!Next
  <2>4. CASE UNCHANGED <<sessionsByUser, usersBySession, userId>>
    BY <2>4
  <2> QED BY <1>2, <2>1, <2>2, <2>3, <2>4, RegistrySteps
<1> QED BY <1>1, <1>2, Invariance, PTL DEF Spec, ImplementsDirectory, Directory!Spec
=============================================================================
