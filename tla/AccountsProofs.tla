--------------------------- MODULE AccountsProofs ---------------------------
(***************************************************************************)
(* Proofs about Accounts, for any sessions, users, keys and passwords, and *)
(* with failing statements and restarts.                                   *)
(***************************************************************************)
EXTENDS Accounts, TLAPS

(* Where a handler knows the identity it logs in with. *)
WithIdent == {"spk", "pass", "newSpk", "hasOld", "backfill", "register", "idle", "setNew"}

Handlers ==
    /\ \A s \in Session :
          /\ pc[s] = "new" => auth[s] = NoAuth
          /\ pc[s] # "new" => auth[s] \in Auth
          /\ pc[s] \in WithIdent => auth[s].ident \in Identity
          /\ pc[s] \in WithIdent \cup {"clear", "update"} => Exists(Me(s))
    /\ \A c \in Client : asking[c] # "idle" => bundle[c] \in Bundle

Shape == TypeOK /\ Handlers

LEMMA GotoIs ==
  ASSUME NEW s \in Session, NEW l, Goto(s, l), TypeOK
  PROVE  pc'[s] = l /\ \A t \in Session : t # s => pc'[t] = pc[t]
  BY DEF Goto, TypeOK

LEMMA ResetIs ==
  ASSUME NEW s \in Session, Reset(s), TypeOK
  PROVE  /\ pc'[s] = "new" /\ auth'[s] = NoAuth
         /\ \A t \in Session : t # s => pc'[t] = pc[t] /\ auth'[t] = auth[t]
         /\ pc' \in [Session -> {"new", "idle", "setNew"} \cup Login]
         /\ auth' \in [Session -> Auth \cup {NoAuth}]
  BY DEF Reset, Goto, TypeOK

LEMMA AuthFields ==
  ASSUME Shape, NEW s \in Session, pc[s] # "new"
  PROVE  /\ auth[s] \in Auth /\ auth[s].user \in User /\ auth[s].key \in Key
         /\ auth[s].pass \in Password \cup {None} /\ auth[s].ident \in Identity \cup {None}
  BY DEF Shape, Handlers, Auth

LEMMA AccountFields ==
  ASSUME TypeOK, NEW u \in User, Exists(u)
  PROVE  /\ users[u] \in Account /\ users[u].ident \in Identity /\ users[u].ident.gen \in Nat
         /\ users[u].pass \in Password \cup {None}
  BY DEF TypeOK, Exists, Account, Identity

(* A step of s at its login, which leaves the accounts there are.          *)
LEMMA LoginShape ==
  ASSUME Shape, NEW s \in Session, UNCHANGED requests,
         \A u \in User : Exists(u) => Exists(u)',
         pc' \in [Session -> {"new", "idle", "setNew"} \cup Login],
         auth' \in [Session -> Auth \cup {NoAuth}],
         \A t \in Session : t # s => pc'[t] = pc[t] /\ auth'[t] = auth[t],
         pc'[s] = "new" => auth'[s] = NoAuth,
         pc'[s] # "new" => auth'[s] \in Auth,
         pc'[s] \in WithIdent => auth'[s].ident \in Identity,
         pc'[s] \in WithIdent \cup {"clear", "update"} => users'[auth'[s].user] # None
  PROVE  Handlers'
<1>1. \A t \in Session : t # s =>
         /\ pc'[t] = "new" => auth'[t] = NoAuth
         /\ pc'[t] # "new" => auth'[t] \in Auth
         /\ pc'[t] \in WithIdent => auth'[t].ident \in Identity
  BY DEF Shape, Handlers
<1>2. \A t \in Session : t # s /\ pc'[t] \in WithIdent \cup {"clear", "update"} => Exists(Me(t))'
  <2> SUFFICES ASSUME NEW t \in Session, t # s, pc'[t] \in WithIdent \cup {"clear", "update"}
               PROVE  Exists(Me(t))'
    OBVIOUS
  <2>1. pc[t] \in WithIdent \cup {"clear", "update"} /\ pc[t] # "new" /\ auth'[t] = auth[t]
    BY DEF WithIdent
  <2>2. Me(t) \in User /\ Exists(Me(t))
    BY <2>1, AuthFields DEF Shape, Handlers, Me
  <2> QED BY <2>1, <2>2 DEF Me, Exists
<1> QED BY <1>1, <1>2 DEF Shape, Handlers, Me, requests, Exists

(* What an action does to the types it leaves alone. *)
Rest(s) ==
    /\ \A t \in Session : t # s => pc'[t] = pc[t] /\ auth'[t] = auth[t]
    /\ pc' \in [Session -> {"new", "idle", "setNew"} \cup Login]
    /\ auth' \in [Session -> Auth \cup {NoAuth}]

LEMMA GotoRest ==
  ASSUME TypeOK, NEW s \in Session, NEW l \in {"new", "idle", "setNew"} \cup Login, Goto(s, l), auth' = auth
  PROVE  Rest(s) /\ pc'[s] = l
  BY DEF TypeOK, Goto, Rest

LEMMA GotoAuthRest ==
  ASSUME TypeOK, NEW s \in Session, NEW l \in {"new", "idle", "setNew"} \cup Login, Goto(s, l),
         NEW a \in Auth \cup {NoAuth}, auth' = [auth EXCEPT ![s] = a]
  PROVE  Rest(s) /\ pc'[s] = l /\ auth'[s] = a
  BY DEF TypeOK, Goto, Rest

LEMMA AuthenticateShape ==
  ASSUME Shape, NEW s \in Session, NEW u \in User, NEW k \in Key, NEW p \in Password \cup {None},
         NEW b \in BOOLEAN, Authenticate(s, u, k, p, b)
  PROVE  Shape'
<1> DEFINE a == [user |-> u, key |-> k, pass |-> p, spk |-> b, ident |-> None]
<1>1. a \in Auth
  BY DEF Auth
<1>2. Rest(s) /\ pc'[s] = "find" /\ auth'[s] = a
  BY <1>1, GotoAuthRest DEF Authenticate, Shape, Login
<1>3. Handlers'
  BY <1>1, <1>2, LoginShape DEF Authenticate, Rest, requests, Exists, WithIdent
<1>4. TypeOK'
  BY <1>2 DEF Shape, TypeOK, Authenticate, Rest, keys, requests
<1> QED BY <1>3, <1>4 DEF Shape

LEMMA FindByIdShape ==
  ASSUME Shape, NEW s \in Session, NEW ok \in BOOLEAN, FindById(s, ok)
  PROVE  Shape'
<1> USE AccountsAssumption
<1>1. /\ pc[s] = "find" /\ auth[s] \in Auth /\ auth[s].user \in User
      /\ users' = users /\ UNCHANGED <<keys, registry, requests, overlap>>
  BY AuthFields DEF FindById
<1>2. Rest(s) /\ Handlers'
  <2>1. CASE Goto(s, "insert") /\ UNCHANGED auth
    <3>1. Rest(s) /\ pc'[s] = "insert"
      BY <2>1, GotoRest DEF Shape, Login
    <3> QED BY <1>1, <2>1, <3>1, LoginShape DEF Rest, WithIdent, Exists
  <2>2. CASE Goto(s, "has") /\ UNCHANGED auth
    <3>1. Rest(s) /\ pc'[s] = "has"
      BY <2>2, GotoRest DEF Shape, Login
    <3> QED BY <1>1, <2>2, <3>1, LoginShape DEF Rest, WithIdent, Exists
  <2>3. CASE Reset(s)
    <3>1. Rest(s) /\ pc'[s] = "new" /\ auth'[s] = NoAuth
      BY <2>3, ResetIs DEF Shape, Rest
    <3> QED BY <1>1, <3>1, LoginShape DEF Rest, WithIdent, Exists
  <2>4. CASE /\ Exists(auth[s].user)
             /\ Goto(s, IF auth[s].pass = None THEN "register" ELSE "hasOld")
             /\ auth' = [auth EXCEPT ![s].ident = users[auth[s].user].ident]
    <3> DEFINE l == IF auth[s].pass = None THEN "register" ELSE "hasOld"
               a == [auth[s] EXCEPT !.ident = users[auth[s].user].ident]
    <3>1. users[auth[s].user].ident \in Identity
      BY <1>1, <2>4, AccountFields DEF Shape
    <3>2. a \in Auth /\ a.ident \in Identity /\ a.user = auth[s].user
      BY <1>1, <3>1 DEF Auth
    <3>3. auth' = [auth EXCEPT ![s] = a]
      BY <2>4
    <3>4. l \in {"register", "hasOld"} /\ Goto(s, l)
      BY <2>4
    <3> HIDE DEF l, a
    <3>5. Rest(s) /\ pc'[s] = l /\ auth'[s] = a
      BY <3>2, <3>3, <3>4, GotoAuthRest DEF Shape, Login
    <3> QED BY <1>1, <2>4, <3>2, <3>4, <3>5, LoginShape DEF Rest, WithIdent, Exists
  <2> QED BY <2>1, <2>2, <2>3, <2>4 DEF FindById
<1>3. TypeOK'
  BY <1>1, <1>2 DEF Shape, TypeOK, Rest, keys, requests
<1> QED BY <1>2, <1>3 DEF Shape

LEMMA InsertShape ==
  ASSUME Shape, NEW s \in Session, NEW ok \in BOOLEAN, Insert(s, ok)
  PROVE  Shape'
<1> USE AccountsAssumption
<1> DEFINE u == auth[s].user
           ident == [key |-> auth[s].key, gen |-> 1]
<1>1. /\ pc[s] = "insert" /\ auth[s] \in Auth /\ u \in User /\ ident \in Identity
      /\ UNCHANGED <<keys, registry, requests, overlap>>
  BY AuthFields DEF Insert, Identity
<1>2. CASE ~(ok /\ InsertSucceeds(u))
  <2>1. users' = users /\ Rest(s) /\ pc'[s] = "new" /\ auth'[s] = NoAuth
    BY <1>2, ResetIs DEF Shape, Rest, Insert
  <2>2. Handlers'
    BY <1>1, <2>1, LoginShape DEF Rest, WithIdent, Exists
  <2> QED BY <1>1, <2>1, <2>2 DEF Shape, TypeOK, Rest, keys, requests
<1>3. CASE ok /\ InsertSucceeds(u)
  <2> DEFINE a == [auth[s] EXCEPT !.ident = ident]
             acc == [ident |-> ident, pass |-> None]
  <2>1. users' = [users EXCEPT ![u] = acc] /\ auth' = [auth EXCEPT ![s] = a] /\ Goto(s, "spk")
    BY <1>3 DEF Insert
  <2>2. a \in Auth /\ a.user = u /\ a.ident = ident /\ acc \in Account /\ acc # None
    BY <1>1 DEF Auth, Account
  <2>3. users' \in [User -> Account \cup {None}] /\ users'[u] # None
        /\ \A v \in User : Exists(v) => Exists(v)'
    BY <1>1, <2>1, <2>2 DEF Shape, TypeOK, Exists
  <2> HIDE DEF a, acc, ident, u
  <2>4. Rest(s) /\ pc'[s] = "spk" /\ auth'[s] = a
    BY <2>1, <2>2, GotoAuthRest DEF Shape, Login
  <2>5. Handlers'
    BY <1>1, <2>2, <2>3, <2>4, LoginShape DEF Rest, WithIdent
  <2> QED BY <1>1, <2>3, <2>4, <2>5 DEF Shape, TypeOK, Rest, keys, requests
<1> QED BY <1>2, <1>3

(* set_password changes no identity and makes no account. *)
LEMMA SetPasswordIs ==
  ASSUME TypeOK, NEW u \in User, NEW p \in Password \cup {None}, NEW ok \in BOOLEAN, SetPassword(u, p, ok)
  PROVE  /\ users' \in [User -> Account \cup {None}]
         /\ \A v \in User : (Exists(v)' <=> Exists(v)) /\ (Exists(v) => users'[v].ident = users[v].ident)
<1> USE AccountsAssumption
<1>1. CASE users' = users
  BY <1>1 DEF TypeOK, Exists
<1>2. CASE users' = [users EXCEPT ![u].pass = p] /\ Exists(u)
  <2> DEFINE acc == [users[u] EXCEPT !.pass = p]
  <2>1. users[u] \in Account
    BY <1>2, AccountFields
  <2>2. acc \in Account /\ acc.ident = users[u].ident /\ acc # None
    BY <2>1 DEF Account
  <2>3. users' = [users EXCEPT ![u] = acc]
    BY <1>2
  <2> HIDE DEF acc
  <2> QED BY <1>2, <2>2, <2>3 DEF TypeOK, Exists
<1> QED BY <1>1, <1>2 DEF SetPassword

(* The session of a handler keeps its user and, where it has one, its      *)
(* identity.                                                               *)
LEMMA OnwardShape ==
  ASSUME Shape, NEW s \in Session, pc[s] # "new",
         NEW l \in {"idle", "setNew"} \cup Login, Goto(s, l),
         NEW a \in Auth, auth' = [auth EXCEPT ![s] = a], a.user = auth[s].user, a.ident = auth[s].ident,
         l \in WithIdent => pc[s] \in WithIdent,
         l \in {"clear", "update"} => Exists(auth[s].user),
         UNCHANGED requests, \A u \in User : Exists(u) => Exists(u)'
  PROVE  Rest(s) /\ Handlers'
<1>1. Rest(s) /\ pc'[s] = l /\ auth'[s] = a
  BY GotoAuthRest DEF Shape
<1>2. a.user \in User
  BY DEF Auth
<1>3. l \in WithIdent => a.ident \in Identity /\ Exists(a.user)
  BY DEF Shape, Handlers, Me
<1>4. l # "new"
  BY DEF Login
<1>5. l \in WithIdent \cup {"clear", "update"} => users'[a.user] # None
  BY <1>2, <1>3 DEF Exists
<1> QED BY <1>1, <1>3, <1>4, <1>5, LoginShape DEF Rest

LEMMA SameAuth ==
  ASSUME Shape, NEW s \in Session, pc[s] # "new", auth' = auth
  PROVE  auth[s] \in Auth /\ auth' = [auth EXCEPT ![s] = auth[s]]
  BY AuthFields DEF Shape, TypeOK

LEMMA ResetShape ==
  ASSUME Shape, NEW s \in Session, Reset(s), UNCHANGED requests, \A u \in User : Exists(u) => Exists(u)'
  PROVE  Rest(s) /\ Handlers'
<1>1. Rest(s) /\ pc'[s] = "new" /\ auth'[s] = NoAuth
  BY ResetIs DEF Shape, Rest
<1> QED BY <1>1, LoginShape DEF Rest, WithIdent

LEMMA LoginSpkShape ==
  ASSUME Shape, NEW s \in Session, NEW ok \in BOOLEAN, LoginSpk(s, ok)
  PROVE  Shape'
<1>1. /\ pc[s] \in {"spk", "newSpk"} /\ pc[s] # "new" /\ users' = users
      /\ UNCHANGED <<opks, lastOpk, registry, requests, overlap>>
  BY DEF LoginSpk
<1>2. auth[s].user \in User /\ auth[s].ident \in Identity
  BY <1>1, AuthFields DEF Shape, Handlers, WithIdent
<1>3. spk' \in [User -> Identity \cup {None}]
  BY <1>2 DEF LoginSpk, Shape, TypeOK
<1>4. Rest(s) /\ Handlers'
  <2>1. CASE Goto(s, IF pc[s] = "spk" THEN "pass" ELSE "register") /\ UNCHANGED auth
    <3> DEFINE l == IF pc[s] = "spk" THEN "pass" ELSE "register"
    <3>1. l \in {"pass", "register"} /\ Goto(s, l) /\ auth' = auth
      BY <2>1
    <3> HIDE DEF l
    <3> QED BY <1>1, <3>1, SameAuth, OnwardShape DEF WithIdent, Login, Exists
  <2>2. CASE Reset(s)
    BY <1>1, <2>2, ResetShape DEF Exists
  <2> QED BY <2>1, <2>2 DEF LoginSpk
<1> QED BY <1>1, <1>3, <1>4 DEF Shape, TypeOK, Rest, requests

LEMMA LoginPasswordShape ==
  ASSUME Shape, NEW s \in Session, NEW ok \in BOOLEAN, LoginPassword(s, ok)
  PROVE  Shape'
<1>1. /\ pc[s] \in {"pass", "backfill"} /\ pc[s] # "new" /\ auth' = auth /\ Goto(s, "register")
      /\ UNCHANGED <<keys, registry, requests, overlap>>
  BY DEF LoginPassword
<1>2. Me(s) \in User /\ auth[s].pass \in Password \cup {None}
  BY <1>1, AuthFields DEF Me
<1>3. users' \in [User -> Account \cup {None}] /\ \A v \in User : Exists(v) => Exists(v)'
  BY <1>2, SetPasswordIs DEF LoginPassword, Shape
<1>4. Rest(s) /\ Handlers'
  BY <1>1, <1>3, SameAuth, OnwardShape DEF WithIdent, Login
<1> QED BY <1>1, <1>3, <1>4 DEF Shape, TypeOK, Rest, keys, requests

LEMMA HasPasswordShape ==
  ASSUME Shape, NEW s \in Session, NEW ok \in BOOLEAN, HasPassword(s, ok)
  PROVE  Shape'
<1>1. UNCHANGED <<users, keys, registry, requests, overlap>> /\ pc[s] \in {"has", "hasOld"}
  BY DEF HasPassword
<1>2. Rest(s) /\ Handlers'
  <2>1. CASE Reset(s)
    BY <1>1, <2>1, ResetShape DEF Exists
  <2>2. CASE pc[s] = "has" /\ Goto(s, "verify") /\ UNCHANGED auth
    BY <1>1, <2>2, SameAuth, OnwardShape DEF WithIdent, Login, Exists
  <2>3. CASE pc[s] = "hasOld" /\ Goto(s, "register") /\ UNCHANGED auth
    BY <1>1, <2>3, SameAuth, OnwardShape DEF WithIdent, Login, Exists
  <2>4. CASE pc[s] = "hasOld" /\ Goto(s, "backfill") /\ UNCHANGED auth
    BY <1>1, <2>4, SameAuth, OnwardShape DEF WithIdent, Login, Exists
  <2> QED BY <2>1, <2>2, <2>3, <2>4 DEF HasPassword
<1> QED BY <1>1, <1>2 DEF Shape, TypeOK, Rest, keys, requests

LEMMA LoginVerifyShape ==
  ASSUME Shape, NEW s \in Session, NEW ok \in BOOLEAN, LoginVerify(s, ok)
  PROVE  Shape'
<1>1. UNCHANGED <<users, keys, registry, requests, overlap>> /\ pc[s] = "verify" /\ pc[s] # "new"
  BY DEF LoginVerify
<1>2. Rest(s) /\ Handlers'
  <2>1. CASE Reset(s)
    BY <1>1, <2>1, ResetShape DEF Exists
  <2>2. CASE Exists(auth[s].user) /\ Goto(s, "clear") /\ UNCHANGED auth
    BY <1>1, <2>2, SameAuth, OnwardShape DEF WithIdent, Login, Exists
  <2> QED BY <2>1, <2>2 DEF LoginVerify, VerifyPassword, Me
<1> QED BY <1>1, <1>2 DEF Shape, TypeOK, Rest, keys, requests

LEMMA ClearShape ==
  ASSUME Shape, NEW s \in Session, NEW b \in BOOLEAN, NEW c \in BOOLEAN, ClearKeyMaterial(s, b, c)
  PROVE  Shape'
<1>1. /\ users' = users /\ UNCHANGED <<lastOpk, registry, requests, overlap>>
      /\ pc[s] = "clear" /\ pc[s] # "new"
      /\ opks' \subseteq opks /\ spk' \in [User -> Identity \cup {None}]
  BY DEF ClearKeyMaterial, Shape, TypeOK
<1>2. Rest(s) /\ Handlers'
  <2>1. CASE Reset(s)
    BY <1>1, <2>1, ResetShape DEF Exists
  <2>2. CASE Goto(s, "update") /\ UNCHANGED auth
    <3>1. Exists(auth[s].user)
      BY <1>1 DEF Shape, Handlers, Me
    <3> QED BY <1>1, <2>2, <3>1, SameAuth, OnwardShape DEF WithIdent, Login, Exists
  <2> QED BY <2>1, <2>2 DEF ClearKeyMaterial
<1> QED BY <1>1, <1>2 DEF Shape, TypeOK, Rest, requests

LEMMA UpdateShape ==
  ASSUME Shape, NEW s \in Session, NEW ok \in BOOLEAN, UpdateIdentityKey(s, ok)
  PROVE  Shape'
<1> USE AccountsAssumption
<1> DEFINE u == auth[s].user
           ident == [key |-> auth[s].key, gen |-> users[u].ident.gen + 1]
<1>1. /\ pc[s] = "update" /\ pc[s] # "new" /\ UNCHANGED <<keys, registry, requests, overlap>>
      /\ auth[s] \in Auth /\ u \in User /\ Exists(u)
  BY AuthFields DEF UpdateIdentityKey, Shape, Handlers, Me
<1>2. users[u] \in Account /\ users[u].ident.gen \in Nat
  BY <1>1, AccountFields DEF Shape
<1>3. ident \in Identity
  BY <1>1, <1>2, AuthFields DEF Identity
<1>4. CASE ~ok
  <2>1. users' = users /\ Reset(s)
    BY <1>4 DEF UpdateIdentityKey
  <2>2. Rest(s) /\ Handlers'
    BY <1>1, <2>1, ResetShape DEF Exists
  <2> QED BY <1>1, <2>1, <2>2 DEF Shape, TypeOK, Rest, keys, requests
<1>5. CASE ok
  <2> DEFINE a == [auth[s] EXCEPT !.ident = ident]
             acc == [users[u] EXCEPT !.ident = ident]
  <2>1. users' = [users EXCEPT ![u] = acc] /\ auth' = [auth EXCEPT ![s] = a] /\ Goto(s, "newSpk")
    BY <1>5 DEF UpdateIdentityKey
  <2>2. a \in Auth /\ a.user = u /\ a.ident = ident /\ acc \in Account /\ acc # None
    BY <1>1, <1>2, <1>3 DEF Auth, Account
  <2>3. users' \in [User -> Account \cup {None}] /\ users'[u] # None
        /\ \A v \in User : Exists(v) => Exists(v)'
    BY <1>1, <2>1, <2>2 DEF Shape, TypeOK, Exists
  <2> HIDE DEF a, acc, ident, u
  <2>4. Rest(s) /\ pc'[s] = "newSpk" /\ auth'[s] = a
    BY <2>1, <2>2, GotoAuthRest DEF Shape, Login
  <2>5. Handlers'
    BY <1>1, <1>3, <2>2, <2>3, <2>4, LoginShape DEF Rest, WithIdent
  <2> QED BY <1>1, <2>3, <2>4, <2>5 DEF Shape, TypeOK, Rest, keys, requests
<1> QED BY <1>4, <1>5

LEMMA RegisterShape ==
  ASSUME Shape, NEW s \in Session, Register(s)
  PROVE  Shape'
<1> USE AccountsAssumption
<1> DEFINE a == [auth[s] EXCEPT !.pass = None, !.spk = FALSE]
<1>1. /\ pc[s] = "register" /\ pc[s] # "new" /\ auth[s] \in Auth /\ users' = users /\ Goto(s, "idle")
      /\ UNCHANGED <<keys, requests, overlap>> /\ auth' = [auth EXCEPT ![s] = a]
      /\ registry' \in [User -> Session \cup {None}]
  BY AuthFields DEF Register, Shape, TypeOK
<1>2. a \in Auth /\ a.user = auth[s].user /\ a.ident = auth[s].ident
  BY <1>1 DEF Auth
<1> HIDE DEF a
<1>a. pc[s] \in WithIdent /\ \A v \in User : Exists(v) => Exists(v)'
  BY <1>1 DEF WithIdent, Exists
<1> DEFINE l == "idle"
<1>b. l \in {"idle", "setNew"} \cup Login /\ l \notin {"clear", "update"} /\ Goto(s, l)
  BY <1>1
<1> HIDE DEF l
<1>3. Rest(s) /\ Handlers'
  BY <1>1, <1>2, <1>a, <1>b, OnwardShape
<1> QED BY <1>1, <1>3 DEF Shape, TypeOK, Rest, keys, requests

LEMMA UploadShape ==
  ASSUME Shape, NEW s \in Session, UploadSpk(s) \/ StoreOpk(s)
  PROVE  Shape'
<1> USE AccountsAssumption
<1>1. pc[s] = "idle" /\ UNCHANGED <<users, registry, pc, auth, requests, overlap>>
  BY DEF UploadSpk, StoreOpk
<1>2. Me(s) \in User /\ auth[s].ident \in Identity
  BY <1>1, AuthFields DEF Shape, Handlers, WithIdent, Me
<1>3. Handlers'
  BY <1>1 DEF Shape, Handlers, Me, Exists, requests
<1>4. spk' \in [User -> Identity \cup {None}] /\ opks' \subseteq Opk /\ lastOpk' \in Nat
  <2>1. [id |-> lastOpk + 1, user |-> Me(s), by |-> auth[s].ident, used |-> FALSE] \in Opk
    BY <1>2 DEF Opk, Shape, TypeOK
  <2>2. CASE UploadSpk(s)
    BY <1>2, <2>2 DEF UploadSpk, Shape, TypeOK
  <2>3. CASE StoreOpk(s)
    <3>1. spk' = spk /\ lastOpk' = lastOpk + 1
      BY <2>3 DEF StoreOpk
    <3>2. opks' \subseteq Opk
      BY <2>1, <2>3 DEF StoreOpk, Shape, TypeOK
    <3> QED BY <3>1, <3>2 DEF Shape, TypeOK
  <2> QED BY <2>2, <2>3
<1> QED BY <1>1, <1>3, <1>4 DEF Shape, TypeOK, requests

LEMMA PasswordShape ==
  ASSUME Shape, NEW s \in Session, NEW old \in Password, NEW new \in Password, NEW ok \in BOOLEAN,
         ChangePassword(s, old, new, ok)
  PROVE  Shape'
<1> USE AccountsAssumption
<1> DEFINE a == [auth[s] EXCEPT !.pass = new]
<1>1. /\ pc[s] = "idle" /\ pc[s] # "new" /\ auth[s] \in Auth /\ users' = users /\ Goto(s, "setNew")
      /\ UNCHANGED <<keys, registry, requests, overlap>> /\ auth' = [auth EXCEPT ![s] = a]
  BY AuthFields DEF ChangePassword
<1>2. a \in Auth /\ a.user = auth[s].user /\ a.ident = auth[s].ident
  BY <1>1 DEF Auth
<1> HIDE DEF a
<1>a. pc[s] \in WithIdent /\ \A v \in User : Exists(v) => Exists(v)'
  BY <1>1 DEF WithIdent, Exists
<1> DEFINE l == "setNew"
<1>b. l \in {"idle", "setNew"} \cup Login /\ l \notin {"clear", "update"} /\ Goto(s, l)
  BY <1>1
<1> HIDE DEF l
<1>3. Rest(s) /\ Handlers'
  BY <1>1, <1>2, <1>a, <1>b, OnwardShape
<1> QED BY <1>1, <1>3 DEF Shape, TypeOK, Rest, keys, requests

LEMMA SetNewShape ==
  ASSUME Shape, NEW s \in Session, NEW ok \in BOOLEAN, SetNewPassword(s, ok)
  PROVE  Shape'
<1> USE AccountsAssumption
<1> DEFINE a == [auth[s] EXCEPT !.pass = None]
<1>1. /\ pc[s] = "setNew" /\ pc[s] # "new" /\ auth[s] \in Auth /\ Goto(s, "idle")
      /\ UNCHANGED <<keys, registry, requests, overlap>> /\ auth' = [auth EXCEPT ![s] = a]
      /\ Me(s) \in User /\ auth[s].pass \in Password \cup {None}
  BY AuthFields DEF SetNewPassword, Me
<1>2. a \in Auth /\ a.user = auth[s].user /\ a.ident = auth[s].ident
  BY <1>1 DEF Auth
<1>3. users' \in [User -> Account \cup {None}] /\ \A v \in User : Exists(v) => Exists(v)'
  BY <1>1, SetPasswordIs DEF SetNewPassword, Shape
<1> HIDE DEF a
<1>a. pc[s] \in WithIdent
  BY <1>1 DEF WithIdent
<1> DEFINE l == "idle"
<1>b. l \in {"idle", "setNew"} \cup Login /\ l \notin {"clear", "update"} /\ Goto(s, l)
  BY <1>1
<1> HIDE DEF l
<1>4. Rest(s) /\ Handlers'
  BY <1>1, <1>2, <1>3, <1>a, <1>b, OnwardShape
<1> QED BY <1>1, <1>3, <1>4 DEF Shape, TypeOK, Rest, keys, requests

LEMMA RequestShape ==
  ASSUME Shape, NEW c \in Client, NEW ok \in BOOLEAN,
         (\E u \in User : RequestKeys(c, u)) \/ GetSignedPrekey(c, ok) \/ ConsumeOpk(c, ok)
  PROVE  Shape'
<1> USE AccountsAssumption
<1>1. UNCHANGED <<users, spk, lastOpk, registry, pc, auth, overlap>>
  BY DEF RequestKeys, GetSignedPrekey, ConsumeOpk, keys
<1>2. /\ asking' \in [Client -> {"idle", "getSpk", "consume"}]
      /\ \A d \in Client : d # c => asking'[d] = asking[d] /\ bundle'[d] = bundle[d]
  BY DEF RequestKeys, GetSignedPrekey, ConsumeOpk, Shape, TypeOK
<1>3. /\ bundle' \in [Client -> Bundle \cup {NoBundle}] /\ opks' \subseteq Opk
      /\ asking'[c] # "idle" => bundle'[c] \in Bundle
  <2>1. ASSUME NEW u \in User, RequestKeys(c, u)
        PROVE  /\ bundle' \in [Client -> Bundle \cup {NoBundle}] /\ opks' \subseteq Opk
               /\ bundle'[c] \in Bundle
    <3>1. users[u].ident \in Identity
      BY <2>1, AccountFields DEF RequestKeys, Shape
    <3>2. [of |-> u, ident |-> users[u].ident, spk |-> None, opk |-> None] \in Bundle
      BY <3>1 DEF Bundle
    <3> QED BY <2>1, <3>2 DEF RequestKeys, Shape, TypeOK, keys
  <2>2. CASE GetSignedPrekey(c, ok)
    <3>1. bundle[c] \in Bundle
      BY <2>2 DEF GetSignedPrekey, Shape, Handlers
    <3>2. spk[bundle[c].of] \in Identity \cup {None}
      BY <3>1 DEF Bundle, Shape, TypeOK
    <3>3. [bundle[c] EXCEPT !.spk = spk[bundle[c].of]] \in Bundle
      BY <3>1, <3>2 DEF Bundle
    <3>4. bundle' = bundle \/ bundle' = [bundle EXCEPT ![c] = [bundle[c] EXCEPT !.spk = spk[bundle[c].of]]]
      BY <2>2 DEF GetSignedPrekey
    <3>5. opks' = opks
      BY <2>2 DEF GetSignedPrekey, keys
    <3> QED BY <3>1, <3>3, <3>4, <3>5 DEF Shape, TypeOK
  <2>3. CASE ConsumeOpk(c, ok)
    <3>1. bundle[c] \in Bundle /\ asking'[c] = "idle"
      BY <2>3 DEF ConsumeOpk, Shape, Handlers, TypeOK
    <3>2. CASE UNCHANGED <<opks, bundle>>
      BY <3>1, <3>2 DEF Shape, TypeOK
    <3>3. ASSUME NEW o \in Unused(bundle[c].of), MarkUsed(o), bundle' = [bundle EXCEPT ![c].opk = o]
          PROVE  bundle' \in [Client -> Bundle \cup {NoBundle}] /\ opks' \subseteq Opk
      <4>1. o \in Opk
        BY <3>3 DEF Unused, Shape, TypeOK
      <4>2. [bundle[c] EXCEPT !.opk = o] \in Bundle /\ [o EXCEPT !.used = TRUE] \in Opk
        BY <3>1, <4>1 DEF Bundle, Opk
      <4>3. bundle' = [bundle EXCEPT ![c] = [bundle[c] EXCEPT !.opk = o]]
        BY <3>3
      <4>4. bundle' \in [Client -> Bundle \cup {NoBundle}]
        BY <4>2, <4>3 DEF Shape, TypeOK
      <4>5. opks' \subseteq Opk
        BY <3>3, <4>2 DEF MarkUsed, Shape, TypeOK
      <4> QED BY <4>4, <4>5
    <3> QED BY <2>3, <3>1, <3>2, <3>3 DEF ConsumeOpk
  <2> QED BY <2>1, <2>2, <2>3
<1>4. Handlers'
  BY <1>1, <1>2, <1>3 DEF Shape, Handlers, Me, Exists
<1> QED BY <1>1, <1>2, <1>3, <1>4 DEF Shape, TypeOK

LEMMA EndShape ==
  ASSUME Shape, NEW s \in Session, EndSession(s)
  PROVE  Shape'
<1>1. /\ Reset(s) /\ UNCHANGED <<users, keys, requests, overlap>>
      /\ registry' \in [User -> Session \cup {None}]
  BY DEF EndSession, Shape, TypeOK
<1>2. Rest(s) /\ Handlers'
  BY <1>1, ResetShape DEF Exists
<1> QED BY <1>1, <1>2 DEF Shape, TypeOK, Rest, keys, requests

LEMMA TimeoutShape ==
  ASSUME Shape, NEW s \in Session, PingTimeout(s)
  PROVE  Shape'
<1>1. /\ UNCHANGED <<users, keys, pc, auth, requests, overlap>>
      /\ registry' \in [User -> Session \cup {None}]
  BY DEF PingTimeout, Shape, TypeOK
<1> QED BY <1>1 DEF Shape, TypeOK, Handlers, Me, Exists, keys, requests

LEMMA RestartShape ==
  ASSUME Shape, Restart
  PROVE  Shape'
  BY DEF Restart, Shape, TypeOK, Handlers, WithIdent, keys

LEMMA ShapeStep == Shape /\ [Next]_vars => Shape'
<1> SUFFICES ASSUME Shape, [Next]_vars PROVE Shape'
  OBVIOUS
<1>1. CASE \E s \in Session, u \in User, k \in Key, p \in Password \cup {None}, b \in BOOLEAN :
              Authenticate(s, u, k, p, b)
  BY <1>1, AuthenticateShape
<1>2. CASE \E s \in Session, ok \in BOOLEAN : FindById(s, ok) \/ Insert(s, ok) \/ LoginSpk(s, ok)
  BY <1>2, FindByIdShape, InsertShape, LoginSpkShape
<1>3. CASE \E s \in Session, ok \in BOOLEAN : LoginPassword(s, ok) \/ HasPassword(s, ok) \/ LoginVerify(s, ok)
  BY <1>3, LoginPasswordShape, HasPasswordShape, LoginVerifyShape
<1>4. CASE \E s \in Session, ok \in BOOLEAN : UpdateIdentityKey(s, ok)
  BY <1>4, UpdateShape
<1>5. CASE \E s \in Session, ok \in BOOLEAN : SetNewPassword(s, ok)
  BY <1>5, SetNewShape
<1>6. CASE \E s \in Session, b, c \in BOOLEAN : ClearKeyMaterial(s, b, c)
  BY <1>6, ClearShape
<1>7. CASE \/ \E c \in Client, u \in User : RequestKeys(c, u)
           \/ \E c \in Client, ok \in BOOLEAN : GetSignedPrekey(c, ok) \/ ConsumeOpk(c, ok)
  BY <1>7, RequestShape
<1>8. CASE \E s \in Session, p, q \in Password, ok \in BOOLEAN : ChangePassword(s, p, q, ok)
  BY <1>8, PasswordShape
<1>9. CASE \E s \in Session : Register(s) \/ UploadSpk(s) \/ StoreOpk(s) \/ PingTimeout(s) \/ EndSession(s)
  BY <1>9, RegisterShape, UploadShape, TimeoutShape, EndShape
<1>10. CASE Restart
  BY <1>10, RestartShape
<1>11. CASE UNCHANGED vars
  BY <1>11 DEF vars, keys, requests, Shape, TypeOK, Handlers, Me, Exists
<1> QED BY <1>1, <1>2, <1>3, <1>4, <1>5, <1>6, <1>7, <1>8, <1>9, <1>10, <1>11 DEF Next

LEMMA InitShape == Init => Shape
  BY DEF Init, Shape, TypeOK, Handlers, WithIdent

-----------------------------------------------------------------------------
(* Identities.  An account's identity stays or gets a higher generation,   *)
(* and a handler's is the account's when the handler learns it.            *)
Grows ==
    \A u \in User : Exists(u) =>
        /\ Exists(u)'
        /\ users'[u].ident = users[u].ident \/ users'[u].ident.gen = users[u].ident.gen + 1

Stays(s) ==
    pc[s] \in WithIdent /\ auth'[s].user = auth[s].user /\ auth'[s].ident = auth[s].ident

Learns(s) ==
    pc[s] \in {"find", "insert", "update"} /\ auth'[s].user = auth[s].user
    /\ auth'[s].ident = users'[auth[s].user].ident

Identities == Grows /\ \A s \in Session : pc'[s] \in WithIdent => Stays(s) \/ Learns(s)

LEMMA IdentityChange ==
  ASSUME Shape, NEW s \in Session, NEW ok \in BOOLEAN, Insert(s, ok) \/ UpdateIdentityKey(s, ok)
  PROVE  Identities
<1> USE AccountsAssumption
<1> DEFINE u == auth[s].user
<1>1. pc[s] # "new" /\ pc[s] \in {"insert", "update"} /\ u \in User
  BY AuthFields DEF Insert, UpdateIdentityKey
<1>2. \A t \in Session : t # s => pc'[t] = pc[t] /\ auth'[t] = auth[t]
  <2>1. TypeOK
    BY DEF Shape
  <2> QED BY <2>1 DEF Insert, UpdateIdentityKey, Reset, Goto, TypeOK
<1>3. CASE users' = users /\ pc'[s] = "new"
  BY <1>2, <1>3 DEF Identities, Grows, Stays, WithIdent, Exists
<1>4. CASE ok /\ Insert(s, ok) /\ InsertSucceeds(u)
  <2> DEFINE ident == [key |-> auth[s].key, gen |-> 1]
  <2>1. users' = [users EXCEPT ![u] = [ident |-> ident, pass |-> None]]
        /\ auth' = [auth EXCEPT ![s].ident = ident] /\ ~Exists(u) /\ pc[s] = "insert"
    BY <1>4 DEF Insert, InsertSucceeds
  <2>2. users'[u].ident = ident /\ \A v \in User : v # u => users'[v] = users[v]
    BY <1>1, <2>1 DEF Shape, TypeOK
  <2>3. auth'[s].user = u /\ auth'[s].ident = ident
    BY <1>1, <2>1, AuthFields DEF Shape, TypeOK, Auth
  <2>4. Grows
    BY <2>1, <2>2 DEF Grows, Exists
  <2>5. Learns(s)
    BY <2>1, <2>2, <2>3 DEF Learns
  <2> QED BY <1>2, <2>4, <2>5 DEF Identities, Stays
<1>5. CASE ok /\ UpdateIdentityKey(s, ok)
  <2> DEFINE ident == [key |-> auth[s].key, gen |-> users[u].ident.gen + 1]
  <2>1. users' = [users EXCEPT ![u].ident = ident] /\ auth' = [auth EXCEPT ![s].ident = ident]
        /\ pc[s] = "update" /\ Exists(u)
    BY <1>5 DEF UpdateIdentityKey, Shape, Handlers, Me
  <2>2. users[u] \in Account
    BY <1>1, <2>1, AccountFields DEF Shape
  <2>a. users'[u] = [users[u] EXCEPT !.ident = ident] /\ \A v \in User : v # u => users'[v] = users[v]
    BY <1>1, <2>1 DEF Shape, TypeOK
  <2>3. users'[u].ident = ident
    BY <2>2, <2>a DEF Account
  <2>b. auth[s] \in Auth
    BY <1>1, AuthFields
  <2>c. auth'[s] = [auth[s] EXCEPT !.ident = ident]
    BY <2>1 DEF Shape, TypeOK
  <2>4. auth'[s].user = u /\ auth'[s].ident = ident
    <3> HIDE DEF ident
    <3> QED BY <2>b, <2>c DEF Auth
  <2>d. ident \in Identity
    BY <2>b, <2>2 DEF Auth, Account, Identity
  <2>e. users'[u] \in Account
    <3> HIDE DEF ident
    <3> QED BY <2>2, <2>a, <2>d DEF Account
  <2>5. users'[u] # None
    BY <2>e
  <2>f. users'[u].ident.gen = users[u].ident.gen + 1
    BY <2>3
  <2>6. Grows
    <3>1. \A v \in User : users[v] # None =>
             users'[v] # None /\ (users'[v].ident = users[v].ident
                                  \/ users'[v].ident.gen = users[v].ident.gen + 1)
      <4> HIDE DEF u
      <4> QED BY <2>a, <2>5, <2>f
    <3> QED BY <3>1 DEF Grows, Exists
  <2>7. Learns(s)
    BY <2>1, <2>3, <2>4 DEF Learns
  <2> QED BY <1>2, <2>6, <2>7 DEF Identities, Stays
<1> QED
  <2>1. \/ users' = users /\ pc'[s] = "new"
        \/ ok /\ Insert(s, ok) /\ InsertSucceeds(u)
        \/ ok /\ UpdateIdentityKey(s, ok)
    BY ResetIs DEF Insert, UpdateIdentityKey, Shape
  <2> QED BY <2>1, <1>3, <1>4, <1>5

LEMMA IdentityKept ==
  ASSUME Shape, \A u \in User : (Exists(u)' <=> Exists(u)) /\ (Exists(u) => users'[u].ident = users[u].ident),
         NEW s \in Session, \A t \in Session : t # s => pc'[t] = pc[t] /\ auth'[t] = auth[t],
         pc'[s] \in WithIdent => Stays(s) \/ Learns(s)
  PROVE  Identities
  BY DEF Identities, Grows, Stays

LEMMA AuthOnly ==
  ASSUME Shape, NEW s \in Session, users' = users,
         \A t \in Session : t # s => pc'[t] = pc[t] /\ auth'[t] = auth[t],
         pc'[s] \in WithIdent => Stays(s) \/ Learns(s)
  PROVE  Identities
  BY IdentityKept DEF Exists

LEMMA IdentityStep == Shape /\ [Next]_vars => Identities
<1> SUFFICES ASSUME Shape, [Next]_vars PROVE Identities
  OBVIOUS
<1>t. TypeOK
  BY DEF Shape
<1>1. ASSUME NEW s \in Session, NEW u \in User, NEW k \in Key, NEW p \in Password \cup {None},
             NEW b \in BOOLEAN, Authenticate(s, u, k, p, b)
      PROVE Identities
  BY <1>1, <1>t, AuthOnly DEF Authenticate, Goto, TypeOK, WithIdent
<1>2. ASSUME NEW s \in Session, NEW ok \in BOOLEAN, FindById(s, ok) PROVE Identities
  <2>1. users' = users /\ pc[s] = "find" /\ auth[s] \in Auth
    BY <1>2, AuthFields DEF FindById
  <2>2. \A t \in Session : t # s => pc'[t] = pc[t] /\ auth'[t] = auth[t]
    BY <1>2, <1>t DEF FindById, Reset, Goto, TypeOK
  <2>3. pc'[s] \in WithIdent => auth' = [auth EXCEPT ![s].ident = users[auth[s].user].ident]
    BY <1>2, <1>t, ResetIs DEF FindById, Goto, TypeOK, WithIdent
  <2>4. auth' = [auth EXCEPT ![s].ident = users[auth[s].user].ident] => Learns(s)
    BY <1>t, <2>1 DEF Learns, Auth, TypeOK
  <2> QED BY <2>1, <2>2, <2>3, <2>4, AuthOnly
<1>3. ASSUME NEW s \in Session, NEW ok \in BOOLEAN, Insert(s, ok) \/ UpdateIdentityKey(s, ok) PROVE Identities
  BY <1>3, IdentityChange
<1>4. ASSUME NEW s \in Session, NEW ok \in BOOLEAN, LoginSpk(s, ok) PROVE Identities
  <2>1. users' = users /\ pc[s] \in WithIdent
    BY <1>4 DEF LoginSpk, WithIdent
  <2>2. \A t \in Session : t # s => pc'[t] = pc[t] /\ auth'[t] = auth[t]
    BY <1>4, <1>t DEF LoginSpk, Reset, Goto, TypeOK
  <2>3. auth' = auth \/ pc'[s] = "new"
    BY <1>4, <1>t, ResetIs DEF LoginSpk
  <2> QED BY <2>1, <2>2, <2>3, AuthOnly DEF Stays, WithIdent
<1>5. ASSUME NEW s \in Session, NEW ok \in BOOLEAN, LoginPassword(s, ok) PROVE Identities
  <2>1. Me(s) \in User /\ auth[s].pass \in Password \cup {None} /\ pc[s] \in WithIdent /\ auth' = auth
    BY <1>5, AuthFields DEF LoginPassword, Me, WithIdent
  <2>2. \A u \in User : (Exists(u)' <=> Exists(u)) /\ (Exists(u) => users'[u].ident = users[u].ident)
    BY <1>5, <1>t, <2>1, SetPasswordIs DEF LoginPassword
  <2>3. \A t \in Session : t # s => pc'[t] = pc[t]
    BY <1>5, <1>t DEF LoginPassword, Goto, TypeOK
  <2> QED BY <2>1, <2>2, <2>3, IdentityKept DEF Stays
<1>6. ASSUME NEW s \in Session, NEW ok \in BOOLEAN, HasPassword(s, ok) \/ LoginVerify(s, ok) PROVE Identities
  <2>1. users' = users
    BY <1>6 DEF HasPassword, LoginVerify
  <2>2. \A t \in Session : t # s => pc'[t] = pc[t] /\ auth'[t] = auth[t]
    BY <1>6, <1>t DEF HasPassword, LoginVerify, Reset, Goto, TypeOK
  <2>3. pc'[s] \in WithIdent => pc[s] \in WithIdent /\ auth' = auth
    BY <1>6, <1>t, ResetIs DEF HasPassword, LoginVerify, Goto, TypeOK, WithIdent
  <2> QED BY <2>1, <2>2, <2>3, AuthOnly DEF Stays
<1>7. ASSUME NEW s \in Session, NEW b \in BOOLEAN, NEW c \in BOOLEAN, ClearKeyMaterial(s, b, c) PROVE Identities
  <2>1. users' = users
    BY <1>7 DEF ClearKeyMaterial
  <2>2. \A t \in Session : t # s => pc'[t] = pc[t] /\ auth'[t] = auth[t]
    BY <1>7, <1>t DEF ClearKeyMaterial, Reset, Goto, TypeOK
  <2>3. pc'[s] \notin WithIdent
    BY <1>7, <1>t, ResetIs DEF ClearKeyMaterial, Goto, TypeOK, WithIdent
  <2> QED BY <2>1, <2>2, <2>3, AuthOnly
<1>8. ASSUME NEW s \in Session, Register(s) PROVE Identities
  <2>1. users' = users /\ pc[s] \in WithIdent /\ auth[s] \in Auth
        /\ auth' = [auth EXCEPT ![s].pass = None, ![s].spk = FALSE]
    BY <1>8, AuthFields DEF Register, WithIdent
  <2>2. \A t \in Session : t # s => pc'[t] = pc[t] /\ auth'[t] = auth[t]
    BY <1>8, <1>t DEF Register, Goto, TypeOK
  <2>3. Stays(s)
    BY <1>t, <2>1 DEF Stays, TypeOK, Auth
  <2> QED BY <2>1, <2>2, <2>3, AuthOnly
<1>9. ASSUME NEW s \in Session, UploadSpk(s) \/ StoreOpk(s) PROVE Identities
  BY <1>9 DEF UploadSpk, StoreOpk, Identities, Grows, Stays, Exists
<1>10. ASSUME NEW s \in Session, NEW p \in Password, NEW q \in Password, NEW ok \in BOOLEAN,
              ChangePassword(s, p, q, ok)
       PROVE Identities
  <2>1. users' = users /\ pc[s] \in WithIdent /\ auth[s] \in Auth /\ auth' = [auth EXCEPT ![s].pass = q]
    BY <1>10, AuthFields DEF ChangePassword, WithIdent
  <2>2. \A t \in Session : t # s => pc'[t] = pc[t] /\ auth'[t] = auth[t]
    BY <1>10, <1>t DEF ChangePassword, Goto, TypeOK
  <2>3. Stays(s)
    BY <1>t, <2>1 DEF Stays, TypeOK, Auth
  <2> QED BY <2>1, <2>2, <2>3, AuthOnly
<1>11. ASSUME NEW s \in Session, NEW ok \in BOOLEAN, SetNewPassword(s, ok) PROVE Identities
  <2>1. Me(s) \in User /\ auth[s].pass \in Password \cup {None} /\ pc[s] \in WithIdent /\ auth[s] \in Auth
        /\ auth' = [auth EXCEPT ![s].pass = None]
    BY <1>11, AuthFields DEF SetNewPassword, Me, WithIdent
  <2>2. \A u \in User : (Exists(u)' <=> Exists(u)) /\ (Exists(u) => users'[u].ident = users[u].ident)
    BY <1>11, <1>t, <2>1, SetPasswordIs DEF SetNewPassword
  <2>3. \A t \in Session : t # s => pc'[t] = pc[t] /\ auth'[t] = auth[t]
    BY <1>11, <1>t DEF SetNewPassword, Goto, TypeOK
  <2>4. Stays(s)
    BY <1>t, <2>1 DEF Stays, TypeOK, Auth
  <2> QED BY <2>1, <2>2, <2>3, <2>4, IdentityKept
<1>12. ASSUME NEW c \in Client, NEW u \in User, RequestKeys(c, u) PROVE Identities
  BY <1>12 DEF RequestKeys, Identities, Grows, Stays, Exists
<1>13. ASSUME NEW c \in Client, NEW ok \in BOOLEAN, GetSignedPrekey(c, ok) \/ ConsumeOpk(c, ok) PROVE Identities
  BY <1>13 DEF GetSignedPrekey, ConsumeOpk, Identities, Grows, Stays, Exists
<1>14. ASSUME NEW s \in Session, EndSession(s) PROVE Identities
  <2>1. users' = users /\ Reset(s)
    BY <1>14 DEF EndSession
  <2> QED BY <1>t, <2>1, ResetIs, AuthOnly DEF WithIdent
<1>15. CASE Restart
  BY <1>15 DEF Restart, Identities, Grows, Exists, WithIdent
<1>16. CASE UNCHANGED vars
  BY <1>16 DEF vars, Identities, Grows, Stays, Exists
<1>17. ASSUME NEW s \in Session, PingTimeout(s) PROVE Identities
  BY <1>17 DEF PingTimeout, Identities, Grows, Stays, Exists
<1> QED BY <1>1, <1>2, <1>3, <1>4, <1>5, <1>6, <1>7, <1>8, <1>9, <1>10, <1>11, <1>12, <1>13, <1>14,
           <1>15, <1>16, <1>17 DEF Next

Owners ==
    \A s \in Session : pc[s] \in WithIdent =>
        /\ auth[s].ident.gen <= users[Me(s)].ident.gen
        /\ auth[s].ident.gen = users[Me(s)].ident.gen => auth[s].ident = users[Me(s)].ident

LEMMA OwnersStep == Shape /\ Owners /\ [Next]_vars => Owners'
<1> SUFFICES ASSUME Shape, Owners, [Next]_vars, NEW s \in Session, pc'[s] \in WithIdent
             PROVE  /\ auth'[s].ident.gen <= users'[auth'[s].user].ident.gen
                    /\ auth'[s].ident.gen = users'[auth'[s].user].ident.gen
                         => auth'[s].ident = users'[auth'[s].user].ident
  BY DEF Owners, Me
<1>1. Identities /\ Shape'
  BY IdentityStep, ShapeStep
<1>2. CASE Stays(s)
  <2>1. auth[s].user \in User /\ Exists(auth[s].user) /\ auth[s].ident \in Identity
    BY <1>2, AuthFields DEF Stays, WithIdent, Shape, Handlers, Me
  <2>2. users[auth[s].user].ident.gen \in Nat /\ auth[s].ident.gen \in Nat
    BY <2>1, AccountFields DEF Shape, Identity
  <2> QED BY <1>1, <1>2, <2>1, <2>2 DEF Identities, Grows, Stays, Owners, Me
<1>3. CASE Learns(s)
  <2>1. auth'[s].ident \in Identity
    BY <1>1 DEF Shape, Handlers
  <2>2. auth'[s].ident.gen \in Nat
    BY <2>1 DEF Identity
  <2> QED BY <1>3, <2>2 DEF Learns
<1> QED BY <1>1, <1>2, <1>3 DEF Identities

LEMMA OwnersSuffice == Shape /\ Owners => OwnerOnly
  BY DEF Shape, Handlers, Owners, OwnerOnly, WithIdent, Me

LEMMA InitOwners == Init => Owners
  BY DEF Init, Owners, WithIdent

-----------------------------------------------------------------------------
(* Pre-keys.  As long as no two sessions have used an account at once, its *)
(* one session knows the identity the account has, a recovery that is      *)
(* about to write a new one has deleted all pre-keys, and the pre-keys are *)
(* of the identity there is.                                               *)
Single ==
    \A s, t \in Session : Me(s) \in User \ overlap /\ Me(t) = Me(s) => s = t

Own ==
    \A s \in Session :
      pc[s] \in WithIdent /\ Me(s) \notin overlap => auth[s].ident = users[Me(s)].ident

Cleared ==
    \A s \in Session :
      pc[s] = "update" /\ Me(s) \notin overlap =>
        spk[Me(s)] = None /\ \A o \in opks : o.user # Me(s)

Prekeys == Single /\ Own /\ Cleared /\ KeysMatchIdentity

(* The sessions but s stay as they are.                                    *)
Others(s) == \A t \in Session : t # s => pc'[t] = pc[t] /\ auth'[t].user = Me(t)

(* A handler's session keeps its user or gives it up.                      *)
Keeps(s) == Others(s) /\ auth'[s].user \in {Me(s), None}

LEMMA UserOf ==
  ASSUME NEW x \in Auth \cup {NoAuth}, NEW v
  PROVE  /\ [x EXCEPT !.ident = v].user = x.user
         /\ [x EXCEPT !.pass = v].user = x.user
         /\ [x EXCEPT !.pass = v, !.spk = FALSE].user = x.user
  BY DEF Auth, NoAuth

LEMMA KeepsUnchanged ==
  ASSUME Shape, NEW s \in Session, NEW l, Goto(s, l), auth' = auth
  PROVE  Keeps(s)
  BY DEF Keeps, Others, Me, Goto, Shape, TypeOK

LEMMA KeepsReset ==
  ASSUME Shape, NEW s \in Session, Reset(s)
  PROVE  Keeps(s)
  BY ResetIs DEF Keeps, Others, Me, NoAuth, Shape

LEMMA KeepsChanged ==
  ASSUME Shape, NEW s \in Session, NEW l, Goto(s, l), NEW a, auth' = [auth EXCEPT ![s] = a],
         a.user = Me(s)
  PROVE  Keeps(s)
  BY DEF Keeps, Others, Me, Goto, Shape, TypeOK

LEMMA KeepsStep ==
  ASSUME Shape, NEW s \in Session, NEW ok \in BOOLEAN,
         \/ FindById(s, ok) \/ Insert(s, ok) \/ LoginSpk(s, ok) \/ LoginPassword(s, ok)
         \/ HasPassword(s, ok) \/ LoginVerify(s, ok) \/ UpdateIdentityKey(s, ok)
         \/ SetNewPassword(s, ok) \/ (\E b \in BOOLEAN : ClearKeyMaterial(s, ok, b))
         \/ (\E p, q \in Password : ChangePassword(s, p, q, ok))
         \/ Register(s) \/ PingTimeout(s) \/ EndSession(s)
  PROVE  Keeps(s)
<1>1. auth[s] \in Auth \cup {NoAuth} /\ Me(s) = auth[s].user
  BY DEF Shape, TypeOK, Me
<1>2. ASSUME NEW l, NEW v, Goto(s, l), auth' = [auth EXCEPT ![s].ident = v] PROVE Keeps(s)
  <2>1. auth' = [auth EXCEPT ![s] = [auth[s] EXCEPT !.ident = v]]
    BY <1>2
  <2> QED BY <1>1, <1>2, <2>1, UserOf, KeepsChanged
<1>3. ASSUME NEW l, NEW v, Goto(s, l), auth' = [auth EXCEPT ![s].pass = v] PROVE Keeps(s)
  <2>1. auth' = [auth EXCEPT ![s] = [auth[s] EXCEPT !.pass = v]]
    BY <1>3
  <2> QED BY <1>1, <1>3, <2>1, UserOf, KeepsChanged
<1>4. CASE FindById(s, ok)
  BY <1>2, <1>4, KeepsUnchanged, KeepsReset DEF FindById
<1>5. CASE Insert(s, ok)
  BY <1>2, <1>5, KeepsReset DEF Insert
<1>6. CASE LoginSpk(s, ok)
  BY <1>6, KeepsUnchanged, KeepsReset DEF LoginSpk
<1>7. CASE LoginPassword(s, ok)
  BY <1>7, KeepsUnchanged DEF LoginPassword
<1>8. CASE HasPassword(s, ok)
  BY <1>8, KeepsUnchanged, KeepsReset DEF HasPassword
<1>9. CASE LoginVerify(s, ok)
  BY <1>9, KeepsUnchanged, KeepsReset DEF LoginVerify
<1>10. CASE UpdateIdentityKey(s, ok)
  BY <1>2, <1>10, KeepsReset DEF UpdateIdentityKey
<1>11. CASE SetNewPassword(s, ok)
  BY <1>3, <1>11 DEF SetNewPassword
<1>12. CASE \E b \in BOOLEAN : ClearKeyMaterial(s, ok, b)
  BY <1>12, KeepsUnchanged, KeepsReset DEF ClearKeyMaterial
<1>13. CASE \E p, q \in Password : ChangePassword(s, p, q, ok)
  BY <1>3, <1>13 DEF ChangePassword
<1>14. CASE Register(s)
  <2> DEFINE a == [auth[s] EXCEPT !.pass = None, !.spk = FALSE]
  <2>1. a.user = Me(s)
    BY <1>1, UserOf
  <2>2. auth' = [auth EXCEPT ![s] = a] /\ Goto(s, "idle")
    BY <1>14 DEF Register
  <2> HIDE DEF a
  <2> QED BY <2>1, <2>2, KeepsChanged
<1>15. CASE EndSession(s)
  BY <1>15, KeepsReset DEF EndSession
<1>16. CASE PingTimeout(s)
  BY <1>16 DEF PingTimeout, Keeps, Others, Me
<1> QED BY <1>4, <1>5, <1>6, <1>7, <1>8, <1>9, <1>10, <1>11, <1>12, <1>13, <1>14, <1>15, <1>16

(* What the steps do to the accounts in use.                               *)
LEMMA UsersInUse ==
  ASSUME Shape, [Next]_vars
  PROVE  \/ \E s \in Session : Keeps(s) /\ overlap' = overlap
         \/ pc' = pc /\ auth' = auth /\ overlap' = overlap
         \/ (\A t \in Session : auth'[t].user = None) /\ overlap' = overlap
         \/ \E s \in Session, u \in User :
              /\ Others(s) /\ auth'[s].user = u
              /\ overlap' = overlap \cup {v \in {u} : \E t \in Session \ {s} : Me(t) = v}
<1>1. ASSUME NEW s \in Session, NEW u \in User, NEW k \in Key, NEW p \in Password \cup {None},
             NEW b \in BOOLEAN, Authenticate(s, u, k, p, b)
      PROVE  /\ Others(s) /\ auth'[s].user = u
             /\ overlap' = overlap \cup {v \in {u} : \E t \in Session \ {s} : Me(t) = v}
  BY <1>1 DEF Authenticate, Others, Me, Goto, Shape, TypeOK
<1>2. ASSUME NEW s \in Session, NEW ok \in BOOLEAN,
             \/ FindById(s, ok) \/ Insert(s, ok) \/ LoginSpk(s, ok) \/ LoginPassword(s, ok)
             \/ HasPassword(s, ok) \/ LoginVerify(s, ok) \/ UpdateIdentityKey(s, ok)
             \/ SetNewPassword(s, ok)
      PROVE  Keeps(s) /\ overlap' = overlap
  BY <1>2, KeepsStep DEF FindById, Insert, LoginSpk, LoginPassword, HasPassword, LoginVerify,
                         UpdateIdentityKey, SetNewPassword
<1>3. ASSUME NEW s \in Session, NEW b \in BOOLEAN, NEW c \in BOOLEAN, ClearKeyMaterial(s, b, c)
      PROVE  Keeps(s) /\ overlap' = overlap
  BY <1>3, KeepsStep DEF ClearKeyMaterial
<1>4. ASSUME NEW s \in Session, NEW p \in Password, NEW q \in Password, NEW ok \in BOOLEAN,
             ChangePassword(s, p, q, ok)
      PROVE  Keeps(s) /\ overlap' = overlap
  BY <1>4, KeepsStep DEF ChangePassword
<1>5. ASSUME NEW s \in Session, Register(s) \/ PingTimeout(s) \/ EndSession(s)
      PROVE  Keeps(s) /\ overlap' = overlap
  <2>1. overlap' = overlap
    BY <1>5 DEF Register, PingTimeout, EndSession
  <2>2. TRUE \in BOOLEAN
    OBVIOUS
  <2> QED BY <1>5, <2>1, <2>2, KeepsStep
<1>6. ASSUME NEW s \in Session, UploadSpk(s) \/ StoreOpk(s)
      PROVE  pc' = pc /\ auth' = auth /\ overlap' = overlap
  BY <1>6 DEF UploadSpk, StoreOpk
<1>7. ASSUME NEW c \in Client, \/ \E u \in User : RequestKeys(c, u)
                               \/ \E ok \in BOOLEAN : GetSignedPrekey(c, ok) \/ ConsumeOpk(c, ok)
      PROVE  pc' = pc /\ auth' = auth /\ overlap' = overlap
  BY <1>7 DEF RequestKeys, GetSignedPrekey, ConsumeOpk
<1>8. CASE Restart
  BY <1>8 DEF Restart, NoAuth
<1>9. CASE UNCHANGED vars
  BY <1>9 DEF vars
<1> QED BY <1>1, <1>2, <1>3, <1>4, <1>5, <1>6, <1>7, <1>8, <1>9 DEF Next

LEMMA SingleStep ==
  ASSUME Shape, Single, [Next]_vars
  PROVE  Single' /\ overlap \subseteq overlap'
<1> USE AccountsAssumption
<1>1. ASSUME NEW s \in Session, Keeps(s), overlap' = overlap PROVE Single' /\ overlap \subseteq overlap'
  BY <1>1 DEF Keeps, Others, Single, Me
<1>2. ASSUME NEW s \in Session, NEW u \in User, Others(s), auth'[s].user = u,
             overlap' = overlap \cup {v \in {u} : \E t \in Session \ {s} : Me(t) = v}
      PROVE  Single' /\ overlap \subseteq overlap'
  BY <1>2 DEF Others, Single, Me
<1>3. CASE pc' = pc /\ auth' = auth /\ overlap' = overlap
  BY <1>3 DEF Single, Me
<1>4. CASE (\A t \in Session : auth'[t].user = None) /\ overlap' = overlap
  BY <1>4 DEF Single, Me
<1> QED BY <1>1, <1>2, <1>3, <1>4, UsersInUse

(* Who writes the identity of an account that exists.                      *)
Unwritten == \A u \in User : Exists(u) => users'[u].ident = users[u].ident

Writes(s) ==
    /\ pc[s] = "update" /\ pc'[s] # "update" /\ Others(s)
    /\ UNCHANGED <<keys, overlap>>
    /\ \A v \in User : v # Me(s) => users'[v] = users[v]

LEMMA WriterStep ==
  ASSUME Shape, [Next]_vars
  PROVE  Unwritten \/ \E s \in Session : Writes(s)
<1>t. TypeOK
  BY DEF Shape
<1>1. ASSUME NEW s \in Session, NEW ok \in BOOLEAN, Insert(s, ok) PROVE Unwritten
  <2>1. CASE users' = users
    BY <2>1 DEF Unwritten
  <2>2. CASE /\ ~Exists(auth[s].user)
             /\ users' = [users EXCEPT ![auth[s].user] = [ident |-> [key |-> auth[s].key, gen |-> 1],
                                                         pass |-> None]]
    BY <1>t, <2>2 DEF Unwritten, TypeOK
  <2> QED BY <1>1, <2>1, <2>2 DEF Insert, InsertSucceeds
<1>2. ASSUME NEW s \in Session, NEW ok \in BOOLEAN, UpdateIdentityKey(s, ok)
      PROVE  Unwritten \/ Writes(s)
  <2>1. CASE users' = users
    BY <2>1 DEF Unwritten
  <2>2. CASE /\ Goto(s, "newSpk")
             /\ users' = [users EXCEPT ![auth[s].user].ident =
                            [key |-> auth[s].key, gen |-> users[auth[s].user].ident.gen + 1]]
    <3>1. pc[s] = "update" /\ pc'[s] = "newSpk" /\ UNCHANGED <<keys, overlap>>
      BY <1>2, <1>t, <2>2, GotoIs DEF UpdateIdentityKey
    <3>2. \A v \in User : v # Me(s) => users'[v] = users[v]
      BY <1>t, <2>2 DEF TypeOK, Me
    <3>3. Keeps(s)
      BY <1>2, KeepsStep
    <3> QED BY <3>1, <3>2, <3>3 DEF Writes, Keeps
  <2> QED BY <1>2, <2>1, <2>2 DEF UpdateIdentityKey
<1>3. ASSUME NEW s \in Session, NEW ok \in BOOLEAN, LoginPassword(s, ok) \/ SetNewPassword(s, ok)
      PROVE  Unwritten
  <2>1. Me(s) \in User /\ auth[s].pass \in Password \cup {None}
    BY <1>3, AuthFields DEF LoginPassword, SetNewPassword, Me
  <2> QED BY <1>3, <1>t, <2>1, SetPasswordIs DEF LoginPassword, SetNewPassword, Unwritten
<1>4. CASE users' = users
  BY <1>4 DEF Unwritten
<1>5. ASSUME NEW s \in Session, NEW ok \in BOOLEAN,
             \/ FindById(s, ok) \/ LoginSpk(s, ok) \/ HasPassword(s, ok) \/ LoginVerify(s, ok)
      PROVE  users' = users
  BY <1>5 DEF FindById, LoginSpk, HasPassword, LoginVerify
<1>6. ASSUME NEW s \in Session,
             Register(s) \/ UploadSpk(s) \/ StoreOpk(s) \/ PingTimeout(s) \/ EndSession(s)
      PROVE  users' = users
  BY <1>6 DEF Register, UploadSpk, StoreOpk, PingTimeout, EndSession
<1>7. (\E s \in Session, u \in User, k \in Key, p \in Password \cup {None}, b \in BOOLEAN :
         Authenticate(s, u, k, p, b)) => users' = users
  BY DEF Authenticate
<1>8. (\E s \in Session, b, c \in BOOLEAN : ClearKeyMaterial(s, b, c)) => users' = users
  BY DEF ClearKeyMaterial
<1>9. (\/ \E c \in Client, u \in User : RequestKeys(c, u)
       \/ \E c \in Client, ok \in BOOLEAN : GetSignedPrekey(c, ok) \/ ConsumeOpk(c, ok)) => users' = users
  BY DEF RequestKeys, GetSignedPrekey, ConsumeOpk
<1>10. (\E s \in Session, p, q \in Password, ok \in BOOLEAN : ChangePassword(s, p, q, ok)) => users' = users
  BY DEF ChangePassword
<1>11. Restart \/ UNCHANGED vars => users' = users
  BY DEF Restart, vars
<1> QED BY <1>1, <1>2, <1>3, <1>4, <1>5, <1>6, <1>7, <1>8, <1>9, <1>10, <1>11 DEF Next

(* Where the pre-keys of a step come from.                                 *)
SpkFrom(u) ==
    \/ spk'[u] \in {spk[u], None}
    \/ \E s \in Session : pc[s] \in WithIdent /\ Me(s) = u /\ spk'[u] = auth[s].ident

OpkFrom(o) ==
    \/ \E q \in opks : q.user = o.user /\ q.by = o.by
    \/ \E s \in Session : pc[s] \in WithIdent /\ Me(s) = o.user /\ o.by = auth[s].ident

KeysFrom == (\A u \in User : SpkFrom(u)) /\ \A o \in opks' : OpkFrom(o)

LEMMA KeysKept ==
  ASSUME UNCHANGED <<spk, opks>>
  PROVE  KeysFrom
  BY DEF KeysFrom, SpkFrom, OpkFrom

LEMMA KeysStep ==
  ASSUME Shape, [Next]_vars
  PROVE  KeysFrom
<1>t. TypeOK
  BY DEF Shape
<1>1. (\E s \in Session, u \in User, k \in Key, p \in Password \cup {None}, b \in BOOLEAN :
         Authenticate(s, u, k, p, b)) => UNCHANGED <<spk, opks>>
  BY DEF Authenticate, keys
<1>2. ASSUME NEW s \in Session, NEW ok \in BOOLEAN,
             \/ FindById(s, ok) \/ Insert(s, ok) \/ LoginPassword(s, ok)
             \/ HasPassword(s, ok) \/ LoginVerify(s, ok) \/ UpdateIdentityKey(s, ok)
             \/ SetNewPassword(s, ok)
      PROVE  UNCHANGED <<spk, opks>>
  BY <1>2 DEF FindById, Insert, LoginPassword, HasPassword, LoginVerify, UpdateIdentityKey,
              SetNewPassword, keys
<1>3. ASSUME NEW s \in Session, NEW ok \in BOOLEAN, LoginSpk(s, ok) PROVE KeysFrom
  <2>1. opks' = opks /\ pc[s] \in WithIdent
    BY <1>3 DEF LoginSpk, WithIdent
  <2>2. spk' = spk \/ spk' = [spk EXCEPT ![Me(s)] = auth[s].ident]
    BY <1>3 DEF LoginSpk, Me
  <2> QED BY <1>t, <2>1, <2>2 DEF KeysFrom, SpkFrom, OpkFrom, TypeOK
<1>4. ASSUME NEW s \in Session, UploadSpk(s) PROVE KeysFrom
  <2>1. opks' = opks /\ pc[s] \in WithIdent /\ spk' = [spk EXCEPT ![Me(s)] = auth[s].ident]
    BY <1>4 DEF UploadSpk, WithIdent
  <2> QED BY <1>t, <2>1 DEF KeysFrom, SpkFrom, OpkFrom, TypeOK
<1>5. ASSUME NEW s \in Session, NEW b \in BOOLEAN, NEW c \in BOOLEAN, ClearKeyMaterial(s, b, c)
      PROVE  KeysFrom
  <2>1. opks' \subseteq opks /\ (spk' = spk \/ spk' = [spk EXCEPT ![Me(s)] = None])
    BY <1>5 DEF ClearKeyMaterial
  <2> QED BY <1>t, <2>1 DEF KeysFrom, SpkFrom, OpkFrom, TypeOK
<1>6. ASSUME NEW s \in Session, StoreOpk(s) PROVE KeysFrom
  <2>1. spk' = spk /\ pc[s] \in WithIdent
        /\ opks' = opks \cup {[id |-> lastOpk + 1, user |-> Me(s), by |-> auth[s].ident, used |-> FALSE]}
    BY <1>6 DEF StoreOpk, WithIdent
  <2> QED BY <2>1 DEF KeysFrom, SpkFrom, OpkFrom
<1>7. ASSUME NEW c \in Client, NEW ok \in BOOLEAN, ConsumeOpk(c, ok) PROVE KeysFrom
  <2>1. spk' = spk
    BY <1>7 DEF ConsumeOpk
  <2>2. CASE opks' = opks
    BY <2>1, <2>2, KeysKept
  <2>3. ASSUME NEW o \in opks, opks' = (opks \ {o}) \cup {[o EXCEPT !.used = TRUE]}
        PROVE  KeysFrom
    <3>1. [o EXCEPT !.used = TRUE].user = o.user /\ [o EXCEPT !.used = TRUE].by = o.by
      BY <1>t DEF TypeOK, Opk
    <3> QED BY <2>1, <2>3, <3>1 DEF KeysFrom, SpkFrom, OpkFrom
  <2> QED BY <1>7, <2>2, <2>3 DEF ConsumeOpk, MarkUsed, Unused
<1>8. (\/ \E c \in Client, u \in User : RequestKeys(c, u)
       \/ \E c \in Client, ok \in BOOLEAN : GetSignedPrekey(c, ok)) => UNCHANGED <<spk, opks>>
  BY DEF RequestKeys, GetSignedPrekey, keys
<1>9. (\E s \in Session, p, q \in Password, ok \in BOOLEAN : ChangePassword(s, p, q, ok))
         => UNCHANGED <<spk, opks>>
  BY DEF ChangePassword, keys
<1>10. (Restart \/ UNCHANGED vars \/ \E s \in Session : Register(s) \/ PingTimeout(s) \/ EndSession(s))
         => UNCHANGED <<spk, opks>>
  BY DEF Restart, Register, PingTimeout, EndSession, vars, keys
<1> QED BY <1>1, <1>2, <1>3, <1>4, <1>5, <1>6, <1>7, <1>8, <1>9, <1>10, KeysKept DEF Next

(* A recovery writes only after it has deleted the pre-keys.               *)
Emptied(s) == spk'[Me(s)] = None /\ \A o \in opks' : o.user # Me(s)

Readies(s) == auth'[s].user = Me(s) /\ (pc[s] = "update" \/ Emptied(s))

LEMMA ReadiesStep ==
  ASSUME Shape, [Next]_vars, NEW t \in Session, pc'[t] = "update"
  PROVE  Readies(t)
<1>t. TypeOK
  BY DEF Shape
<1>1. CASE pc' = pc /\ auth' = auth
  BY <1>1 DEF Readies, Me
<1>2. ASSUME NEW s \in Session, Others(s), s # t PROVE Readies(t)
  BY <1>2 DEF Others, Readies
<1>3. ASSUME NEW s \in Session, NEW l, Goto(s, l), Others(s), l # "update" PROVE Readies(t)
  BY <1>2, <1>3, <1>t, GotoIs
<1>4. ASSUME NEW s \in Session, Reset(s) PROVE Readies(t)
  BY <1>2, <1>4, <1>t, ResetIs, KeepsReset DEF Keeps
<1>5. ASSUME NEW s \in Session, NEW u \in User, NEW k \in Key, NEW p \in Password \cup {None},
             NEW b \in BOOLEAN, Authenticate(s, u, k, p, b)
      PROVE  Readies(t)
  <2>1. Goto(s, "find") /\ Others(s)
    BY <1>5, <1>t DEF Authenticate, Others, Me, Goto, TypeOK
  <2> QED BY <1>3, <2>1
<1>6. ASSUME NEW s \in Session, NEW ok \in BOOLEAN,
             \/ FindById(s, ok) \/ Insert(s, ok) \/ LoginSpk(s, ok) \/ LoginPassword(s, ok)
             \/ HasPassword(s, ok) \/ LoginVerify(s, ok) \/ UpdateIdentityKey(s, ok)
             \/ SetNewPassword(s, ok)
      PROVE  Readies(t)
  <2>1. Others(s)
    BY <1>6, KeepsStep DEF Keeps
  <2>2. Reset(s) \/ \E l \in {"insert", "register", "hasOld", "has", "spk", "pass", "backfill",
                              "verify", "clear", "newSpk", "idle"} : Goto(s, l)
    BY <1>6 DEF FindById, Insert, LoginSpk, LoginPassword, HasPassword, LoginVerify,
                UpdateIdentityKey, SetNewPassword
  <2> QED BY <1>3, <1>4, <2>1, <2>2
<1>7. ASSUME NEW s \in Session, NEW b \in BOOLEAN, NEW c \in BOOLEAN, ClearKeyMaterial(s, b, c)
      PROVE  Readies(t)
  <2>1. CASE Reset(s)
    BY <1>4, <2>1
  <2>2. CASE c /\ auth' = auth /\ s = t
    <3>1. Me(s) \in User
      BY <1>7, AuthFields DEF ClearKeyMaterial, Me
    <3>2. spk'[Me(s)] = None /\ \A o \in opks' : o.user # Me(s)
      BY <1>7, <1>t, <2>2, <3>1 DEF ClearKeyMaterial, TypeOK
    <3> QED BY <2>2, <3>2 DEF Readies, Emptied, Me
  <2>3. CASE s # t
    BY <1>2, <1>7, <2>3, KeepsStep DEF Keeps
  <2> QED BY <1>7, <2>1, <2>2, <2>3 DEF ClearKeyMaterial
<1>8. ASSUME NEW s \in Session, NEW p \in Password, NEW q \in Password, NEW ok \in BOOLEAN,
             ChangePassword(s, p, q, ok)
      PROVE  Readies(t)
  BY <1>3, <1>8, KeepsStep DEF ChangePassword, Keeps
<1>9. ASSUME NEW s \in Session, Register(s) \/ EndSession(s) PROVE Readies(t)
  <2>1. Others(s)
    BY <1>9, KeepsStep DEF Keeps
  <2> QED BY <1>3, <1>4, <1>9, <2>1 DEF Register, EndSession
<1>10. (\E s \in Session : UploadSpk(s) \/ StoreOpk(s) \/ PingTimeout(s)) => pc' = pc /\ auth' = auth
  BY DEF UploadSpk, StoreOpk, PingTimeout
<1>11. (\/ \E c \in Client, u \in User : RequestKeys(c, u)
        \/ \E c \in Client, ok \in BOOLEAN : GetSignedPrekey(c, ok) \/ ConsumeOpk(c, ok))
          => pc' = pc /\ auth' = auth
  BY DEF RequestKeys, GetSignedPrekey, ConsumeOpk
<1>12. ~Restart
  BY DEF Restart
<1>13. UNCHANGED vars => pc' = pc /\ auth' = auth
  BY DEF vars
<1> QED BY <1>1, <1>5, <1>6, <1>7, <1>8, <1>9, <1>10, <1>11, <1>12, <1>13 DEF Next

LEMMA OwnStep ==
  ASSUME Shape, Prekeys, [Next]_vars
  PROVE  Own'
<1> USE AccountsAssumption
<1> SUFFICES ASSUME NEW s \in Session, pc'[s] \in WithIdent, auth'[s].user \notin overlap'
             PROVE  auth'[s].ident = users'[auth'[s].user].ident
  BY DEF Own, Me
<1>1. Stays(s) \/ Learns(s)
  BY IdentityStep DEF Identities
<1>2. CASE Stays(s)
  <2>1. /\ pc[s] \in WithIdent /\ auth'[s].user = Me(s) /\ Me(s) \notin overlap
        /\ auth'[s].ident = users[Me(s)].ident
    BY <1>2, SingleStep DEF Stays, Prekeys, Own, Me
  <2>2. Exists(Me(s)) /\ Me(s) \in User
    BY <2>1, AuthFields DEF Shape, Handlers, Me, WithIdent
  <2>3. CASE Unwritten
    BY <2>1, <2>2, <2>3 DEF Unwritten
  <2>4. ASSUME NEW t \in Session, Writes(t) PROVE users'[Me(s)].ident = users[Me(s)].ident
    <3>1. t # s
      BY <2>1, <2>4 DEF Writes, WithIdent
    <3>2. Me(t) # Me(s)
      BY <2>1, <2>2, <3>1 DEF Prekeys, Single
    <3> QED BY <2>2, <2>4, <3>2 DEF Writes
  <2> QED BY <2>1, <2>3, <2>4, WriterStep
<1> QED BY <1>1, <1>2 DEF Learns

LEMMA ClearedStep ==
  ASSUME Shape, Prekeys, [Next]_vars
  PROVE  Cleared'
<1> USE AccountsAssumption
<1> SUFFICES ASSUME NEW s \in Session, pc'[s] = "update", auth'[s].user \notin overlap'
             PROVE  spk'[auth'[s].user] = None /\ \A o \in opks' : o.user # auth'[s].user
  BY DEF Cleared, Me
<1>1. Readies(s) /\ overlap \subseteq overlap'
  BY ReadiesStep, SingleStep DEF Prekeys
<1>2. CASE Emptied(s)
  BY <1>1, <1>2 DEF Emptied, Readies
<1>3. CASE pc[s] = "update"
  <2>1. auth'[s].user = Me(s) /\ Me(s) \in User \ overlap
    BY <1>1, <1>3, AuthFields DEF Readies, Me
  <2>2. spk[Me(s)] = None /\ \A o \in opks : o.user # Me(s)
    BY <1>3, <2>1 DEF Prekeys, Cleared
  <2>3. ~\E t \in Session : pc[t] \in WithIdent /\ Me(t) = Me(s)
    BY <1>3, <2>1 DEF Prekeys, Single, WithIdent
  <2>4. SpkFrom(Me(s)) /\ \A o \in opks' : OpkFrom(o)
    BY <2>1, KeysStep DEF KeysFrom
  <2>5. spk'[Me(s)] = None
    BY <2>2, <2>3, <2>4 DEF SpkFrom
  <2>6. \A o \in opks' : o.user # Me(s)
    BY <2>2, <2>3, <2>4 DEF OpkFrom
  <2> QED BY <2>1, <2>5, <2>6
<1> QED BY <1>1, <1>2, <1>3 DEF Readies

LEMMA MatchStep ==
  ASSUME Shape, Prekeys, [Next]_vars
  PROVE  KeysMatchIdentity'
<1> USE AccountsAssumption
<1> SUFFICES ASSUME NEW u \in User, u \notin overlap'
             PROVE  /\ spk'[u] # None => users'[u] # None /\ spk'[u] = users'[u].ident
                    /\ \A o \in opks' : o.user = u => users'[u] # None /\ o.by = users'[u].ident
  BY DEF KeysMatchIdentity, Exists
<1>1. u \notin overlap
  BY SingleStep DEF Prekeys
<1>2. SpkFrom(u) /\ \A o \in opks' : OpkFrom(o)
  BY KeysStep DEF KeysFrom
<1>3. \A s \in Session : pc[s] \in WithIdent /\ Me(s) = u => Exists(u) /\ auth[s].ident = users[u].ident
  BY <1>1 DEF Shape, Handlers, Prekeys, Own
<1>4. /\ spk[u] # None => Exists(u) /\ spk[u] = users[u].ident
      /\ \A o \in opks : o.user = u => Exists(u) /\ o.by = users[u].ident
  BY <1>1 DEF Prekeys, KeysMatchIdentity
<1>5. /\ spk'[u] # None => Exists(u) /\ spk'[u] = users[u].ident
      /\ \A o \in opks' : o.user = u => Exists(u) /\ o.by = users[u].ident
  <2>1. spk'[u] # None => Exists(u) /\ spk'[u] = users[u].ident
    BY <1>2, <1>3, <1>4 DEF SpkFrom
  <2>2. ASSUME NEW o \in opks', o.user = u PROVE Exists(u) /\ o.by = users[u].ident
    BY <1>2, <1>3, <1>4, <2>2 DEF OpkFrom
  <2> QED BY <2>1, <2>2
<1>6. Exists(u) => users'[u] # None
  BY IdentityStep DEF Identities, Grows, Exists
<1>7. CASE Unwritten
  BY <1>5, <1>6, <1>7 DEF Unwritten
<1>8. ASSUME NEW s \in Session, Writes(s)
      PROVE  /\ spk'[u] # None => users'[u] # None /\ spk'[u] = users'[u].ident
             /\ \A o \in opks' : o.user = u => users'[u] # None /\ o.by = users'[u].ident
  <2>1. CASE u = Me(s)
    <3>1. spk' = spk /\ opks' = opks
      BY <1>8 DEF Writes, keys
    <3>2. spk[u] = None /\ \A o \in opks : o.user # u
      BY <1>1, <1>8, <2>1 DEF Prekeys, Cleared, Writes
    <3> QED BY <3>1, <3>2
  <2>2. CASE u # Me(s)
    <3>1. users'[u] = users[u]
      BY <1>8, <2>2 DEF Writes
    <3> QED BY <1>5, <3>1 DEF Exists
  <2> QED BY <2>1, <2>2
<1> QED BY <1>7, <1>8, WriterStep

LEMMA PrekeysStep == Shape /\ Prekeys /\ [Next]_vars => Prekeys'
<1> SUFFICES ASSUME Shape, Prekeys, [Next]_vars PROVE Prekeys'
  OBVIOUS
<1>1. Single'
  BY SingleStep DEF Prekeys
<1> QED BY <1>1, OwnStep, ClearedStep, MatchStep DEF Prekeys

LEMMA InitPrekeys == Init => Prekeys
<1> USE AccountsAssumption
<1> QED BY DEF Init, Prekeys, Single, Own, Cleared, KeysMatchIdentity, WithIdent, Me, NoAuth

-----------------------------------------------------------------------------
(* Bundles.  One that is being collected is no newer than its account.     *)
Collected(c) ==
    LET b == bundle[c]
    IN  /\ asking[c] # "idle" =>
             /\ Exists(b.of) /\ b.ident.gen <= users[b.of].ident.gen /\ b.opk = None
             /\ asking[c] = "getSpk" => b.spk = None
             /\ b.of \notin overlap /\ b.spk # None => b.spk.gen <= users[b.of].ident.gen
        /\ b # NoBundle /\ b.of \notin overlap =>
             /\ b.spk # None => b.ident.gen <= b.spk.gen
             /\ b.opk # None => b.ident.gen <= b.opk.by.gen
             /\ b.spk # None /\ b.opk # None => b.spk.gen <= b.opk.by.gen

Collection == \A c \in Client : Collected(c)

LEMMA CollectionSuffices == Collection => NoStalePrekeys
  BY DEF Collection, Collected, NoStalePrekeys

LEMMA BundleFields ==
  ASSUME Shape, NEW c \in Client, asking[c] # "idle"
  PROVE  /\ bundle[c] \in Bundle /\ bundle[c].of \in User
         /\ bundle[c].ident \in Identity /\ bundle[c].ident.gen \in Nat
         /\ bundle[c].spk # None => bundle[c].spk \in Identity /\ bundle[c].spk.gen \in Nat
         /\ bundle[c].opk # None => bundle[c].opk \in Opk
<1>1. bundle[c] \in Bundle
  BY DEF Shape, Handlers
<1> QED BY <1>1 DEF Bundle, Identity

(* A bundle nobody touches stays collected, or is complete.                *)
LEMMA CollectedKept ==
  ASSUME Shape, Prekeys, [Next]_vars, NEW c \in Client, Collected(c),
         bundle'[c] = bundle[c], asking'[c] \in {asking[c], "idle"}
  PROVE  Collected(c)'
<1> DEFINE b == bundle[c]
<1>1. overlap \subseteq overlap'
  BY SingleStep DEF Prekeys
<1>2. CASE asking'[c] = "idle"
  BY <1>1, <1>2 DEF Collected
<1>3. CASE asking[c] # "idle"
  <2>1. b.of \in User /\ Exists(b.of) /\ b.ident.gen \in Nat /\ (b.spk # None => b.spk.gen \in Nat)
    BY <1>3, BundleFields DEF Collected
  <2>2. users'[b.of] # None /\ (\/ users'[b.of].ident = users[b.of].ident
                                \/ users'[b.of].ident.gen = users[b.of].ident.gen + 1)
    BY <2>1, IdentityStep DEF Identities, Grows, Exists
  <2>3. users[b.of].ident.gen \in Nat
    BY <2>1, AccountFields DEF Shape
  <2> QED BY <1>1, <1>3, <2>1, <2>2, <2>3 DEF Collected, Exists
<1> QED BY <1>2, <1>3

LEMMA RequestKeysCollects ==
  ASSUME Shape, NEW c \in Client, NEW u \in User, RequestKeys(c, u)
  PROVE  Collected(c)'
<1> USE AccountsAssumption
<1> DEFINE b == [of |-> u, ident |-> users[u].ident, spk |-> None, opk |-> None]
<1>1. bundle'[c] = b /\ Exists(u) /\ users' = users /\ overlap' = overlap
  BY DEF RequestKeys, Shape, TypeOK
<1>2. users[u].ident.gen \in Nat
  BY <1>1, AccountFields DEF Shape
<1> QED BY <1>1, <1>2 DEF Collected, Exists

LEMMA GetSignedPrekeyCollects ==
  ASSUME Shape, Prekeys, NEW c \in Client, NEW ok \in BOOLEAN, GetSignedPrekey(c, ok), Collected(c)
  PROVE  Collected(c)'
<1> USE AccountsAssumption
<1> DEFINE b == bundle[c]
<1>1. /\ asking[c] = "getSpk" /\ UNCHANGED <<users, spk, overlap>>
      /\ bundle' = IF ok THEN [bundle EXCEPT ![c].spk = spk[bundle[c].of]] ELSE bundle
      /\ asking'[c] = "consume"
  BY DEF GetSignedPrekey, keys, Shape, TypeOK
<1>2. b \in Bundle /\ b.of \in User /\ b.ident.gen \in Nat /\ Exists(b.of)
      /\ b.ident.gen <= users[b.of].ident.gen /\ b.opk = None /\ b.spk = None
  BY <1>1, BundleFields DEF Collected
<1>3. b.of \notin overlap /\ spk[b.of] # None => spk[b.of] = users[b.of].ident
  BY <1>2 DEF Prekeys, KeysMatchIdentity
<1>4. users[b.of].ident.gen \in Nat
  BY <1>2, AccountFields DEF Shape
<1>5. \/ bundle'[c] = b
      \/ bundle'[c] = [b EXCEPT !.spk = spk[b.of]]
  BY <1>1 DEF Shape, TypeOK
<1>6. /\ bundle'[c].of = b.of /\ bundle'[c].ident = b.ident /\ bundle'[c].opk = None
      /\ bundle'[c].spk \in {None, spk[b.of]}
  BY <1>2, <1>5 DEF Bundle
<1> QED BY <1>1, <1>2, <1>3, <1>4, <1>6 DEF Collected, Exists

LEMMA ConsumeOpkCollects ==
  ASSUME Shape, Prekeys, NEW c \in Client, NEW ok \in BOOLEAN, ConsumeOpk(c, ok), Collected(c)
  PROVE  Collected(c)'
<1> USE AccountsAssumption
<1> DEFINE b == bundle[c]
<1>1. /\ asking[c] = "consume" /\ UNCHANGED <<users, overlap>> /\ asking'[c] = "idle"
  BY DEF ConsumeOpk, Shape, TypeOK
<1>2. b \in Bundle /\ b.of \in User /\ b.ident.gen \in Nat /\ Exists(b.of)
      /\ b.ident.gen <= users[b.of].ident.gen /\ b.opk = None
      /\ (b.spk # None => b.spk.gen \in Nat)
  BY <1>1, BundleFields DEF Collected
<1>3. CASE bundle' = bundle
  BY <1>1, <1>3 DEF Collected
<1>4. ASSUME NEW o \in Unused(b.of), bundle' = [bundle EXCEPT ![c].opk = o]
      PROVE  Collected(c)'
  <2>1. o \in Opk /\ (b.of \notin overlap => o.by = users[b.of].ident)
    BY <1>2 DEF Unused, Prekeys, KeysMatchIdentity, Shape, TypeOK
  <2>2. bundle'[c] = [b EXCEPT !.opk = o]
    BY <1>4 DEF Shape, TypeOK
  <2>3. /\ bundle'[c].of = b.of /\ bundle'[c].ident = b.ident /\ bundle'[c].spk = b.spk
        /\ bundle'[c].opk = o
    BY <1>2, <2>2 DEF Bundle
  <2>4. b.of \notin overlap /\ b.spk # None =>
           b.ident.gen <= b.spk.gen /\ b.spk.gen <= users[b.of].ident.gen
    BY <1>1, <1>2 DEF Collected, Bundle, NoBundle
  <2> QED BY <1>1, <1>2, <2>1, <2>3, <2>4 DEF Collected
<1> QED BY <1>3, <1>4 DEF ConsumeOpk

LEMMA CollectionStep == Shape /\ Prekeys /\ Collection /\ [Next]_vars => Collection'
<1> SUFFICES ASSUME Shape, Prekeys, Collection, [Next]_vars, NEW c \in Client
             PROVE  Collected(c)'
  BY DEF Collection
<1>1. Collected(c)
  BY DEF Collection
<1>2. CASE bundle'[c] = bundle[c] /\ asking'[c] \in {asking[c], "idle"}
  BY <1>1, <1>2, CollectedKept
<1>3. ASSUME NEW d \in Client, NEW u \in User, RequestKeys(d, u) PROVE Collected(c)'
  <2>1. d # c => bundle'[c] = bundle[c] /\ asking'[c] = asking[c]
    BY <1>3 DEF RequestKeys, Shape, TypeOK
  <2> QED BY <1>2, <1>3, <2>1, RequestKeysCollects
<1>4. ASSUME NEW d \in Client, NEW ok \in BOOLEAN, GetSignedPrekey(d, ok) PROVE Collected(c)'
  <2>1. d # c => bundle'[c] = bundle[c] /\ asking'[c] = asking[c]
    BY <1>4 DEF GetSignedPrekey, Shape, TypeOK
  <2> QED BY <1>1, <1>2, <1>4, <2>1, GetSignedPrekeyCollects
<1>5. ASSUME NEW d \in Client, NEW ok \in BOOLEAN, ConsumeOpk(d, ok) PROVE Collected(c)'
  <2>1. d # c => bundle'[c] = bundle[c] /\ asking'[c] = asking[c]
    BY <1>5 DEF ConsumeOpk, Shape, TypeOK
  <2> QED BY <1>1, <1>2, <1>5, <2>1, ConsumeOpkCollects
<1>6. CASE UNCHANGED requests
  BY <1>2, <1>6 DEF requests
<1>7. CASE Restart
  BY <1>2, <1>7 DEF Restart
<1>8. ASSUME NEW s \in Session, NEW ok \in BOOLEAN,
             \/ FindById(s, ok) \/ Insert(s, ok) \/ LoginSpk(s, ok) \/ LoginPassword(s, ok)
             \/ HasPassword(s, ok) \/ LoginVerify(s, ok) \/ UpdateIdentityKey(s, ok)
             \/ SetNewPassword(s, ok)
      PROVE  UNCHANGED requests
  BY <1>8 DEF FindById, Insert, LoginSpk, LoginPassword, HasPassword, LoginVerify,
              UpdateIdentityKey, SetNewPassword
<1>9. (\/ \E s \in Session, u \in User, k \in Key, p \in Password \cup {None}, b \in BOOLEAN :
            Authenticate(s, u, k, p, b)
       \/ \E s \in Session, b, d \in BOOLEAN : ClearKeyMaterial(s, b, d)
       \/ \E s \in Session, p, q \in Password, ok \in BOOLEAN : ChangePassword(s, p, q, ok)
       \/ \E s \in Session :
            Register(s) \/ UploadSpk(s) \/ StoreOpk(s) \/ PingTimeout(s) \/ EndSession(s))
         => UNCHANGED requests
  BY DEF Authenticate, ClearKeyMaterial, ChangePassword, Register, UploadSpk, StoreOpk, PingTimeout, EndSession
<1>10. UNCHANGED vars => UNCHANGED requests
  BY DEF vars, requests
<1> QED BY <1>3, <1>4, <1>5, <1>6, <1>7, <1>8, <1>9, <1>10 DEF Next

LEMMA InitCollection == Init => Collection
<1> USE AccountsAssumption
<1> QED BY DEF Init, Collection, Collected, NoBundle

(* Ids of one-time pre-keys.  They are not given twice, and one that is    *)
(* unused is in no bundle.                                                 *)
IdsGiven == \A o \in opks : o.id <= lastOpk /\ \A p \in opks : p.id = o.id => p = o

Handed ==
    \A c \in Client : bundle[c].opk # None =>
        /\ bundle[c].opk \in Opk /\ bundle[c].opk.id <= lastOpk
        /\ \A o \in opks : o.id = bundle[c].opk.id => o.used

Ids == IdsGiven /\ Handed /\ OpkOnce

LEMMA IdsKept ==
  ASSUME Ids, opks' \subseteq opks, lastOpk' = lastOpk,
         \A c \in Client : bundle'[c].opk \in {bundle[c].opk, None}
  PROVE  Ids'
<1>1. IdsGiven'
  BY DEF Ids, IdsGiven
<1>2. Handed'
  BY DEF Ids, Handed
<1>3. OpkOnce'
  BY DEF Ids, OpkOnce
<1> QED BY <1>1, <1>2, <1>3 DEF Ids

LEMMA StoreOpkIds ==
  ASSUME Shape, Ids, NEW s \in Session, StoreOpk(s)
  PROVE  Ids'
<1> DEFINE new == [id |-> lastOpk + 1, user |-> Me(s), by |-> auth[s].ident, used |-> FALSE]
<1>1. lastOpk' = lastOpk + 1 /\ opks' = opks \cup {new} /\ bundle' = bundle /\ lastOpk \in Nat
  BY DEF StoreOpk, requests, Shape, TypeOK
<1>2. new.id = lastOpk + 1
  OBVIOUS
<1>3. \A o \in opks : o.id \in Nat
  BY DEF Shape, TypeOK, Opk
<1>4. \A c \in Client : bundle[c].opk # None => bundle[c].opk.id \in Nat
  BY DEF Ids, Handed, Opk
<1> HIDE DEF new
<1>5. IdsGiven'
  BY <1>1, <1>2, <1>3 DEF Ids, IdsGiven
<1>6. Handed'
  BY <1>1, <1>2, <1>4 DEF Ids, Handed
<1>7. OpkOnce'
  BY <1>1 DEF Ids, OpkOnce
<1> QED BY <1>5, <1>6, <1>7 DEF Ids

LEMMA ConsumeOpkIds ==
  ASSUME Shape, Ids, NEW c \in Client, NEW ok \in BOOLEAN, ConsumeOpk(c, ok)
  PROVE  Ids'
<1> USE AccountsAssumption
<1>1. CASE UNCHANGED <<opks, bundle>>
  <2>1. lastOpk' = lastOpk
    BY DEF ConsumeOpk
  <2> QED BY <1>1, <2>1, IdsKept
<1>2. ASSUME NEW o \in opks, ~o.used, MarkUsed(o), bundle' = [bundle EXCEPT ![c].opk = o]
      PROVE  Ids'
  <2> DEFINE used == [o EXCEPT !.used = TRUE]
  <2>1. o \in Opk
    BY DEF Shape, TypeOK
  <2>2. used \in Opk /\ used.id = o.id /\ used.used = TRUE
    BY <2>1 DEF Opk
  <2>3. opks' = (opks \ {o}) \cup {used} /\ lastOpk' = lastOpk
    BY <1>2 DEF MarkUsed, ConsumeOpk
  <2>4. bundle[c] \in Bundle \cup {NoBundle}
    BY DEF Shape, TypeOK
  <2>5. [bundle[c] EXCEPT !.opk = o].opk = o
    BY <2>4 DEF Bundle, NoBundle
  <2>6. bundle'[c].opk = o /\ \A d \in Client : d # c => bundle'[d] = bundle[d]
    BY <1>2, <2>5 DEF Shape, TypeOK
  <2> HIDE DEF used
  <2>7. IdsGiven'
    BY <2>2, <2>3 DEF Ids, IdsGiven
  <2>8. \A p \in opks' : p.id = o.id => p.used
    BY <2>2, <2>3 DEF Ids, IdsGiven
  <2>9. Handed'
    <3> SUFFICES ASSUME NEW d \in Client, bundle'[d].opk # None
                 PROVE  /\ bundle'[d].opk \in Opk /\ bundle'[d].opk.id <= lastOpk'
                        /\ \A p \in opks' : p.id = bundle'[d].opk.id => p.used
      BY DEF Handed
    <3>1. CASE d = c
      BY <2>1, <2>3, <2>6, <2>8, <3>1 DEF Ids, IdsGiven
    <3>2. CASE d # c
      BY <2>2, <2>3, <2>6, <3>2 DEF Ids, Handed
    <3> QED BY <3>1, <3>2
  <2>10. \A d \in Client : d # c /\ bundle[d].opk # None => bundle[d].opk.id # o.id
    BY <1>2 DEF Ids, Handed
  <2>11. OpkOnce'
    BY <2>6, <2>10 DEF Ids, OpkOnce
  <2> QED BY <2>7, <2>9, <2>11 DEF Ids
<1> QED BY <1>1, <1>2 DEF ConsumeOpk, Unused

LEMMA IdsStep == Shape /\ Ids /\ [Next]_vars => Ids'
<1> SUFFICES ASSUME Shape, Ids, [Next]_vars PROVE Ids'
  OBVIOUS
<1>1. ASSUME NEW s \in Session, NEW ok \in BOOLEAN,
             \/ FindById(s, ok) \/ Insert(s, ok) \/ LoginSpk(s, ok) \/ LoginPassword(s, ok)
             \/ HasPassword(s, ok) \/ LoginVerify(s, ok) \/ UpdateIdentityKey(s, ok)
             \/ SetNewPassword(s, ok)
      PROVE  UNCHANGED <<opks, lastOpk, bundle>>
  BY <1>1 DEF FindById, Insert, LoginSpk, LoginPassword, HasPassword, LoginVerify,
              UpdateIdentityKey, SetNewPassword, keys, requests
<1>2. (\/ \E s \in Session, u \in User, k \in Key, p \in Password \cup {None}, b \in BOOLEAN :
            Authenticate(s, u, k, p, b)
       \/ \E s \in Session, p, q \in Password, ok \in BOOLEAN : ChangePassword(s, p, q, ok)
       \/ \E s \in Session : Register(s) \/ UploadSpk(s) \/ PingTimeout(s) \/ EndSession(s))
         => UNCHANGED <<opks, lastOpk, bundle>>
  BY DEF Authenticate, ChangePassword, Register, UploadSpk, PingTimeout, EndSession, keys, requests
<1>3. Restart \/ UNCHANGED vars => UNCHANGED <<opks, lastOpk, bundle>>
  BY DEF Restart, vars, keys, requests
<1>4. CASE UNCHANGED <<opks, lastOpk, bundle>>
  BY <1>4, IdsKept
<1>5. ASSUME NEW s \in Session, NEW b \in BOOLEAN, NEW d \in BOOLEAN, ClearKeyMaterial(s, b, d)
      PROVE  Ids'
  <2>1. opks' \subseteq opks /\ lastOpk' = lastOpk /\ bundle' = bundle
    BY <1>5 DEF ClearKeyMaterial, requests
  <2> QED BY <2>1, IdsKept
<1>6. ASSUME NEW c \in Client, NEW u \in User, RequestKeys(c, u) PROVE Ids'
  <2>1. opks' = opks /\ lastOpk' = lastOpk
    BY <1>6 DEF RequestKeys, keys
  <2>2. \A d \in Client : bundle'[d].opk \in {bundle[d].opk, None}
    BY <1>6 DEF RequestKeys, Shape, TypeOK
  <2> QED BY <2>1, <2>2, IdsKept
<1>7. ASSUME NEW c \in Client, NEW ok \in BOOLEAN, GetSignedPrekey(c, ok) PROVE Ids'
  <2>1. opks' = opks /\ lastOpk' = lastOpk
    BY <1>7 DEF GetSignedPrekey, keys
  <2>2. bundle[c] \in Bundle
    BY <1>7, BundleFields DEF GetSignedPrekey
  <2>3. [bundle[c] EXCEPT !.spk = spk[bundle[c].of]].opk = bundle[c].opk
    BY <2>2 DEF Bundle
  <2>4. bundle' = bundle \/ bundle' = [bundle EXCEPT ![c].spk = spk[bundle[c].of]]
    BY <1>7 DEF GetSignedPrekey
  <2>5. \A d \in Client : bundle'[d].opk = bundle[d].opk
    BY <2>3, <2>4 DEF Shape, TypeOK
  <2> QED BY <2>1, <2>5, IdsKept
<1>8. ASSUME NEW c \in Client, NEW ok \in BOOLEAN, ConsumeOpk(c, ok) PROVE Ids'
  BY <1>8, ConsumeOpkIds
<1>9. ASSUME NEW s \in Session, StoreOpk(s) PROVE Ids'
  BY <1>9, StoreOpkIds
<1> QED BY <1>1, <1>2, <1>3, <1>4, <1>5, <1>6, <1>7, <1>8, <1>9 DEF Next

LEMMA InitIds == Init => Ids
<1> USE AccountsAssumption
<1> QED BY DEF Init, Ids, IdsGiven, Handed, OpkOnce, NoBundle

-----------------------------------------------------------------------------
(* Types of the tables, the handlers and the bundles. *)
THEOREM TypeCorrect == Spec => []TypeOK
<1>1. Shape => TypeOK
  BY DEF Shape
<1> QED BY <1>1, InitShape, ShapeStep, PTL DEF Spec

(* However registrations, recoveries, failing statements and restarts      *)
(* interleave, nobody is past a login without the key the account had when *)
(* the identity of that login was written.                                 *)
THEOREM OneOwner == Spec => []OwnerOnly
<1>1. Init => Shape /\ Owners
  BY InitShape, InitOwners
<1>2. Shape /\ Owners /\ [Next]_vars => Shape' /\ Owners'
  BY ShapeStep, OwnersStep
<1> QED BY <1>1, <1>2, OwnersSuffice, PTL DEF Spec

(* The pre-keys of an account that one session uses at a time are of the   *)
(* identity it has, wherever a failing statement or a restart cuts a login *)
(* or a recovery short: no transaction is needed for that, because the     *)
(* pre-keys are deleted before the identity is written.                    *)
THEOREM KeysOfIdentity == Spec => []KeysMatchIdentity
<1>1. Init => Shape /\ Prekeys
  BY InitShape, InitPrekeys
<1>2. Shape /\ Prekeys /\ [Next]_vars => Shape' /\ Prekeys'
  BY ShapeStep, PrekeysStep
<1>3. Prekeys => KeysMatchIdentity
  BY DEF Prekeys
<1> QED BY <1>1, <1>2, <1>3, PTL DEF Spec

(* Whatever runs between the three lock sections of a request, a client is *)
(* not handed a pre-key of an identity earlier than the one in its bundle, *)
(* and no two clients are handed the same one-time pre-key.                *)
THEOREM FreshBundles == Spec => []BundlesFresh
<1> DEFINE Inv == Shape /\ Prekeys /\ Collection /\ Ids
<1>1. Init => Inv
  BY InitShape, InitPrekeys, InitCollection, InitIds
<1>2. Inv /\ [Next]_vars => Inv'
  BY ShapeStep, PrekeysStep, CollectionStep, IdsStep
<1>3. Inv => BundlesFresh
  BY CollectionSuffices DEF BundlesFresh, Ids
<1> QED BY <1>1, <1>2, <1>3, PTL DEF Spec
=============================================================================
