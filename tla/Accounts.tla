------------------------------ MODULE Accounts ------------------------------
(***************************************************************************)
(* Accounts and key material: the database part of handle_auth_response,   *)
(* handle_key_upload and handle_key_request (net/session.cpp), /password   *)
(* (commands/command_handler.cpp) and the tables users, signed_prekeys and *)
(* one_time_prekeys (db/user_store.cpp).                                   *)
(*                                                                         *)
(* Every call of the store is one step under the database lock, and no     *)
(* handler wraps its calls in a transaction: handlers of other sessions    *)
(* run between two calls, a restart may come between them, and a statement *)
(* that fails throws out of the handler and leaves what was done before.   *)
(*                                                                         *)
(* An identity is a public key with the number of times the account's      *)
(* identity has been written (gen, a history value): a pre-key carries the *)
(* identity under which its uploader logged in.                            *)
(***************************************************************************)
EXTENDS Integers, FiniteSets

CONSTANTS
    Session,   \* sessions that log in to the accounts
    Client,    \* sessions, of whatever account, that ask for its keys
    User,
    Key,       \* identity keys clients present
    Password,
    None,
    MaxGen,    \* bound: times an identity is written
    MaxOpks,   \* bound: one-time pre-keys uploaded
    Faults     \* whether statements of SQLite may fail

VARIABLES
    users,     \* table users: identity and password of an account
    spk,       \* table signed_prekeys: who signed the account's pre-key
    opks,      \* table one_time_prekeys
    lastOpk,   \* the id AUTOINCREMENT gave last
    registry,  \* sessions_by_user_
    pc,        \* the next call of the session's handler
    auth,      \* the AuthResponse of a session and the identity it logs in with
    asking,    \* the next call of a client's handle_key_request
    bundle,    \* the KeyBundle a client's request collects, or got last
    overlap    \* accounts that two handlers have used at once (history)

keys == <<spk, opks, lastOpk>>
requests == <<asking, bundle>>
vars == <<users, spk, opks, lastOpk, registry, pc, auth, asking, bundle, overlap>>

Identity == [key : Key, gen : Nat]
Account  == [ident : Identity, pass : Password \cup {None}]
Opk      == [id : Nat, user : User, by : Identity, used : BOOLEAN]

ASSUME AccountsAssumption ==
    /\ None \notin Session /\ None \notin User /\ None \notin Password
    /\ None \notin Identity /\ None \notin Account /\ None \notin Opk
    /\ MaxGen \in Nat /\ MaxOpks \in Nat
    /\ Faults \in BOOLEAN

NoAuth   == [user |-> None, key |-> None, pass |-> None, spk |-> FALSE, ident |-> None]
Auth     == [user : User, key : Key, pass : Password \cup {None}, spk : BOOLEAN,
             ident : Identity \cup {None}]
NoBundle == [of |-> None, ident |-> None, spk |-> None, opk |-> None]
Bundle   == [of : User, ident : Identity, spk : Identity \cup {None}, opk : Opk \cup {None}]

Login   == {"find", "insert", "spk", "pass", "has", "verify", "clear", "update",
            "newSpk", "hasOld", "backfill", "register"}

Exists(u) == users[u] # None
Me(s) == auth[s].user
Goto(s, l) == pc' = [pc EXCEPT ![s] = l]

(* The session is gone, or back where AUTH_RESPONSE is expected. *)
Reset(s) == Goto(s, "new") /\ auth' = [auth EXCEPT ![s] = NoAuth]

Init ==
    /\ users = [u \in User |-> None]
    /\ spk = [u \in User |-> None]
    /\ opks = {} /\ lastOpk = 0
    /\ registry = [u \in User |-> None]
    /\ pc = [s \in Session |-> "new"]
    /\ auth = [s \in Session |-> NoAuth]
    /\ asking = [c \in Client |-> "idle"]
    /\ bundle = [c \in Client |-> NoBundle]
    /\ overlap = {}

-----------------------------------------------------------------------------
(* handle_auth_response.  A call that throws, other than insert, leaves    *)
(* the session where it may try again; a refusal closes it.                *)

(* is_nickname_available, and the signature of the key is good. *)
Authenticate(s, u, k, p, withSpk) ==
    /\ pc[s] = "new" /\ registry[u] = None
    /\ Goto(s, "find")
    /\ auth' = [auth EXCEPT ![s] = [user |-> u, key |-> k, pass |-> p, spk |-> withSpk,
                                    ident |-> None]]
    /\ overlap' = overlap \cup {v \in {u} : \E t \in Session \ {s} : Me(t) = v}
    /\ UNCHANGED <<users, keys, registry, requests>>

(* find_by_id, for which a failure is an unknown user, and the comparison  *)
(* of the keys.                                                            *)
FindById(s, ok) ==
    LET a == auth[s]
        known == ok /\ Exists(a.user)
    IN  /\ pc[s] = "find" /\ (ok \/ Faults)
        /\ \/ /\ ~known
              /\ Goto(s, "insert") /\ UNCHANGED auth
           \/ /\ known /\ users[a.user].ident.key = a.key
              /\ Goto(s, IF a.pass = None THEN "register" ELSE "hasOld")
              /\ auth' = [auth EXCEPT ![s].ident = users[a.user].ident]
           \/ /\ known /\ users[a.user].ident.key # a.key /\ a.pass # None
              /\ Goto(s, "has") /\ UNCHANGED auth
           \/ /\ known /\ users[a.user].ident.key # a.key /\ a.pass = None
              /\ Reset(s)
        /\ UNCHANGED <<users, keys, registry, requests, overlap>>

(* Mutant: INSERT OR REPLACE. *)
InsertAnyway(u) == TRUE

(* user_id is the primary key. *)
InsertSucceeds(u) == ~Exists(u)

(* insert: an account that has appeared meanwhile is not overwritten. *)
Insert(s, ok) ==
    LET a == auth[s]
        ident == [key |-> a.key, gen |-> 1]
    IN  /\ pc[s] = "insert" /\ (ok \/ Faults)
        /\ \/ /\ ok /\ InsertSucceeds(a.user)
              /\ users' = [users EXCEPT ![a.user] = [ident |-> ident, pass |-> None]]
              /\ auth' = [auth EXCEPT ![s].ident = ident]
              /\ Goto(s, "spk")
           \/ /\ ~(ok /\ InsertSucceeds(a.user))
              /\ Reset(s)
              /\ UNCHANGED users
        /\ UNCHANGED <<keys, registry, requests, overlap>>

(* upsert_signed_prekey in a login, when the client sent a pre-key. *)
LoginSpk(s, ok) ==
    LET a == auth[s]
    IN  /\ pc[s] \in {"spk", "newSpk"} /\ (ok \/ (Faults /\ a.spk))
        /\ spk' = IF a.spk /\ ok THEN [spk EXCEPT ![a.user] = a.ident] ELSE spk
        /\ IF ok THEN /\ Goto(s, IF pc[s] = "spk" THEN "pass" ELSE "register")
                      /\ UNCHANGED auth
                 ELSE Reset(s)
        /\ UNCHANGED <<users, opks, lastOpk, registry, requests, overlap>>

(* set_password: an UPDATE, whose failure is only logged. *)
SetPassword(u, p, ok) ==
    users' = IF ok /\ p # None /\ Exists(u) THEN [users EXCEPT ![u].pass = p] ELSE users

(* The recovery password of a new account, or of an old one without. *)
LoginPassword(s, ok) ==
    /\ pc[s] \in {"pass", "backfill"} /\ (ok \/ Faults)
    /\ SetPassword(Me(s), auth[s].pass, ok)
    /\ Goto(s, "register")
    /\ UNCHANGED <<keys, registry, auth, requests, overlap>>

(* has_password, for which a failure is a no. *)
HasPassword(s, ok) ==
    LET has == ok /\ Exists(Me(s)) /\ users[Me(s)].pass # None
    IN  /\ ok \/ Faults
        /\ \/ /\ pc[s] = "has" /\ has
              /\ Goto(s, "verify") /\ UNCHANGED auth
           \/ /\ pc[s] = "has" /\ ~has
              /\ Reset(s)
           \/ /\ pc[s] = "hasOld"
              /\ Goto(s, IF has THEN "register" ELSE "backfill") /\ UNCHANGED auth
        /\ UNCHANGED <<users, keys, registry, requests, overlap>>

(* verify_password, for which a failure is a no. *)
VerifyPassword(u, p, ok) == ok /\ Exists(u) /\ users[u].pass # None /\ users[u].pass = p

(* The password of a recovery is checked. *)
LoginVerify(s, ok) ==
    /\ pc[s] = "verify" /\ (ok \/ Faults)
    /\ IF VerifyPassword(Me(s), auth[s].pass, ok)
       THEN Goto(s, "clear") /\ UNCHANGED auth
       ELSE Reset(s)
    /\ UNCHANGED <<users, keys, registry, requests, overlap>>

(* Mutant: an exception is swallowed and the recovery goes on. *)
ClearKeyMaterialAnyway(s, spkGone, opksGone) ==
    /\ pc[s] = "clear"
    /\ (opksGone => spkGone) /\ (Faults \/ opksGone)
    /\ spk' = IF spkGone THEN [spk EXCEPT ![Me(s)] = None] ELSE spk
    /\ opks' = IF opksGone THEN {o \in opks : o.user # Me(s)} ELSE opks
    /\ Goto(s, "update")
    /\ UNCHANGED <<users, lastOpk, registry, auth, requests, overlap>>

(* clear_key_material: two DELETEs; one that fails keeps the other from    *)
(* running, or does not undo it.                                           *)
ClearKeyMaterial(s, spkGone, opksGone) ==
    /\ pc[s] = "clear"
    /\ (opksGone => spkGone) /\ (Faults \/ opksGone)
    /\ spk' = IF spkGone THEN [spk EXCEPT ![Me(s)] = None] ELSE spk
    /\ opks' = IF opksGone THEN {o \in opks : o.user # Me(s)} ELSE opks
    /\ IF opksGone THEN Goto(s, "update") /\ UNCHANGED auth ELSE Reset(s)
    /\ UNCHANGED <<users, lastOpk, registry, requests, overlap>>

(* update_identity_key. *)
UpdateIdentityKey(s, ok) ==
    LET a == auth[s]
        ident == [key |-> a.key, gen |-> users[a.user].ident.gen + 1]
    IN  /\ pc[s] = "update" /\ (ok \/ Faults)
        /\ users[a.user].ident.gen < MaxGen
        /\ \/ /\ ok
              /\ users' = [users EXCEPT ![a.user].ident = ident]
              /\ auth' = [auth EXCEPT ![s].ident = ident]
              /\ Goto(s, "newSpk")
           \/ /\ ~ok
              /\ Reset(s) /\ UNCHANGED users
        /\ UNCHANGED <<keys, registry, requests, overlap>>

(* on_session_authenticated: a session registered meanwhile is replaced,   *)
(* and goes on until the close posted to it runs.  The AuthResponse is     *)
(* not needed any more.                                                    *)
Register(s) ==
    /\ pc[s] = "register"
    /\ registry' = [registry EXCEPT ![Me(s)] = s]
    /\ auth' = [auth EXCEPT ![s].pass = None, ![s].spk = FALSE]
    /\ Goto(s, "idle")
    /\ UNCHANGED <<users, keys, requests, overlap>>

-----------------------------------------------------------------------------
(* The session is established. *)

(* handle_key_upload's upsert_signed_prekey. *)
UploadSpk(s) ==
    /\ pc[s] = "idle"
    /\ spk' = [spk EXCEPT ![Me(s)] = auth[s].ident]
    /\ UNCHANGED <<users, opks, lastOpk, registry, pc, auth, requests, overlap>>

(* Mutant: a session that has not logged in may upload. *)
StoreOpkUnchecked(s) ==
    /\ lastOpk < MaxOpks
    /\ lastOpk' = lastOpk + 1
    /\ opks' = opks \cup {[id |-> lastOpk + 1, user |-> Me(s), by |-> auth[s].ident,
                           used |-> FALSE]}
    /\ UNCHANGED <<users, spk, registry, pc, auth, requests, overlap>>

(* handle_key_upload's store_opk; the frame's calls run one by one, and    *)
(* the first that fails is the last.                                       *)
StoreOpk(s) ==
    /\ pc[s] = "idle" /\ lastOpk < MaxOpks
    /\ lastOpk' = lastOpk + 1
    /\ opks' = opks \cup {[id |-> lastOpk + 1, user |-> Me(s), by |-> auth[s].ident,
                           used |-> FALSE]}
    /\ UNCHANGED <<users, spk, registry, pc, auth, requests, overlap>>

(* /password: update_password's verify_password. *)
ChangePassword(s, old, new, ok) ==
    /\ pc[s] = "idle" /\ (ok \/ Faults)
    /\ VerifyPassword(Me(s), old, ok)
    /\ auth' = [auth EXCEPT ![s].pass = new]
    /\ Goto(s, "setNew")
    /\ UNCHANGED <<users, keys, registry, requests, overlap>>

(* update_password's set_password. *)
SetNewPassword(s, ok) ==
    /\ pc[s] = "setNew" /\ (ok \/ Faults)
    /\ SetPassword(Me(s), auth[s].pass, ok)
    /\ auth' = [auth EXCEPT ![s].pass = None]
    /\ Goto(s, "idle")
    /\ UNCHANGED <<keys, registry, requests, overlap>>

(* handle_key_request, from find_by_id: an unknown user is an error.       *)
RequestKeys(c, u) ==
    /\ asking[c] = "idle" /\ Exists(u)
    /\ asking' = [asking EXCEPT ![c] = "getSpk"]
    /\ bundle' = [bundle EXCEPT ![c] = [of |-> u, ident |-> users[u].ident, spk |-> None,
                                        opk |-> None]]
    /\ UNCHANGED <<users, keys, registry, pc, auth, overlap>>

(* get_signed_prekey, for which a failure is no pre-key. *)
GetSignedPrekey(c, ok) ==
    /\ asking[c] = "getSpk" /\ (ok \/ Faults)
    /\ asking' = [asking EXCEPT ![c] = "consume"]
    /\ bundle' = IF ok THEN [bundle EXCEPT ![c].spk = spk[bundle[c].of]] ELSE bundle
    /\ UNCHANGED <<users, keys, registry, pc, auth, overlap>>

Unused(u) == {o \in opks : o.user = u /\ ~o.used}

MarkUsed(o) == opks' = (opks \ {o}) \cup {[o EXCEPT !.used = TRUE]}

(* Mutant: the identity is looked up last. *)
ConsumeOpkThenFind(c, ok) ==
    LET u == bundle[c].of
    IN  /\ asking[c] = "consume" /\ (ok \/ Faults)
        /\ bundle' = [bundle EXCEPT ![c].ident = users[u].ident]
        /\ asking' = [asking EXCEPT ![c] = "idle"]
        /\ UNCHANGED <<users, keys, registry, pc, auth, overlap>>

(* consume_opk: SELECT and UPDATE under one lock; when either fails no key *)
(* is given out.  The bundle is sent.                                      *)
ConsumeOpk(c, ok) ==
    LET u == bundle[c].of
    IN  /\ asking[c] = "consume" /\ (ok \/ Faults)
        /\ \/ \E o \in Unused(u) :
                /\ ok
                /\ MarkUsed(o)
                /\ bundle' = [bundle EXCEPT ![c].opk = o]
           \/ /\ ok => Unused(u) = {}
              /\ UNCHANGED <<opks, bundle>>
        /\ asking' = [asking EXCEPT ![c] = "idle"]
        /\ UNCHANGED <<users, spk, lastOpk, registry, pc, auth, overlap>>

(* A ping timeout takes the session off the registry, between two frames,  *)
(* and nothing closes it: it goes on with the frames its client sends.     *)
PingTimeout(s) ==
    /\ pc[s] = "idle" /\ registry[Me(s)] = s
    /\ registry' = [registry EXCEPT ![Me(s)] = None]
    /\ UNCHANGED <<users, keys, pc, auth, requests, overlap>>

(* The session is closed, for good, and leaves the registry if it is still *)
(* in it.                                                                  *)
EndSession(s) ==
    /\ pc[s] = "idle"
    /\ registry' = IF registry[Me(s)] = s THEN [registry EXCEPT ![Me(s)] = None] ELSE registry
    /\ Reset(s)
    /\ UNCHANGED <<users, keys, requests, overlap>>

(* The server stops at any point and starts again over the same database. *)
Restart ==
    /\ registry' = [u \in User |-> None]
    /\ pc' = [s \in Session |-> "new"]
    /\ auth' = [s \in Session |-> NoAuth]
    /\ asking' = [c \in Client |-> "idle"]
    /\ UNCHANGED <<users, keys, bundle, overlap>>

Next ==
    \/ \E s \in Session, u \in User, k \in Key, p \in Password \cup {None}, b \in BOOLEAN :
         Authenticate(s, u, k, p, b)
    \/ \E s \in Session, ok \in BOOLEAN :
         \/ FindById(s, ok) \/ Insert(s, ok) \/ LoginSpk(s, ok) \/ LoginPassword(s, ok)
         \/ HasPassword(s, ok) \/ LoginVerify(s, ok) \/ UpdateIdentityKey(s, ok)
         \/ SetNewPassword(s, ok)
    \/ \E s \in Session, b, c \in BOOLEAN : ClearKeyMaterial(s, b, c)
    \/ \E c \in Client, u \in User : RequestKeys(c, u)
    \/ \E c \in Client, ok \in BOOLEAN : GetSignedPrekey(c, ok) \/ ConsumeOpk(c, ok)
    \/ \E s \in Session, p, q \in Password, ok \in BOOLEAN : ChangePassword(s, p, q, ok)
    \/ \E s \in Session : Register(s) \/ UploadSpk(s) \/ StoreOpk(s) \/ PingTimeout(s) \/ EndSession(s)
    \/ Restart

Spec == Init /\ [][Next]_vars

-----------------------------------------------------------------------------
(* Every variable has its type. *)
TypeOK ==
    /\ users \in [User -> Account \cup {None}]
    /\ spk \in [User -> Identity \cup {None}]
    /\ opks \subseteq Opk /\ lastOpk \in Nat
    /\ registry \in [User -> Session \cup {None}]
    /\ pc \in [Session -> {"new", "idle", "setNew"} \cup Login]
    /\ auth \in [Session -> Auth \cup {NoAuth}]
    /\ asking \in [Client -> {"idle", "getSpk", "consume"}]
    /\ bundle \in [Client -> Bundle \cup {NoBundle}]
    /\ overlap \subseteq User

(* Every session past its login holds the key the account had when the     *)
(* identity it logged in with was written: of two clients that register    *)
(* the same name at once, or with a lookup that failed, only one gets it.  *)
OwnerOnly ==
    \A s \in Session :
      pc[s] \in {"register", "idle", "setNew"} =>
        LET u == Me(s)
        IN  /\ Exists(u)
            /\ auth[s].ident.gen <= users[u].ident.gen
            /\ auth[s].ident.gen = users[u].ident.gen => auth[s].ident = users[u].ident

(* The pre-keys the server keeps for an account were uploaded under the    *)
(* account's present identity, whatever statement fails and wherever a     *)
(* restart cuts a recovery short, as long as no two sessions used the      *)
(* account at once.                                                        *)
KeysMatchIdentity ==
    \A u \in User \ overlap :
      /\ spk[u] # None => Exists(u) /\ spk[u] = users[u].ident
      /\ \A o \in opks : o.user = u => Exists(u) /\ o.by = users[u].ident

(* A bundle, put together under three locks, never joins an identity to    *)
(* pre-keys of an earlier one: it is of one identity, or a recovery came   *)
(* between and the pre-keys are the newer ones.                            *)
NoStalePrekeys ==
    \A c \in Client :
      LET b == bundle[c]
      IN  b # NoBundle /\ b.of \notin overlap =>
            /\ b.spk # None => b.ident.gen <= b.spk.gen
            /\ b.opk # None => b.ident.gen <= b.opk.by.gen
            /\ b.spk # None /\ b.opk # None => b.spk.gen <= b.opk.by.gen

(* No one-time pre-key is in the bundles of two clients ("removed after   *)
(* use", proto/ircord.proto).                                              *)
OpkOnce ==
    \A c, d \in Client :
      c # d /\ bundle[c].opk # None /\ bundle[d].opk # None =>
        bundle[c].opk.id # bundle[d].opk.id

(* What two clients are handed is fresh: no pre-key of an earlier identity *)
(* and no one-time pre-key a second time.                                  *)
BundlesFresh == NoStalePrekeys /\ OpkOnce
=============================================================================
