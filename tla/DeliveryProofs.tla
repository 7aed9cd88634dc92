--------------------------- MODULE DeliveryProofs ---------------------------
(***************************************************************************)
(* Proofs about Delivery, for any senders, recipients, sessions and limits.*)
(* A theorem that assumes ~Faults is about a database whose statements     *)
(* succeed; the others hold whatever they do.                              *)
(***************************************************************************)
EXTENDS Delivery, TLAPS

Holds(p) == handler[p] # Idle
Old(m) == m[2] <= sent[m[1]]

LEMMA MessageParts ==
  ASSUME NEW m \in Message
  PROVE  m[1] \in Sender /\ m[2] \in 1..MaxMessages /\ m = <<m[1], m[2]>>
  BY DEF Message

LEMMA HandlerParts ==
  ASSUME TypeOK, NEW p \in Sender, Holds(p)
  PROVE  /\ handler[p] \in Lookup
         /\ handler[p].to \in User /\ handler[p].msg \in Message
         /\ handler[p].session \in Session \cup {None}
  BY DEF TypeOK, Holds, Lookup

(* What send() does to the clients' inboxes. *)
LEMMA SendToInbox ==
  ASSUME TypeOK, NEW s \in Session, NEW m \in Message, NEW stored \in BOOLEAN,
         SendTo(s, m, stored)
  PROVE  /\ \A t \in Session : t # s => inbox'[t] = inbox[t]
         /\ s \in alive =>
               /\ Len(inbox'[s]) = Len(inbox[s]) + 1
               /\ \A i \in 1..Len(inbox[s]) : inbox'[s][i] = inbox[s][i]
               /\ inbox'[s][Len(inbox[s]) + 1] = [msg |-> m, stored |-> stored]
               /\ dropped' = dropped
         /\ s \notin alive => inbox' = inbox /\ dropped' = dropped \cup {m}
         /\ inbox' \in [Session -> Seq(Receipt)] /\ dropped' \in SUBSET Message
<1> DEFINE x == [msg |-> m, stored |-> stored]
<1>1. x \in Receipt
  BY DEF Receipt
<1>2. CASE s \notin alive
  BY <1>2 DEF SendTo, TypeOK
<1>3. CASE s \in alive
  <2>1. inbox' = [inbox EXCEPT ![s] = Append(@, x)] /\ dropped' = dropped
    BY <1>3 DEF SendTo
  <2>2. inbox[s] \in Seq(Receipt)
    BY DEF TypeOK
  <2>3. /\ Append(inbox[s], x) \in Seq(Receipt)
        /\ Len(Append(inbox[s], x)) = Len(inbox[s]) + 1
        /\ \A i \in 1..Len(inbox[s]) : Append(inbox[s], x)[i] = inbox[s][i]
        /\ Append(inbox[s], x)[Len(inbox[s]) + 1] = x
    BY <1>1, <2>2
  <2> QED BY <1>3, <2>1, <2>3 DEF TypeOK
<1> QED BY <1>2, <1>3

(* Without failing statements fetch_and_delete takes all rows of the user. *)
LEMMA FetchWithoutFaults ==
  ASSUME ~Faults, NEW s \in Session, NEW delete \in BOOLEAN, FetchAndDelete(s, delete), TypeOK
  PROVE  LET R == RowsOf(user[s]) IN
         /\ batch' = [batch EXCEPT ![s] = R \ Expired(R)]
         /\ rows' = rows \ R
         /\ dropped' = dropped \cup Messages(Expired(R))
  BY DEF FetchAndDelete, TypeOK

-----------------------------------------------------------------------------
LEMMA TypeStep == TypeOK /\ [Next]_vars => TypeOK'
<1> SUFFICES ASSUME TypeOK, [Next]_vars PROVE TypeOK'
  OBVIOUS
<1> USE DeliveryAssumption
<1>1. ASSUME NEW p \in Sender, NEW u \in User, FindSession(p, u) PROVE TypeOK'
  <2>1. <<p, sent[p] + 1>> \in Message
    BY <1>1 DEF FindSession, TypeOK, Message
  <2>2. [to |-> u, msg |-> <<p, sent[p] + 1>>, session |-> online[u]] \in Lookup
    BY <2>1 DEF Lookup, TypeOK
  <2>3. handler' \in [Sender -> Lookup \cup {Idle}]
    BY <1>1, <2>2 DEF FindSession, TypeOK
  <2>4. sent' \in [Sender -> 0..MaxMessages]
    BY <1>1 DEF FindSession, TypeOK
  <2> QED BY <1>1, <2>3, <2>4 DEF FindSession, TypeOK, store, receivers
<1>2. ASSUME NEW p \in Sender, Route(p) PROVE TypeOK'
  <2>1. handler[p].session \in Session /\ handler[p].msg \in Message
    BY <1>2, HandlerParts DEF Route, Holds
  <2>2. inbox' \in [Session -> Seq(Receipt)] /\ dropped' \in SUBSET Message
    BY <1>2, <2>1, SendToInbox DEF Route
  <2> QED BY <1>2, <2>2 DEF Route, TypeOK, store, receivers
<1>3. ASSUME NEW p \in Sender, NEW a \in BOOLEAN, NEW b \in BOOLEAN, NEW c \in BOOLEAN,
             Save(p, a, b, c)
      PROVE TypeOK'
  <2>1. handler[p].to \in User /\ handler[p].msg \in Message
    BY <1>3, HandlerParts DEF Save, Holds
  <2>2. [id |-> lastId + 1, to |-> handler[p].to, msg |-> handler[p].msg, expires |-> now + Ttl] \in Row
    BY <2>1 DEF Row, TypeOK
  <2>3. \A R \in SUBSET rows : Messages(R) \subseteq Message
    BY DEF Messages, Row, TypeOK
  <2>4. Messages(Oldest(rows)) \subseteq Message /\ Messages({}) \subseteq Message
    BY <2>3 DEF Oldest
  <2>5. rows' \in SUBSET Row /\ lastId' \in Nat /\ dropped' \in SUBSET Message
    <3> DEFINE gone == IF b /\ Cardinality(rows) >= MaxTotal THEN Oldest(rows) ELSE {}
               row  == [id |-> lastId + 1, to |-> handler[p].to, msg |-> handler[p].msg,
                        expires |-> now + Ttl]
    <3>1. OfflineSave(handler[p].to, handler[p].msg, a, b, c)
      BY <1>3 DEF Save
    <3>2. Messages(gone) \subseteq Message
      BY <2>4
    <3>3. /\ rows' \subseteq rows \cup {row}
          /\ lastId' \in {lastId, lastId + 1}
          /\ dropped' \subseteq dropped \cup {handler[p].msg} \cup Messages(gone)
      BY <3>1 DEF OfflineSave, store
    <3> HIDE DEF gone
    <3> QED BY <2>1, <2>2, <3>2, <3>3 DEF TypeOK
  <2>6. handler' \in [Sender -> Lookup \cup {Idle}]
    BY <1>3 DEF Save, TypeOK
  <2> QED BY <1>3, <2>5, <2>6 DEF Save, TypeOK, receivers
<1>4. ASSUME NEW s \in Session, NEW u \in User, CheckNickname(s, u) PROVE TypeOK'
  BY <1>4 DEF CheckNickname, TypeOK, store, senders
<1>5. ASSUME NEW s \in Session, EnterRegistry(s) PROVE TypeOK'
  BY <1>5 DEF EnterRegistry, TypeOK, store, senders
<1>6. ASSUME NEW s \in Session, NEW delete \in BOOLEAN, FetchAndDelete(s, delete) PROVE TypeOK'
  <2>1. RowsOf(user[s]) \subseteq Row /\ Expired(RowsOf(user[s])) \subseteq Row
    BY DEF RowsOf, Expired, TypeOK
  <2>2. Messages(Expired(RowsOf(user[s]))) \subseteq Message
    BY <2>1 DEF Messages, Row
  <2>3. batch' \in [Session -> SUBSET Row]
    BY <1>6, <2>1 DEF FetchAndDelete, TypeOK
  <2> QED BY <1>6, <2>1, <2>2, <2>3 DEF FetchAndDelete, TypeOK, senders
<1>7. ASSUME NEW s \in Session, SendStored(s) PROVE TypeOK'
  <2>1. PICK r \in Oldest(batch[s]) :
           batch' = [batch EXCEPT ![s] = @ \ {r}] /\ SendTo(s, r.msg, TRUE)
    BY <1>7 DEF SendStored
  <2>2. r.msg \in Message
    BY <2>1 DEF Oldest, TypeOK, Row
  <2>3. inbox' \in [Session -> Seq(Receipt)] /\ dropped' \in SUBSET Message
    BY <2>1, <2>2, SendToInbox
  <2>4. batch' \in [Session -> SUBSET Row]
    BY <2>1 DEF TypeOK
  <2> QED BY <1>7, <2>3, <2>4 DEF SendStored, TypeOK, store, receivers, senders
<1>8. ASSUME NEW s \in Session, Leave(s) PROVE TypeOK'
  BY <1>8 DEF Leave, TypeOK, store, senders
<1>9. ASSUME NEW s \in Session, ConnectionBreaks(s) PROVE TypeOK'
  BY <1>9 DEF ConnectionBreaks, TypeOK, store, receivers, senders
<1>10. CASE Tick
  BY <1>10 DEF Tick, TypeOK, store, receivers, senders
<1>11. CASE CleanupExpired
  BY <1>11 DEF CleanupExpired, Expired, Messages, Row, TypeOK, receivers, senders
<1>12. CASE Restart
  <2>1. {handler[p].msg : p \in {q \in Sender : handler[q] # Idle}} \subseteq Message
    BY HandlerParts DEF Holds
  <2>2. UNION {batch[s] : s \in Session} \subseteq Row
    BY DEF TypeOK
  <2>3. Messages(UNION {batch[s] : s \in Session}) \subseteq Message
    BY <2>2 DEF Messages, Row
  <2> QED BY <1>12, <2>1, <2>3 DEF Restart, TypeOK, store
<1>13. CASE UNCHANGED vars
  BY <1>13 DEF vars, TypeOK, store, receivers, senders
<1> QED BY <1>1, <1>2, <1>3, <1>4, <1>5, <1>6, <1>7, <1>8, <1>9, <1>10, <1>11, <1>12, <1>13
        DEF Next, Send, Receive

LEMMA InitType == Init => TypeOK
  BY DeliveryAssumption DEF Init, TypeOK

-----------------------------------------------------------------------------
(* Where messages are.  A message is numbered when it is sent, so a new    *)
(* one is nowhere yet.                                                     *)
Known ==
    /\ \A p \in Sender : Holds(p) => handler[p].msg = <<p, sent[p]>>
    /\ \A r \in rows : Old(r.msg) /\ r.id <= lastId
    /\ \A s \in Session : \A r \in batch[s] : Old(r.msg)
    /\ \A s \in Session : \A i \in 1..Len(inbox[s]) : Old(inbox[s][i].msg)

(* A session has a batch only once it has fetched. *)
Phases == \A s \in Session : phase[s] # "fetched" => batch[s] = {}

HandlerAlone ==
    \A p \in Sender : Holds(p) =>
        /\ \A r \in rows : r.msg # handler[p].msg
        /\ \A s \in Session : \A r \in batch[s] : r.msg # handler[p].msg
        /\ \A s \in Session : \A i \in 1..Len(inbox[s]) : inbox[s][i].msg # handler[p].msg

RowAlone ==
    \A r \in rows :
        /\ \A q \in rows : q.msg = r.msg => q = r
        /\ \A s \in Session : \A q \in batch[s] : q.msg # r.msg
        /\ \A s \in Session : \A i \in 1..Len(inbox[s]) : inbox[s][i].msg # r.msg

BatchAlone ==
    \A s \in Session : \A r \in batch[s] :
        /\ \A t \in Session : \A q \in batch[t] : q.msg = r.msg => t = s /\ q = r
        /\ \A t \in Session : \A i \in 1..Len(inbox[t]) : inbox[t][i].msg # r.msg

InboxAlone ==
    \A s, t \in Session : \A i \in 1..Len(inbox[s]), j \in 1..Len(inbox[t]) :
        inbox[s][i].msg = inbox[t][j].msg => s = t /\ i = j

Somewhere(m) ==
    \/ \E p \in Sender : Holds(p) /\ handler[p].msg = m
    \/ \E r \in rows : r.msg = m
    \/ \E s \in Session : \E r \in batch[s] : r.msg = m
    \/ \E s \in Session : \E i \in 1..Len(inbox[s]) : inbox[s][i].msg = m

Accounted == \A m \in Message : Old(m) => Somewhere(m) \/ m \in dropped

(* What holds whatever statements fail, and what does only while they do   *)
(* not: a failing delete leaves rows in the store that are in a batch too. *)
Base == Known /\ Phases /\ HandlerAlone /\ Accounted
Once == RowAlone /\ BatchAlone /\ InboxAlone

CopyInBatch(m, s) == {<<"batch", s, r.id>> : r \in {q \in batch[s] : q.msg = m}}
CopyInInbox(m, s) == {<<"inbox", s, i>> : i \in {j \in 1..Len(inbox[s]) : inbox[s][j].msg = m}}

LEMMA CopiesAre ==
  ASSUME NEW m, NEW x
  PROVE  x \in Copies(m) <=>
            \/ \E p \in Sender : Holds(p) /\ handler[p].msg = m /\ x = <<"handler", p>>
            \/ \E r \in rows : r.msg = m /\ x = <<"row", r.id>>
            \/ \E s \in Session : \E r \in batch[s] : r.msg = m /\ x = <<"batch", s, r.id>>
            \/ \E s \in Session : \E i \in 1..Len(inbox[s]) :
                   inbox[s][i].msg = m /\ x = <<"inbox", s, i>>
<1> DEFINE H == {<<"handler", p>> : p \in {q \in Sender : handler[q] # Idle /\ handler[q].msg = m}}
           R == {<<"row", r.id>> : r \in {q \in rows : q.msg = m}}
           B == UNION {CopyInBatch(m, s) : s \in Session}
           I == UNION {CopyInInbox(m, s) : s \in Session}
<1>1. Copies(m) = ((H \cup R) \cup B) \cup I
  BY DEF Copies, CopyInBatch, CopyInInbox
<1>2. x \in H <=> \E p \in Sender : Holds(p) /\ handler[p].msg = m /\ x = <<"handler", p>>
  BY DEF Holds
<1>3. x \in R <=> \E r \in rows : r.msg = m /\ x = <<"row", r.id>>
  OBVIOUS
<1>4. x \in B <=> \E s \in Session : x \in CopyInBatch(m, s)
  OBVIOUS
<1>5. x \in I <=> \E s \in Session : x \in CopyInInbox(m, s)
  OBVIOUS
<1>6. \A s : x \in CopyInBatch(m, s) <=> \E r \in batch[s] : r.msg = m /\ x = <<"batch", s, r.id>>
  BY DEF CopyInBatch
<1>7. \A s : x \in CopyInInbox(m, s) <=>
         \E i \in 1..Len(inbox[s]) : inbox[s][i].msg = m /\ x = <<"inbox", s, i>>
  BY DEF CopyInInbox
<1> HIDE DEF H, R, B, I
<1> QED BY <1>1, <1>2, <1>3, <1>4, <1>5, <1>6, <1>7

LEMMA OnceSuffices == Base /\ Once => AtMostOneCopy
<1> SUFFICES ASSUME Base, Once PROVE AtMostOneCopy
  OBVIOUS
<1> SUFFICES ASSUME NEW m \in Message, NEW x \in Copies(m), NEW y \in Copies(m) PROVE x = y
  BY DEF AtMostOneCopy
<1> DEFINE H(z) == \E p \in Sender : Holds(p) /\ handler[p].msg = m /\ z = <<"handler", p>>
           R(z) == \E r \in rows : r.msg = m /\ z = <<"row", r.id>>
           B(z) == \E s \in Session : \E r \in batch[s] : r.msg = m /\ z = <<"batch", s, r.id>>
           I(z) == \E s \in Session : \E i \in 1..Len(inbox[s]) :
                       inbox[s][i].msg = m /\ z = <<"inbox", s, i>>
<1>1. \A z \in Copies(m) : H(z) \/ R(z) \/ B(z) \/ I(z)
  BY CopiesAre
<1>2. CASE H(x)
  <2>1. ~R(y) /\ ~B(y) /\ ~I(y)
    BY <1>2 DEF Base, HandlerAlone
  <2>2. H(y) => x = y
    BY <1>2 DEF Base, Known
  <2> QED BY <1>1, <2>1, <2>2
<1>3. CASE R(x)
  <2>1. ~H(y) /\ ~B(y) /\ ~I(y)
    BY <1>3 DEF Base, Once, HandlerAlone, RowAlone
  <2>2. R(y) => x = y
    BY <1>3 DEF Once, RowAlone
  <2> QED BY <1>1, <2>1, <2>2
<1>4. CASE B(x)
  <2>1. ~H(y) /\ ~R(y) /\ ~I(y)
    BY <1>4 DEF Base, Once, HandlerAlone, RowAlone, BatchAlone
  <2>2. B(y) => x = y
    BY <1>4 DEF Once, BatchAlone
  <2> QED BY <1>1, <2>1, <2>2
<1>5. CASE I(x)
  <2>1. ~H(y) /\ ~R(y) /\ ~B(y)
    BY <1>5 DEF Base, Once, HandlerAlone, RowAlone, BatchAlone
  <2>2. I(y) => x = y
    BY <1>5 DEF Once, InboxAlone
  <2> QED BY <1>1, <2>1, <2>2
<1> QED BY <1>1, <1>2, <1>3, <1>4, <1>5

LEMMA BaseSuffices == Base => NothingVanishes
<1> SUFFICES ASSUME Base PROVE NothingVanishes
  OBVIOUS
<1> SUFFICES ASSUME NEW m \in Message, Old(m) PROVE Copies(m) # {} \/ m \in dropped
  BY DEF NothingVanishes, Old
<1>1. CASE m \in dropped
  BY <1>1
<1>2. ASSUME NEW p \in Sender, Holds(p), handler[p].msg = m PROVE Copies(m) # {}
  <2>1. <<"handler", p>> \in Copies(m)
    BY <1>2, CopiesAre
  <2> QED BY <2>1
<1>3. ASSUME NEW r \in rows, r.msg = m PROVE Copies(m) # {}
  <2>1. <<"row", r.id>> \in Copies(m)
    BY <1>3, CopiesAre
  <2> QED BY <2>1
<1>4. ASSUME NEW s \in Session, NEW r \in batch[s], r.msg = m PROVE Copies(m) # {}
  <2>1. <<"batch", s, r.id>> \in Copies(m)
    BY <1>4, CopiesAre
  <2> QED BY <2>1
<1>5. ASSUME NEW s \in Session, NEW i \in 1..Len(inbox[s]), inbox[s][i].msg = m PROVE Copies(m) # {}
  <2>1. <<"inbox", s, i>> \in Copies(m)
    BY <1>5, CopiesAre
  <2> QED BY <2>1
<1>6. Somewhere(m) \/ m \in dropped
  BY DEF Base, Accounted
<1> QED BY <1>1, <1>2, <1>3, <1>4, <1>5, <1>6 DEF Somewhere

-----------------------------------------------------------------------------
(* What keeps Base. *)
LEMMA BaseFrame ==
  ASSUME Base, UNCHANGED <<rows, lastId, inbox, sent, handler, dropped, batch>>,
         \A s \in Session : phase'[s] = phase[s] \/ batch[s] = {}
  PROVE  Base'
<1>1. Known' /\ Phases'
  BY DEF Base, Known, Phases, Holds, Old
<1>2. HandlerAlone'
  BY DEF Base, HandlerAlone, Holds
<1>3. Accounted'
  BY DEF Base, Accounted, Somewhere, Holds, Old
<1> QED BY <1>1, <1>2, <1>3 DEF Base

LEMMA FindSessionBase ==
  ASSUME TypeOK, Base, NEW p \in Sender, NEW u \in User, FindSession(p, u)
  PROVE  Base'
<1> DEFINE new == <<p, sent[p] + 1>>
<1>1. /\ ~Holds(p) /\ handler'[p].msg = new /\ sent'[p] = sent[p] + 1
      /\ \A q \in Sender : q # p => handler'[q] = handler[q] /\ sent'[q] = sent[q]
      /\ rows' = rows /\ lastId' = lastId /\ batch' = batch /\ inbox' = inbox
      /\ phase' = phase /\ dropped' = dropped
  BY DEF FindSession, TypeOK, Holds, store, receivers
<1>2. new \in Message /\ sent[p] \in Int
  BY DeliveryAssumption DEF FindSession, TypeOK, Message
<1>3. \A m \in Message : Old(m) => Old(m)' /\ m # new
  <2> SUFFICES ASSUME NEW m \in Message, Old(m) PROVE Old(m)' /\ m # new
    OBVIOUS
  <2>1. m[1] \in Sender /\ m[2] \in Int /\ sent[m[1]] \in Int
    BY MessageParts DEF TypeOK
  <2>2. new[1] = p /\ new[2] = sent[p] + 1
    OBVIOUS
  <2>3. sent'[m[1]] = sent[m[1]] \/ sent'[m[1]] = sent[m[1]] + 1
    BY <1>1, <2>1
  <2>4. m[1] = p => m[2] <= sent[p]
    BY DEF Old
  <2>5. m # new
    BY <1>2, <2>2, <2>4
  <2> QED BY <2>1, <2>3, <2>5 DEF Old
<1>4. \A m \in Message : Old(m)' => Old(m) \/ m = new
  <2> SUFFICES ASSUME NEW m \in Message, Old(m)', ~Old(m) PROVE m = new
    OBVIOUS
  <2>1. m[1] \in Sender /\ m[2] \in Int /\ m = <<m[1], m[2]>> /\ sent[m[1]] \in Int
    BY MessageParts DEF TypeOK
  <2>2. m[1] = p
    BY <1>1, <2>1 DEF Old
  <2>3. m[2] = sent[p] + 1
    BY <1>1, <2>1, <2>2 DEF Old
  <2> QED BY <2>1, <2>2, <2>3
<1>5. /\ \A r \in rows : r.msg \in Message
      /\ \A s \in Session : \A r \in batch[s] : r.msg \in Message
      /\ \A s \in Session : \A i \in 1..Len(inbox[s]) : inbox[s][i].msg \in Message
  <2>1. \A s \in Session : inbox[s] \in Seq(Receipt)
    BY DEF TypeOK
  <2>2. \A s \in Session : \A i \in 1..Len(inbox[s]) : inbox[s][i] \in Receipt
    BY <2>1
  <2> QED BY <2>2 DEF TypeOK, Row, Receipt
<1> HIDE DEF new
<1>6. Known'
  <2>1. \A q \in Sender : Holds(q)' => handler'[q].msg = <<q, sent'[q]>>
    BY <1>1 DEF Base, Known, Holds, new
  <2> QED BY <1>1, <1>3, <1>5, <2>1 DEF Base, Known
<1>7. HandlerAlone'
  <2>1. \A q \in Sender : q # p => (Holds(q)' => Holds(q))
    BY <1>1 DEF Holds
  <2> QED BY <1>1, <1>3, <1>5, <2>1 DEF Base, Known, HandlerAlone
<1>8. Phases'
  BY <1>1 DEF Base, Phases
<1>9. Accounted'
  <2> SUFFICES ASSUME NEW m \in Message, Old(m)' PROVE Somewhere(m)' \/ m \in dropped'
    BY DEF Accounted
  <2>1. CASE m = new
    <3>1. Holds(p)'
      BY DeliveryAssumption DEF FindSession, TypeOK, Holds, Idle
    <3> QED BY <1>1, <2>1, <3>1 DEF Somewhere
  <2>2. CASE Old(m)
    <3>1. Somewhere(m) \/ m \in dropped
      BY <2>2 DEF Base, Accounted
    <3>2. \A q \in Sender : Holds(q) => q # p /\ Holds(q)' /\ handler'[q] = handler[q]
      BY <1>1 DEF Holds
    <3> QED BY <1>1, <3>1, <3>2 DEF Somewhere
  <2> QED BY <1>4, <2>1, <2>2
<1> QED BY <1>6, <1>7, <1>8, <1>9 DEF Base

(* A message moves to the inbox of s, or is sent in vain. *)
LEMMA InboxGrows ==
  ASSUME TypeOK, NEW s \in Session, NEW m \in Message, NEW stored \in BOOLEAN,
         SendTo(s, m, stored)
  PROVE  /\ \A t \in Session : \A i \in 1..Len(inbox'[t]) :
               \/ inbox'[t][i].msg = m
               \/ i \in 1..Len(inbox[t]) /\ inbox'[t][i] = inbox[t][i]
         /\ \A t, v \in Session : \A i \in 1..Len(inbox'[t]), j \in 1..Len(inbox'[v]) :
               \/ i \in 1..Len(inbox[t]) \/ j \in 1..Len(inbox[v])
               \/ t = v /\ i = j
         /\ \A t \in Session : \A i \in 1..Len(inbox[t]) :
               i \in 1..Len(inbox'[t]) /\ inbox'[t][i] = inbox[t][i]
         /\ \/ m \in dropped'
            \/ \E i \in 1..Len(inbox'[s]) : inbox'[s][i].msg = m
         /\ dropped \subseteq dropped'
<1>1. \A t \in Session : Len(inbox[t]) \in Nat
  BY DEF TypeOK
<1>a. \A t \in Session : t # s => inbox'[t] = inbox[t]
  BY SendToInbox
<1>b. ASSUME s \in alive
      PROVE  /\ Len(inbox'[s]) = Len(inbox[s]) + 1
             /\ \A i \in 1..Len(inbox[s]) : inbox'[s][i] = inbox[s][i]
             /\ inbox'[s][Len(inbox[s]) + 1].msg = m
             /\ dropped' = dropped
  <2>1. /\ Len(inbox'[s]) = Len(inbox[s]) + 1
        /\ \A i \in 1..Len(inbox[s]) : inbox'[s][i] = inbox[s][i]
        /\ dropped' = dropped
    BY <1>b, SendToInbox
  <2>2. inbox'[s][Len(inbox[s]) + 1] = [msg |-> m, stored |-> stored]
    BY <1>b, SendToInbox
  <2> QED BY <2>1, <2>2
<1>c. ASSUME s \notin alive
      PROVE  inbox' = inbox /\ dropped' = dropped \cup {m}
  BY <1>c, SendToInbox
<1>2. \A t \in Session : \A i \in 1..Len(inbox'[t]) :
         \/ i \in 1..Len(inbox[t]) /\ inbox'[t][i] = inbox[t][i]
         \/ t = s /\ i = Len(inbox[s]) + 1 /\ inbox'[t][i].msg = m
  BY <1>1, <1>a, <1>b, <1>c
<1>3. \A t \in Session : \A i \in 1..Len(inbox[t]) :
         i \in 1..Len(inbox'[t]) /\ inbox'[t][i] = inbox[t][i]
  BY <1>1, <1>a, <1>b, <1>c
<1>4. m \in dropped' \/ \E i \in 1..Len(inbox'[s]) : inbox'[s][i].msg = m
  <2>1. CASE s \in alive
    <3>1. Len(inbox[s]) + 1 \in 1..Len(inbox'[s]) /\ inbox'[s][Len(inbox[s]) + 1].msg = m
      BY <1>1, <2>1, <1>a, <1>b, <1>c
    <3> QED BY <3>1
  <2>2. CASE s \notin alive
    BY <2>2, <1>a, <1>b, <1>c
  <2> QED BY <2>1, <2>2
<1>5. dropped \subseteq dropped'
  BY <1>a, <1>b, <1>c
<1>6. \A t, v \in Session : \A i \in 1..Len(inbox'[t]), j \in 1..Len(inbox'[v]) :
         i \in 1..Len(inbox[t]) \/ j \in 1..Len(inbox[v]) \/ (t = v /\ i = j)
  BY <1>2
<1> QED BY <1>2, <1>3, <1>4, <1>5, <1>6

LEMMA RouteBase ==
  ASSUME TypeOK, Base, NEW p \in Sender, Route(p)
  PROVE  Base'
<1> DEFINE m == handler[p].msg
<1>1. /\ Holds(p) /\ ~Holds(p)'
      /\ \A q \in Sender : q # p => handler'[q] = handler[q] /\ (Holds(q)' <=> Holds(q))
      /\ rows' = rows /\ lastId' = lastId /\ batch' = batch /\ sent' = sent /\ phase' = phase
      /\ SendTo(handler[p].session, m, FALSE)
  BY DEF Route, TypeOK, Holds, store, receivers
<1>2. m \in Message /\ handler[p].session \in Session /\ m = <<p, sent[p]>> /\ Old(m)
  <2>1. m \in Message /\ handler[p].session \in Session
    BY <1>1, HandlerParts DEF Route
  <2>2. m = <<p, sent[p]>> /\ sent[p] \in Int
    BY <1>1 DEF Base, Known, TypeOK
  <2>3. Old(m)
    BY <2>2 DEF Old
  <2> QED BY <2>1, <2>2, <2>3
<1>3. /\ \A r \in rows : r.msg # m
      /\ \A s \in Session : \A r \in batch[s] : r.msg # m
      /\ \A s \in Session : \A i \in 1..Len(inbox[s]) : inbox[s][i].msg # m
      /\ \A q \in Sender : q # p /\ Holds(q) => handler[q].msg # m
  <2>1. /\ \A r \in rows : r.msg # m
        /\ \A s \in Session : \A r \in batch[s] : r.msg # m
        /\ \A s \in Session : \A i \in 1..Len(inbox[s]) : inbox[s][i].msg # m
    BY <1>1 DEF Base, HandlerAlone
  <2>2. \A q \in Sender : q # p /\ Holds(q) => handler[q].msg # m
    BY <1>1, <1>2 DEF Base, Known
  <2> QED BY <2>1, <2>2
<1> HIDE DEF m
<1>4. /\ \A t \in Session : \A i \in 1..Len(inbox'[t]) :
            \/ inbox'[t][i].msg = m
            \/ i \in 1..Len(inbox[t]) /\ inbox'[t][i] = inbox[t][i]
      /\ \A t \in Session : \A i \in 1..Len(inbox[t]) :
            i \in 1..Len(inbox'[t]) /\ inbox'[t][i] = inbox[t][i]
      /\ \/ m \in dropped'
         \/ \E i \in 1..Len(inbox'[handler[p].session]) : inbox'[handler[p].session][i].msg = m
      /\ dropped \subseteq dropped'
  BY <1>1, <1>2, InboxGrows
<1>5. Known' /\ Phases'
  <2>1. \A q \in Sender : Holds(q)' => handler'[q].msg = <<q, sent'[q]>>
    BY <1>1 DEF Base, Known
  <2>2. \A t \in Session : \A i \in 1..Len(inbox'[t]) : Old(inbox[t][i].msg)'
    <3> SUFFICES ASSUME NEW t \in Session, NEW i \in 1..Len(inbox'[t]) PROVE Old(inbox[t][i].msg)'
      OBVIOUS
    <3>1. sent' = sent
      BY <1>1
    <3>2. CASE inbox'[t][i].msg = m
      BY <1>2, <3>1, <3>2 DEF Old
    <3>3. CASE i \in 1..Len(inbox[t]) /\ inbox'[t][i] = inbox[t][i]
      BY <3>1, <3>3 DEF Base, Known, Old
    <3> QED BY <1>4, <3>2, <3>3
  <2> QED BY <1>1, <2>1, <2>2 DEF Base, Known, Phases, Old
<1>6. HandlerAlone'
  BY <1>1, <1>3, <1>4 DEF Base, HandlerAlone
<1>7. Accounted'
  <2> SUFFICES ASSUME NEW n \in Message, Old(n)' PROVE Somewhere(n)' \/ n \in dropped'
    BY DEF Accounted
  <2>1. Somewhere(n) \/ n \in dropped
    BY <1>1 DEF Base, Accounted, Old
  <2>2. CASE n = m
    BY <1>2, <1>4, <2>2 DEF Somewhere
  <2>3. CASE n # m
    BY <1>1, <1>4, <2>1, <2>3 DEF Somewhere, m
  <2> QED BY <2>2, <2>3
<1> QED BY <1>5, <1>6, <1>7 DEF Base

LEMMA SaveBase ==
  ASSUME TypeOK, Base, NEW p \in Sender, NEW a \in BOOLEAN, NEW b \in BOOLEAN, NEW c \in BOOLEAN,
         Save(p, a, b, c)
  PROVE  Base'
<1> DEFINE m    == handler[p].msg
           gone == IF b /\ Cardinality(rows) >= MaxTotal THEN Oldest(rows) ELSE {}
           row  == [id |-> lastId + 1, to |-> handler[p].to, msg |-> m, expires |-> now + Ttl]
<1>1. /\ Holds(p) /\ ~Holds(p)'
      /\ \A q \in Sender : q # p => handler'[q] = handler[q] /\ (Holds(q)' <=> Holds(q))
      /\ batch' = batch /\ sent' = sent /\ phase' = phase /\ inbox' = inbox
      /\ OfflineSave(handler[p].to, m, a, b, c)
  BY DEF Save, TypeOK, Holds, receivers
<1>2. \/ rows' = rows /\ lastId' = lastId /\ dropped' = dropped \cup {m}
      \/ rows' = (rows \ gone) \cup {row} /\ lastId' = lastId + 1 /\ dropped' = dropped \cup Messages(gone)
      \/ rows' = rows \ gone /\ lastId' = lastId /\ dropped' = dropped \cup Messages(gone) \cup {m}
  BY <1>1 DEF OfflineSave, store
<1>3. m = <<p, sent[p]>> /\ sent[p] \in Int /\ Old(m)
  <2>1. m = <<p, sent[p]>> /\ sent[p] \in Int
    BY <1>1 DEF Base, Known, TypeOK
  <2> QED BY <2>1 DEF Old
<1>4. /\ \A r \in rows : r.msg # m
      /\ \A s \in Session : \A r \in batch[s] : r.msg # m
      /\ \A s \in Session : \A i \in 1..Len(inbox[s]) : inbox[s][i].msg # m
      /\ \A q \in Sender : q # p /\ Holds(q) => handler[q].msg # m
  BY <1>1, <1>3 DEF Base, Known, HandlerAlone
<1>5. row.msg = m /\ row.id = lastId + 1 /\ lastId \in Int /\ \A r \in rows : r.id \in Int
  BY DEF TypeOK, Row
<1> HIDE DEF m, gone, row
<1>6. lastId' \in Int /\ lastId' >= lastId /\ \A r \in rows' : r \in rows \/ (r = row /\ lastId' = lastId + 1)
  BY <1>2, <1>5
<1>7. Known' /\ Phases'
  <2>1. \A r \in rows' : Old(r.msg)' /\ r.id <= lastId'
    <3> SUFFICES ASSUME NEW r \in rows' PROVE Old(r.msg)' /\ r.id <= lastId'
      OBVIOUS
    <3>1. CASE r \in rows
      <4>1. Old(r.msg) /\ r.id <= lastId
        BY <3>1 DEF Base, Known
      <4> QED BY <1>1, <1>5, <1>6, <3>1, <4>1 DEF Old
    <3>2. CASE r = row /\ lastId' = lastId + 1
      BY <1>1, <1>3, <1>5, <3>2 DEF Old
    <3> QED BY <1>6, <3>1, <3>2
  <2> QED BY <1>1, <2>1 DEF Base, Known, Phases, Old
<1>8. HandlerAlone'
  BY <1>1, <1>4, <1>5, <1>6 DEF Base, HandlerAlone
<1>9. Accounted'
  <2> SUFFICES ASSUME NEW n \in Message, Old(n)' PROVE Somewhere(n)' \/ n \in dropped'
    BY DEF Accounted
  <2>1. Somewhere(n) \/ n \in dropped
    BY <1>1 DEF Base, Accounted, Old
  <2>2. CASE n = m
    BY <1>2, <1>5, <2>2 DEF Somewhere
  <2>3. ASSUME n # m, NEW r \in rows, r.msg = n PROVE Somewhere(n)' \/ n \in dropped'
    <3>1. r \in gone => n \in Messages(gone)
      BY <2>3 DEF Messages
    <3> QED BY <1>2, <2>3, <3>1 DEF Somewhere
  <2>4. CASE n # m /\ \A r \in rows : r.msg # n
    BY <1>1, <1>2, <2>1, <2>4 DEF Somewhere, m
  <2> QED BY <2>2, <2>3, <2>4
<1> QED BY <1>7, <1>8, <1>9 DEF Base

(* Rows are removed from the store, some are read into the empty batch of  *)
(* s; those that are neither read nor left were given up.                  *)
LEMMA RemoveBase ==
  ASSUME TypeOK, Base, NEW R \in SUBSET rows, NEW s, NEW read \in SUBSET rows,
         rows' = rows \ R, lastId' = lastId, handler' = handler, inbox' = inbox, sent' = sent,
         \/ batch' = batch /\ read = {}
         \/ s \in Session /\ batch[s] = {} /\ batch' = [batch EXCEPT ![s] = read],
         Phases',
         dropped' = dropped \cup Messages(R \ read)
  PROVE  Base'
<1>1. \A t \in Session : \A r \in batch'[t] : r \in batch[t] \/ r \in rows
  BY DEF TypeOK
<1>2. Known'
  BY <1>1 DEF Base, Known, Old, Holds
<1>3. HandlerAlone'
  BY <1>1 DEF Base, HandlerAlone, Holds
<1>4. Accounted'
  <2> SUFFICES ASSUME NEW n \in Message, Old(n)' PROVE Somewhere(n)' \/ n \in dropped'
    BY DEF Accounted
  <2>1. Somewhere(n) \/ n \in dropped
    BY DEF Base, Accounted, Old
  <2>2. ASSUME NEW r \in rows, r.msg = n PROVE Somewhere(n)' \/ n \in dropped'
    <3>1. CASE r \notin R
      BY <2>2, <3>1 DEF Somewhere
    <3>2. CASE r \in R /\ r \notin read
      BY <2>2, <3>2 DEF Messages
    <3>3. CASE r \in read
      BY <2>2, <3>3 DEF Somewhere, TypeOK
    <3> QED BY <3>1, <3>2, <3>3
  <2>3. CASE \A r \in rows : r.msg # n
    <3>1. \A t \in Session : batch[t] \subseteq batch'[t]
      BY DEF TypeOK
    <3> QED BY <2>1, <2>3, <3>1 DEF Somewhere, Holds
  <2> QED BY <2>2, <2>3
<1> QED BY <1>2, <1>3, <1>4 DEF Base

(* What fetch_and_delete does to the store and the batch.                  *)
LEMMA FetchRemoves ==
  ASSUME TypeOK, Base, NEW s \in Session, NEW delete \in BOOLEAN, FetchAndDelete(s, delete)
  PROVE  \E R, read \in SUBSET rows :
            /\ rows' = rows \ R /\ lastId' = lastId /\ handler' = handler
            /\ inbox' = inbox /\ sent' = sent
            /\ batch[s] = {} /\ batch' = [batch EXCEPT ![s] = read] /\ Phases'
            /\ dropped' = dropped \cup Messages(R \ read)
            /\ ~Faults => read \subseteq R
<1> DEFINE R    == RowsOf(user[s])
           live == R \ Expired(R)
<1>1. PICK read \in SUBSET live :
         (delete => read = live) /\ batch' = [batch EXCEPT ![s] = read]
  BY DEF FetchAndDelete
<1>2. /\ phase[s] = "entered" /\ phase' = [phase EXCEPT ![s] = "fetched"]
      /\ lastId' = lastId /\ handler' = handler /\ inbox' = inbox /\ sent' = sent
      /\ Faults \/ delete
      /\ rows' = IF delete THEN rows \ R ELSE rows
      /\ dropped' = IF delete THEN dropped \cup Messages(Expired(R)) ELSE dropped
  BY DEF FetchAndDelete, senders
<1>3. batch[s] = {}
  BY <1>2 DEF Base, Phases
<1>4. Phases'
  BY <1>1, <1>2 DEF Base, Phases, TypeOK
<1>5. R \in SUBSET rows /\ live \in SUBSET R /\ R \ live = Expired(R)
  BY DEF RowsOf, Expired
<1> HIDE DEF R, live
<1>6. CASE delete
  BY <1>1, <1>2, <1>3, <1>4, <1>5, <1>6
<1>7. CASE ~delete
  <2>1. read \in SUBSET rows /\ rows' = rows \ {} /\ Messages({} \ read) = {}
    BY <1>1, <1>2, <1>5, <1>7 DEF Messages
  <2>2. dropped' = dropped \cup Messages({} \ read)
    BY <1>2, <1>7, <2>1
  <2> QED BY <1>1, <1>2, <1>3, <1>4, <1>7, <2>1, <2>2
<1> QED BY <1>6, <1>7

LEMMA CleanupRemoves ==
  ASSUME TypeOK, Base, CleanupExpired
  PROVE  /\ Expired(rows) \in SUBSET rows /\ rows' = rows \ Expired(rows)
         /\ lastId' = lastId /\ handler' = handler /\ inbox' = inbox /\ sent' = sent
         /\ batch' = batch /\ Phases' /\ dropped' = dropped \cup Messages(Expired(rows) \ {})
<1>1. /\ rows' = rows \ Expired(rows) /\ dropped' = dropped \cup Messages(Expired(rows) \ {})
      /\ lastId' = lastId /\ handler' = handler /\ inbox' = inbox /\ sent' = sent /\ batch' = batch
      /\ phase' = phase
  BY DEF CleanupExpired, receivers, senders
<1>2. Expired(rows) \in SUBSET rows
  BY DEF Expired
<1>3. Phases'
  BY <1>1 DEF Base, Phases
<1> QED BY <1>1, <1>2, <1>3

(* One round of the loop over the fetched rows takes one of them out of    *)
(* the batch and sends its message.                                        *)
LEMMA SendStoredMoves ==
  ASSUME TypeOK, NEW s \in Session, SendStored(s)
  PROVE  \E r \in batch[s] :
            /\ batch' = [batch EXCEPT ![s] = @ \ {r}] /\ r.msg \in Message
            /\ SendTo(s, r.msg, TRUE)
            /\ UNCHANGED <<rows, lastId, sent, phase, handler>>
<1>1. PICK r \in batch[s] : batch' = [batch EXCEPT ![s] = @ \ {r}] /\ SendTo(s, r.msg, TRUE)
  BY DEF SendStored, Oldest
<1>2. UNCHANGED <<rows, lastId, sent, phase, handler>>
  BY DEF SendStored, store, receivers, senders
<1>3. r.msg \in Message
  BY DEF TypeOK, Row
<1> QED BY <1>1, <1>2, <1>3

LEMMA SendStoredBase ==
  ASSUME TypeOK, Base, NEW s \in Session, SendStored(s)
  PROVE  Base'
<1>1. PICK r \in batch[s] :
         /\ batch' = [batch EXCEPT ![s] = @ \ {r}] /\ r.msg \in Message
         /\ SendTo(s, r.msg, TRUE)
         /\ UNCHANGED <<rows, lastId, sent, phase, handler>>
  BY SendStoredMoves
<1> DEFINE m == r.msg
<1>2. m \in Message /\ Old(m) /\ \A q \in Sender : Holds(q) => handler[q].msg # m
  BY <1>1 DEF Base, Known, HandlerAlone
<1>3. /\ \A t \in Session : \A q \in batch'[t] : q \in batch[t]
      /\ \A t \in Session : \A q \in batch[t] : q \in batch'[t] \/ q.msg = m
  BY <1>1 DEF TypeOK
<1> HIDE DEF m
<1>4. /\ \A t \in Session : \A i \in 1..Len(inbox'[t]) :
            \/ inbox'[t][i].msg = m
            \/ i \in 1..Len(inbox[t]) /\ inbox'[t][i] = inbox[t][i]
      /\ \A t \in Session : \A i \in 1..Len(inbox[t]) :
            i \in 1..Len(inbox'[t]) /\ inbox'[t][i] = inbox[t][i]
      /\ \/ m \in dropped'
         \/ \E i \in 1..Len(inbox'[s]) : inbox'[s][i].msg = m
      /\ dropped \subseteq dropped'
  <2>1. SendTo(s, m, TRUE)
    BY <1>1 DEF m
  <2> QED BY <1>2, <2>1, InboxGrows
<1>5. Known' /\ Phases'
  <2>1. \A t \in Session : \A i \in 1..Len(inbox'[t]) : Old(inbox[t][i].msg)'
    <3> SUFFICES ASSUME NEW t \in Session, NEW i \in 1..Len(inbox'[t]) PROVE Old(inbox[t][i].msg)'
      OBVIOUS
    <3>1. CASE inbox'[t][i].msg = m
      BY <1>1, <1>2, <3>1 DEF Old
    <3>2. CASE i \in 1..Len(inbox[t]) /\ inbox'[t][i] = inbox[t][i]
      BY <1>1, <3>2 DEF Base, Known, Old
    <3> QED BY <1>4, <3>1, <3>2
  <2>2. \A t \in Session : \A q \in batch'[t] : Old(q.msg)'
    BY <1>1, <1>3 DEF Base, Known, Old
  <2>3. Phases'
    BY <1>1, <1>3 DEF Base, Phases
  <2> QED BY <1>1, <2>1, <2>2, <2>3 DEF Base, Known, Old, Holds
<1>6. HandlerAlone'
  BY <1>1, <1>2, <1>3, <1>4 DEF Base, HandlerAlone, Holds
<1>7. Accounted'
  <2> SUFFICES ASSUME NEW n \in Message, Old(n)' PROVE Somewhere(n)' \/ n \in dropped'
    BY DEF Accounted
  <2>1. Somewhere(n) \/ n \in dropped
    BY <1>1 DEF Base, Accounted, Old
  <2>2. CASE n = m
    BY <1>4, <2>2 DEF Somewhere
  <2>3. CASE n # m
    BY <1>1, <1>3, <1>4, <2>1, <2>3 DEF Somewhere, Holds
  <2> QED BY <2>2, <2>3
<1> QED BY <1>5, <1>6, <1>7 DEF Base

LEMMA RestartBase ==
  ASSUME TypeOK, Base, Restart
  PROVE  Base'
<1>1. /\ rows' = rows /\ lastId' = lastId /\ inbox' = inbox /\ sent' = sent
      /\ batch' = [s \in Session |-> {}]
      /\ dropped \subseteq dropped'
      /\ \A p \in Sender : ~Holds(p)'
  BY DEF Restart, store, Holds
<1>2. \A p \in Sender : Holds(p) => handler[p].msg \in dropped'
  BY DEF Restart, Holds
<1>3. \A s \in Session : \A r \in batch[s] : r.msg \in dropped'
  <2>1. \A s \in Session : \A r \in batch[s] : r \in UNION {batch[t] : t \in Session}
    OBVIOUS
  <2>2. \A r \in UNION {batch[t] : t \in Session} : r.msg \in Messages(UNION {batch[t] : t \in Session})
    BY DEF Messages
  <2> QED BY <2>1, <2>2 DEF Restart
<1>4. Known' /\ Phases' /\ HandlerAlone'
  BY <1>1 DEF Base, Known, Phases, Old, HandlerAlone
<1>5. Accounted'
  BY <1>1, <1>2, <1>3 DEF Base, Accounted, Somewhere, Old
<1> QED BY <1>4, <1>5 DEF Base

LEMMA BaseStep == TypeOK /\ Base /\ [Next]_vars => Base'
<1> SUFFICES ASSUME TypeOK, Base, [Next]_vars PROVE Base'
  OBVIOUS
<1>1. ASSUME NEW p \in Sender, Send(p) PROVE Base'
  BY <1>1, FindSessionBase, RouteBase, SaveBase DEF Send
<1>2. ASSUME NEW s \in Session, NEW delete \in BOOLEAN, FetchAndDelete(s, delete) PROVE Base'
  BY <1>2, FetchRemoves, RemoveBase
<1>3. ASSUME NEW s \in Session, SendStored(s) PROVE Base'
  BY <1>3, SendStoredBase
<1>4. ASSUME NEW s \in Session,
             (\E u \in User : CheckNickname(s, u)) \/ EnterRegistry(s) \/ Leave(s) \/ ConnectionBreaks(s)
      PROVE Base'
  <2>1. UNCHANGED <<rows, lastId, inbox, sent, handler, dropped, batch>>
    BY <1>4 DEF CheckNickname, EnterRegistry, Leave, ConnectionBreaks, store, receivers, senders
  <2>2. \A t \in Session : phase'[t] = phase[t] \/ batch[t] = {}
    BY <1>4 DEF CheckNickname, EnterRegistry, Leave, ConnectionBreaks, receivers, Base, Phases, TypeOK
  <2> QED BY <2>1, <2>2, BaseFrame
<1>5. CASE Tick \/ UNCHANGED vars
  <2>1. UNCHANGED <<rows, lastId, inbox, sent, handler, dropped, batch, phase>>
    BY <1>5 DEF Tick, vars, store, receivers, senders
  <2> QED BY <2>1, BaseFrame
<1>6. CASE CleanupExpired
  <2>1. {} \in SUBSET rows
    OBVIOUS
  <2> QED BY <1>6, <2>1, CleanupRemoves, RemoveBase
<1>7. CASE Restart
  BY <1>7, RestartBase
<1> QED BY <1>1, <1>2, <1>3, <1>4, <1>5, <1>6, <1>7 DEF Next, Receive

(* A message that is nowhere else any more is sent. *)
LEMMA SentOnce ==
  ASSUME TypeOK, Once, NEW s \in Session, NEW m \in Message, NEW stored \in BOOLEAN,
         SendTo(s, m, stored), rows' = rows,
         \A t \in Session : \A r \in batch'[t] : r \in batch[t] /\ r.msg # m,
         \A r \in rows : r.msg # m,
         \A t \in Session : \A i \in 1..Len(inbox[t]) : inbox[t][i].msg # m
  PROVE  Once'
<1>1. /\ \A t \in Session : \A i \in 1..Len(inbox'[t]) :
            \/ inbox'[t][i].msg = m
            \/ i \in 1..Len(inbox[t]) /\ inbox'[t][i] = inbox[t][i]
      /\ \A t, v \in Session : \A i \in 1..Len(inbox'[t]), j \in 1..Len(inbox'[v]) :
            i \in 1..Len(inbox[t]) \/ j \in 1..Len(inbox[v]) \/ (t = v /\ i = j)
      /\ \A t \in Session : \A i \in 1..Len(inbox[t]) :
            i \in 1..Len(inbox'[t]) /\ inbox'[t][i] = inbox[t][i]
  BY InboxGrows
<1>2. InboxAlone'
  <2> SUFFICES ASSUME NEW t \in Session, NEW v \in Session,
                      NEW i \in 1..Len(inbox'[t]), NEW j \in 1..Len(inbox'[v]),
                      inbox'[t][i].msg = inbox'[v][j].msg
               PROVE  t = v /\ i = j
    BY DEF InboxAlone
  <2>1. CASE i \in 1..Len(inbox[t])
    <3>1. j \in 1..Len(inbox[v]) /\ inbox'[v][j] = inbox[v][j] /\ inbox'[t][i] = inbox[t][i]
      BY <1>1, <2>1
    <3> QED BY <2>1, <3>1 DEF Once, InboxAlone
  <2>2. CASE j \in 1..Len(inbox[v])
    <3>1. i \in 1..Len(inbox[t]) /\ inbox'[v][j] = inbox[v][j] /\ inbox'[t][i] = inbox[t][i]
      BY <1>1, <2>2
    <3> QED BY <2>2, <3>1 DEF Once, InboxAlone
  <2> QED BY <1>1, <2>1, <2>2
<1>3. RowAlone' /\ BatchAlone'
  BY <1>1 DEF Once, RowAlone, BatchAlone
<1> QED BY <1>2, <1>3 DEF Once

(* What keeps Once while statements do not fail.                           *)
LEMMA OnceStep ==
  ASSUME ~Faults
  PROVE  TypeOK /\ Base /\ Once /\ [Next]_vars => Once'
<1> SUFFICES ASSUME TypeOK, Base, Once, [Next]_vars PROVE Once'
  OBVIOUS
<1>1. ASSUME UNCHANGED <<rows, batch, inbox>> PROVE Once'
  BY <1>1 DEF Once, RowAlone, BatchAlone, InboxAlone
<1>2. ASSUME NEW p \in Sender, Route(p) PROVE Once'
  <2> DEFINE m == handler[p].msg
  <2>1. /\ Holds(p) /\ rows' = rows /\ batch' = batch /\ SendTo(handler[p].session, m, FALSE)
        /\ handler[p].session # None
    BY <1>2 DEF Route, Holds, store, receivers
  <2>2. m \in Message /\ handler[p].session \in Session
    BY <2>1, HandlerParts
  <2>3. /\ \A r \in rows : r.msg # m
        /\ \A s \in Session : \A r \in batch[s] : r.msg # m
        /\ \A s \in Session : \A i \in 1..Len(inbox[s]) : inbox[s][i].msg # m
    BY <2>1 DEF Base, HandlerAlone
  <2> HIDE DEF m
  <2> QED BY <2>1, <2>2, <2>3, SentOnce
<1>3. ASSUME NEW p \in Sender, NEW a \in BOOLEAN, NEW b \in BOOLEAN, NEW c \in BOOLEAN,
             Save(p, a, b, c)
      PROVE Once'
  <2> DEFINE m   == handler[p].msg
             row == [id |-> lastId + 1, to |-> handler[p].to, msg |-> m, expires |-> now + Ttl]
  <2>1. Holds(p) /\ batch' = batch /\ inbox' = inbox /\ rows' \subseteq rows \cup {row}
    BY <1>3 DEF Save, OfflineSave, Holds, receivers, store
  <2>2. /\ row.msg = m
        /\ \A r \in rows : r.msg # m
        /\ \A s \in Session : \A r \in batch[s] : r.msg # m
        /\ \A s \in Session : \A i \in 1..Len(inbox[s]) : inbox[s][i].msg # m
    BY <2>1 DEF Base, HandlerAlone
  <2> HIDE DEF m, row
  <2>3. RowAlone'
    BY <2>1, <2>2 DEF Once, RowAlone
  <2> QED BY <2>1, <2>3 DEF Once, BatchAlone, InboxAlone
<1>4. ASSUME NEW s \in Session, NEW delete \in BOOLEAN, FetchAndDelete(s, delete) PROVE Once'
  <2>1. PICK R, read \in SUBSET rows :
           /\ rows' = rows \ R /\ inbox' = inbox /\ read \subseteq R
           /\ batch[s] = {} /\ batch' = [batch EXCEPT ![s] = read]
    BY <1>4, FetchRemoves
  <2>2. \A t \in Session : \A r \in batch'[t] : r \in batch[t] \/ (t = s /\ r \in read)
    BY <2>1 DEF TypeOK
  <2>3. RowAlone' /\ InboxAlone'
    BY <2>1, <2>2 DEF Once, RowAlone, InboxAlone
  <2>4. BatchAlone'
    BY <2>1, <2>2 DEF Once, RowAlone, BatchAlone
  <2> QED BY <2>3, <2>4 DEF Once
<1>5. ASSUME NEW s \in Session, SendStored(s) PROVE Once'
  <2>1. PICK r \in batch[s] :
           /\ batch' = [batch EXCEPT ![s] = @ \ {r}] /\ r.msg \in Message
           /\ SendTo(s, r.msg, TRUE) /\ rows' = rows
    BY <1>5, SendStoredMoves
  <2>2. /\ \A q \in rows : q.msg # r.msg
        /\ \A t \in Session : \A q \in batch'[t] : q \in batch[t] /\ q.msg # r.msg
        /\ \A t \in Session : \A i \in 1..Len(inbox[t]) : inbox[t][i].msg # r.msg
    BY <2>1 DEF Once, RowAlone, BatchAlone, TypeOK
  <2> QED BY <2>1, <2>2, SentOnce
<1>6. CASE CleanupExpired
  BY <1>6 DEF CleanupExpired, receivers, senders, Once, RowAlone, BatchAlone, InboxAlone
<1>7. CASE Restart
  BY <1>7 DEF Restart, store, Once, RowAlone, BatchAlone, InboxAlone
<1>8. ASSUME NEW p \in Sender, NEW u \in User, FindSession(p, u) PROVE Once'
  BY <1>1, <1>8 DEF FindSession, store, receivers
<1>9. ASSUME NEW s \in Session,
             (\E u \in User : CheckNickname(s, u)) \/ EnterRegistry(s) \/ Leave(s) \/ ConnectionBreaks(s)
      PROVE Once'
  BY <1>1, <1>9 DEF CheckNickname, EnterRegistry, Leave, ConnectionBreaks, store, receivers, senders
<1>10. CASE Tick \/ UNCHANGED vars
  BY <1>1, <1>10 DEF Tick, vars, store, receivers, senders
<1> QED BY <1>2, <1>3, <1>4, <1>5, <1>6, <1>7, <1>8, <1>9, <1>10 DEF Next, Send, Receive

LEMMA InitBase == Init => Base /\ Once
<1> SUFFICES ASSUME Init PROVE Base /\ Once
  OBVIOUS
<1>1. \A s \in Session : Len(inbox[s]) = 0
  BY DEF Init
<1>2. Known /\ Phases /\ HandlerAlone /\ Once
  BY <1>1 DEF Init, Known, Phases, Holds, HandlerAlone, Once, RowAlone, BatchAlone, InboxAlone
<1>3. \A m \in Message : ~Old(m)
  BY MessageParts DEF Init, Old
<1> QED BY <1>2, <1>3 DEF Base, Accounted

-----------------------------------------------------------------------------
(* The order of messages.  Ids of rows grow with the numbers of a sender's *)
(* messages, and a batch is sent by id.                                    *)
GrowingRows(R) ==
    \A q, r \in R :
        /\ q.id = r.id => q = r
        /\ q.id < r.id /\ q.msg[1] = r.msg[1] => q.msg[2] < r.msg[2]

StoredFirst ==
    \A s \in Session : \A i \in 1..Len(inbox[s]) :
        inbox[s][i].stored =>
            /\ phase[s] \in {"fetched", "gone"}
            /\ \A r \in batch[s] : r.msg[1] = inbox[s][i].msg[1] => inbox[s][i].msg[2] < r.msg[2]

Order ==
    /\ GrowingRows(rows)
    /\ \A s \in Session : GrowingRows(batch[s])
    /\ StoredFirst
    /\ InOrderByTheSameWay

LEMMA GrowingSubset ==
  ASSUME NEW R, NEW Q \in SUBSET R, GrowingRows(R)
  PROVE  GrowingRows(Q)
  BY DEF GrowingRows

(* A message is later than what its sender sent before. *)
LEMMA LatestIsLast ==
  ASSUME TypeOK, Base, NEW p \in Sender, Holds(p), NEW m \in Message, Old(m), m # handler[p].msg,
         m[1] = p
  PROVE  m[2] < handler[p].msg[2]
<1>1. m[2] \in Int /\ m = <<m[1], m[2]>> /\ sent[p] \in Int
  BY MessageParts DEF TypeOK
<1>2. handler[p].msg = <<p, sent[p]>> /\ m[2] <= sent[p]
  BY DEF Base, Known, Old
<1>3. m[2] # sent[p]
  BY <1>1, <1>2
<1> QED BY <1>1, <1>2, <1>3

LEMMA InboxTypes ==
  ASSUME TypeOK
  PROVE  \A s \in Session :
            /\ inbox[s] \in Seq(Receipt) /\ Len(inbox[s]) \in Nat
            /\ \A i \in 1..Len(inbox[s]) : inbox[s][i].msg \in Message /\ inbox[s][i].stored \in BOOLEAN
<1> SUFFICES ASSUME NEW s \in Session
             PROVE  /\ inbox[s] \in Seq(Receipt) /\ Len(inbox[s]) \in Nat
                    /\ \A i \in 1..Len(inbox[s]) :
                          inbox[s][i].msg \in Message /\ inbox[s][i].stored \in BOOLEAN
  OBVIOUS
<1>1. inbox[s] \in Seq(Receipt)
  BY DEF TypeOK
<1>2. \A i \in 1..Len(inbox[s]) : inbox[s][i] \in Receipt
  BY <1>1
<1> QED BY <1>1, <1>2 DEF Receipt

(* One message more for a client is in order if it is after all that came  *)
(* to it from the same sender in the same way.                             *)
LEMMA InboxInOrder ==
  ASSUME TypeOK, NEW s \in Session, NEW m \in Message, NEW stored \in BOOLEAN,
         SendTo(s, m, stored), InOrderByTheSameWay,
         \A i \in 1..Len(inbox[s]) :
            inbox[s][i].stored = stored /\ inbox[s][i].msg[1] = m[1] => inbox[s][i].msg[2] < m[2]
  PROVE  /\ InOrderByTheSameWay'
         /\ \A t \in Session : \A i \in 1..Len(inbox'[t]) :
               \/ i \in 1..Len(inbox[t]) /\ inbox'[t][i] = inbox[t][i]
               \/ t = s /\ inbox'[t][i].msg = m /\ inbox'[t][i].stored = stored
<1>1. \A t \in Session : Len(inbox[t]) \in Nat
  BY InboxTypes
<1>2. \A t \in Session : t # s => inbox'[t] = inbox[t]
  BY SendToInbox
<1>3. CASE s \notin alive
  <2>1. inbox' = inbox
    BY <1>3, SendToInbox
  <2> QED BY <2>1 DEF InOrderByTheSameWay
<1>4. CASE s \in alive
  <2> DEFINE n == Len(inbox[s]) + 1
  <2>1. Len(inbox'[s]) = n /\ \A i \in 1..Len(inbox[s]) : inbox'[s][i] = inbox[s][i]
    BY <1>4, SendToInbox
  <2>2. inbox'[s][n] = [msg |-> m, stored |-> stored]
    BY <1>4, SendToInbox
  <2>3. inbox'[s][n].msg = m /\ inbox'[s][n].stored = stored
    BY <2>2
  <2>4. \A i \in 1..Len(inbox'[s]) : (i \in 1..Len(inbox[s]) /\ inbox'[s][i] = inbox[s][i]) \/ i = n
    BY <1>1, <2>1
  <2>5. InOrderByTheSameWay'
    <3> SUFFICES ASSUME NEW t \in Session, NEW i \in 1..Len(inbox'[t]), NEW j \in 1..Len(inbox'[t]),
                        i < j, inbox'[t][i].stored = inbox'[t][j].stored,
                        inbox'[t][i].msg[1] = inbox'[t][j].msg[1]
                 PROVE  inbox'[t][i].msg[2] < inbox'[t][j].msg[2]
      BY DEF InOrderByTheSameWay
    <3>1. CASE t # s
      BY <1>2, <3>1 DEF InOrderByTheSameWay
    <3>2. CASE t = s /\ j = n
      <4>1. i \in 1..Len(inbox[s]) /\ inbox'[s][i] = inbox[s][i]
        BY <1>1, <2>4, <3>2
      <4> QED BY <2>3, <3>2, <4>1
    <3>3. CASE t = s /\ j # n
      <4>1. j \in 1..Len(inbox[s]) /\ inbox'[s][j] = inbox[s][j]
        BY <2>4, <3>3
      <4>2. i \in 1..Len(inbox[s]) /\ inbox'[s][i] = inbox[s][i]
        BY <1>1, <2>4, <3>3, <4>1
      <4> QED BY <3>3, <4>1, <4>2 DEF InOrderByTheSameWay
    <3> QED BY <3>1, <3>2, <3>3
  <2> HIDE DEF n
  <2> QED BY <1>2, <2>3, <2>4, <2>5
<1> QED BY <1>3, <1>4

LEMMA OrderFrame ==
  ASSUME Order, UNCHANGED <<rows, batch, inbox>>,
         \A s \in Session : phase'[s] = phase[s] \/ phase'[s] = "gone" \/ phase[s] \in {"new", "checked"}
  PROVE  Order'
<1>1. GrowingRows(rows)' /\ (\A s \in Session : GrowingRows(batch[s]))' /\ InOrderByTheSameWay'
  BY DEF Order, GrowingRows, InOrderByTheSameWay
<1>2. StoredFirst'
  BY DEF Order, StoredFirst
<1> QED BY <1>1, <1>2 DEF Order

LEMMA OrderStep == TypeOK /\ Base /\ Order /\ [Next]_vars => Order'
<1> SUFFICES ASSUME TypeOK, Base, Order, [Next]_vars PROVE Order'
  OBVIOUS
<1>1. ASSUME NEW p \in Sender, NEW u \in User, FindSession(p, u) PROVE Order'
  BY <1>1, OrderFrame DEF FindSession, store, receivers
<1>2. ASSUME NEW p \in Sender, Route(p) PROVE Order'
  <2> DEFINE m == handler[p].msg
             s == handler[p].session
             stored == FALSE
  <2>1. Holds(p) /\ rows' = rows /\ batch' = batch /\ phase' = phase /\ SendTo(s, m, stored)
    BY <1>2 DEF Route, Holds, store, receivers
  <2>2. m \in Message /\ s \in Session /\ m[1] = p
    BY <1>2, <2>1, HandlerParts DEF Route, Base, Known
  <2>3. \A i \in 1..Len(inbox[s]) :
           inbox[s][i].stored = stored /\ inbox[s][i].msg[1] = m[1] => inbox[s][i].msg[2] < m[2]
    <3> SUFFICES ASSUME NEW i \in 1..Len(inbox[s]), inbox[s][i].msg[1] = p
                 PROVE  inbox[s][i].msg[2] < m[2]
      BY <2>2
    <3>1. inbox[s][i].msg \in Message /\ Old(inbox[s][i].msg) /\ inbox[s][i].msg # m
      BY <2>1, <2>2, InboxTypes DEF Base, Known, HandlerAlone
    <3> QED BY <2>1, <3>1, LatestIsLast
  <2>a. stored \in BOOLEAN /\ ~stored
    OBVIOUS
  <2> HIDE DEF m, s, stored
  <2>4. /\ InOrderByTheSameWay'
        /\ \A t \in Session : \A i \in 1..Len(inbox'[t]) :
              \/ i \in 1..Len(inbox[t]) /\ inbox'[t][i] = inbox[t][i]
              \/ t = s /\ inbox'[t][i].msg = m /\ inbox'[t][i].stored = stored
    BY <2>1, <2>2, <2>3, <2>a, InboxInOrder DEF Order
  <2>5. StoredFirst'
    BY <2>1, <2>4, <2>a DEF Order, StoredFirst
  <2> QED BY <2>1, <2>4, <2>5 DEF Order
<1>3. ASSUME NEW p \in Sender, NEW a \in BOOLEAN, NEW b \in BOOLEAN, NEW c \in BOOLEAN,
             Save(p, a, b, c)
      PROVE Order'
  <2> DEFINE m   == handler[p].msg
             row == [id |-> lastId + 1, to |-> handler[p].to, msg |-> m, expires |-> now + Ttl]
  <2>1. Holds(p) /\ batch' = batch /\ phase' = phase /\ inbox' = inbox
    BY <1>3 DEF Save, Holds, receivers
  <2>2. rows' \subseteq rows \cup {row}
    BY <1>3 DEF Save, OfflineSave, store
  <2>3. /\ row.id = lastId + 1 /\ row.msg = m /\ m[1] = p /\ lastId \in Int
        /\ \A r \in rows : r.id \in Int /\ r.id <= lastId /\ r.msg \in Message /\ Old(r.msg) /\ r.msg # m
    BY <2>1 DEF Base, Known, HandlerAlone, TypeOK, Row
  <2>4. \A r \in rows : r.msg[1] = p => r.msg[2] < m[2]
    BY <2>1, <2>3, LatestIsLast
  <2> HIDE DEF m, row
  <2>5. GrowingRows(rows)'
    <3> SUFFICES ASSUME NEW q \in rows', NEW r \in rows'
                 PROVE  /\ q.id = r.id => q = r
                        /\ q.id < r.id /\ q.msg[1] = r.msg[1] => q.msg[2] < r.msg[2]
      BY DEF GrowingRows
    <3>1. CASE q \in rows /\ r \in rows
      BY <3>1 DEF Order, GrowingRows
    <3>2. CASE q \in rows /\ r = row
      BY <2>3, <2>4, <3>2
    <3>3. CASE q = row
      BY <2>2, <2>3, <3>3
    <3> QED BY <2>2, <3>1, <3>2, <3>3
  <2> QED BY <2>1, <2>5 DEF Order, StoredFirst, InOrderByTheSameWay
<1>4. ASSUME NEW s \in Session, NEW delete \in BOOLEAN, FetchAndDelete(s, delete) PROVE Order'
  <2>1. PICK read \in SUBSET rows : batch' = [batch EXCEPT ![s] = read]
    BY <1>4 DEF FetchAndDelete, RowsOf, Expired
  <2>2. /\ rows' \subseteq rows /\ inbox' = inbox
        /\ phase[s] = "entered" /\ phase' = [phase EXCEPT ![s] = "fetched"]
    BY <1>4 DEF FetchAndDelete
  <2>3. GrowingRows(rows)' /\ (\A t \in Session : GrowingRows(batch[t]))'
    <3>1. GrowingRows(rows') /\ GrowingRows(read)
      BY <2>2, GrowingSubset DEF Order
    <3>2. \A t \in Session : GrowingRows(batch'[t])
      BY <2>1, <3>1 DEF Order, TypeOK
    <3> QED BY <3>1, <3>2 DEF GrowingRows
  <2>4. \A i \in 1..Len(inbox[s]) : ~inbox[s][i].stored
    BY <2>2 DEF Order, StoredFirst
  <2>5. StoredFirst'
    BY <2>1, <2>2, <2>4 DEF Order, StoredFirst, TypeOK
  <2> QED BY <2>2, <2>3, <2>5 DEF Order, InOrderByTheSameWay
<1>5. ASSUME NEW s \in Session, SendStored(s) PROVE Order'
  <2>1. PICK r \in batch[s] :
           /\ \A q \in batch[s] : r.id <= q.id
           /\ batch' = [batch EXCEPT ![s] = @ \ {r}] /\ SendTo(s, r.msg, TRUE)
    BY <1>5 DEF SendStored, Oldest
  <2>2. rows' = rows /\ phase' = phase
    BY <1>5 DEF SendStored, store, receivers
  <2>3. r.msg \in Message /\ phase[s] = "fetched"
    BY <2>1 DEF TypeOK, Row, Base, Phases
  <2>4. \A i \in 1..Len(inbox[s]) :
           inbox[s][i].stored = TRUE /\ inbox[s][i].msg[1] = r.msg[1] => inbox[s][i].msg[2] < r.msg[2]
    BY DEF Order, StoredFirst
  <2>5. /\ InOrderByTheSameWay'
        /\ \A t \in Session : \A i \in 1..Len(inbox'[t]) :
              \/ i \in 1..Len(inbox[t]) /\ inbox'[t][i] = inbox[t][i]
              \/ t = s /\ inbox'[t][i].msg = r.msg /\ inbox'[t][i].stored = TRUE
    BY <2>1, <2>3, <2>4, InboxInOrder DEF Order
  <2>6. \A t \in Session : batch'[t] \subseteq batch[t] /\ (t = s => r \notin batch'[t])
    BY <2>1 DEF TypeOK
  <2>7. GrowingRows(rows)' /\ (\A t \in Session : GrowingRows(batch[t]))'
    BY <2>2, <2>6 DEF Order, GrowingRows
  <2>8. \A q \in batch'[s] : q.msg[1] = r.msg[1] => r.msg[2] < q.msg[2]
    <3>1. \A q \in batch'[s] : q \in batch[s] /\ q # r /\ q.id \in Int /\ r.id \in Int
      BY <2>6 DEF TypeOK, Row
    <3>2. \A q \in batch'[s] : r.id < q.id
      BY <2>1, <3>1 DEF Order, GrowingRows
    <3> QED BY <3>1, <3>2 DEF Order, GrowingRows
  <2>9. StoredFirst'
    <3> SUFFICES ASSUME NEW t \in Session, NEW i \in 1..Len(inbox'[t]), inbox'[t][i].stored
                 PROVE  /\ phase'[t] \in {"fetched", "gone"}
                        /\ \A q \in batch'[t] : q.msg[1] = inbox'[t][i].msg[1]
                                                => inbox'[t][i].msg[2] < q.msg[2]
      BY DEF StoredFirst
    <3>1. CASE i \in 1..Len(inbox[t]) /\ inbox'[t][i] = inbox[t][i]
      BY <2>2, <2>6, <3>1 DEF Order, StoredFirst
    <3>2. CASE t = s /\ inbox'[t][i].msg = r.msg
      BY <2>2, <2>3, <2>8, <3>2
    <3> QED BY <2>5, <3>1, <3>2
  <2> QED BY <2>5, <2>7, <2>9 DEF Order
<1>6. ASSUME NEW s \in Session,
             (\E u \in User : CheckNickname(s, u)) \/ EnterRegistry(s) \/ Leave(s) \/ ConnectionBreaks(s)
      PROVE Order'
  <2>1. UNCHANGED <<rows, batch, inbox>>
    BY <1>6 DEF CheckNickname, EnterRegistry, Leave, ConnectionBreaks, store, receivers, senders
  <2>2. \A t \in Session : phase'[t] = phase[t] \/ phase'[t] = "gone" \/ phase[t] \in {"new", "checked"}
    BY <1>6 DEF CheckNickname, EnterRegistry, Leave, ConnectionBreaks, receivers, TypeOK
  <2> QED BY <2>1, <2>2, OrderFrame
<1>7. CASE Tick \/ UNCHANGED vars
  BY <1>7, OrderFrame DEF Tick, vars, store, receivers
<1>8. CASE CleanupExpired
  <2>1. rows' \subseteq rows /\ batch' = batch /\ inbox' = inbox /\ phase' = phase
    BY <1>8 DEF CleanupExpired, receivers, senders
  <2> QED BY <2>1 DEF Order, GrowingRows, StoredFirst, InOrderByTheSameWay
<1>9. CASE Restart
  <2>1. /\ rows' = rows /\ inbox' = inbox /\ batch' = [s \in Session |-> {}]
        /\ \A s \in Session : phase'[s] = phase[s] \/ phase'[s] = "gone"
    BY <1>9 DEF Restart, store
  <2> QED BY <2>1 DEF Order, GrowingRows, StoredFirst, InOrderByTheSameWay
<1> QED BY <1>1, <1>2, <1>3, <1>4, <1>5, <1>6, <1>7, <1>8, <1>9 DEF Next, Send, Receive

LEMMA InitOrder == Init => Order
<1> SUFFICES ASSUME Init PROVE Order
  OBVIOUS
<1>1. \A s \in Session : Len(inbox[s]) = 0
  BY DEF Init
<1> QED BY <1>1 DEF Init, Order, GrowingRows, StoredFirst, InOrderByTheSameWay

-----------------------------------------------------------------------------
(* How often a message can be delivered when a delete fails.               *)

(* A message that was sent to a session directly is with nobody else.      *)
DirectOnce ==
    \A s, t \in Session : \A i \in 1..Len(inbox[s]), j \in 1..Len(inbox[t]) :
        ~inbox[s][i].stored /\ inbox[s][i].msg = inbox[t][j].msg => s = t /\ i = j

(* No login receives a message twice. *)
OncePerLogin ==
    \A s \in Session : \A i, j \in 1..Len(inbox[s]) :
        inbox[s][i].msg = inbox[s][j].msg => i = j

(* ... and a message sent directly is neither in the store nor on its way  *)
(* from it.                                                                *)
DirectAlone ==
    /\ DirectOnce
    /\ \A s \in Session : \A i \in 1..Len(inbox[s]) : ~inbox[s][i].stored =>
          /\ \A r \in rows : r.msg # inbox[s][i].msg
          /\ \A t \in Session : \A r \in batch[t] : r.msg # inbox[s][i].msg

LEMMA DirectFrame ==
  ASSUME DirectAlone, inbox' = inbox,
         \A r \in rows' : r \in rows
            \/ \A s \in Session : \A i \in 1..Len(inbox[s]) : r.msg # inbox[s][i].msg,
         \A t \in Session : \A r \in batch'[t] : r \in batch[t] \/ r \in rows
  PROVE  DirectAlone'
  BY DEF DirectAlone, DirectOnce

(* What send() adds to the inboxes. *)
LEMMA SentReceipt ==
  ASSUME TypeOK, NEW s \in Session, NEW m \in Message, NEW stored \in BOOLEAN,
         SendTo(s, m, stored)
  PROVE  /\ \A t \in Session : \A i \in 1..Len(inbox'[t]) :
               \/ i \in 1..Len(inbox[t]) /\ inbox'[t][i] = inbox[t][i]
               \/ inbox'[t][i].msg = m /\ inbox'[t][i].stored = stored
         /\ \A t, v \in Session : \A i \in 1..Len(inbox'[t]), j \in 1..Len(inbox'[v]) :
               \/ i \in 1..Len(inbox[t]) /\ inbox'[t][i] = inbox[t][i]
               \/ j \in 1..Len(inbox[v]) /\ inbox'[v][j] = inbox[v][j]
               \/ t = v /\ i = j
<1>1. \A t \in Session : \A i \in 1..Len(inbox[t]) :
         i \in 1..Len(inbox'[t]) /\ inbox'[t][i] = inbox[t][i]
  BY InboxGrows
<1>2. \A t, v \in Session : \A i \in 1..Len(inbox'[t]), j \in 1..Len(inbox'[v]) :
         i \in 1..Len(inbox[t]) \/ j \in 1..Len(inbox[v]) \/ (t = v /\ i = j)
  BY InboxGrows
<1>3. ASSUME s \in alive
      PROVE  \A i \in 1..Len(inbox'[s]) :
                \/ i \in 1..Len(inbox[s])
                \/ inbox'[s][i].msg = m /\ inbox'[s][i].stored = stored
  <2>1. Len(inbox'[s]) = Len(inbox[s]) + 1 /\ Len(inbox[s]) \in Nat
    BY <1>3, SendToInbox, InboxTypes
  <2>2. inbox'[s][Len(inbox[s]) + 1] = [msg |-> m, stored |-> stored]
    BY <1>3, SendToInbox
  <2>3. \A i \in 1..Len(inbox'[s]) : i \in 1..Len(inbox[s]) \/ i = Len(inbox[s]) + 1
    BY <2>1
  <2> QED BY <2>2, <2>3
<1>4. s \notin alive => inbox' = inbox
  BY SendToInbox
<1>5. \A t \in Session : t # s => inbox'[t] = inbox[t]
  BY SendToInbox
<1> QED BY <1>1, <1>2, <1>3, <1>4, <1>5

LEMMA DirectStep == TypeOK /\ Base /\ DirectAlone /\ [Next]_vars => DirectAlone'
<1> SUFFICES ASSUME TypeOK, Base, DirectAlone, [Next]_vars PROVE DirectAlone'
  OBVIOUS
<1>1. ASSUME UNCHANGED <<rows, batch, inbox>> PROVE DirectAlone'
  BY <1>1, DirectFrame
<1>2. ASSUME NEW p \in Sender, Route(p) PROVE DirectAlone'
  <2>1. /\ Holds(p) /\ rows' = rows /\ batch' = batch /\ handler[p].session # None
        /\ SendTo(handler[p].session, handler[p].msg, FALSE)
    BY <1>2 DEF Route, Holds, store, receivers
  <2>2. handler[p].msg \in Message /\ handler[p].session \in Session
    BY <2>1, HandlerParts
  <2>3. PICK m \in Message : m = handler[p].msg
    BY <2>2
  <2>4. /\ \A r \in rows : r.msg # m
        /\ \A t \in Session : \A r \in batch[t] : r.msg # m
        /\ \A t \in Session : \A i \in 1..Len(inbox[t]) : inbox[t][i].msg # m
    BY <2>1, <2>3 DEF Base, HandlerAlone
  <2>5. /\ \A t \in Session : \A i \in 1..Len(inbox'[t]) :
              \/ i \in 1..Len(inbox[t]) /\ inbox'[t][i] = inbox[t][i]
              \/ inbox'[t][i].msg = m
        /\ \A t, v \in Session : \A i \in 1..Len(inbox'[t]), j \in 1..Len(inbox'[v]) :
              \/ i \in 1..Len(inbox[t]) /\ inbox'[t][i] = inbox[t][i]
              \/ j \in 1..Len(inbox[v]) /\ inbox'[v][j] = inbox[v][j]
              \/ t = v /\ i = j
    <3>1. PICK s \in Session : s = handler[p].session
      BY <2>2
    <3>2. SendTo(s, m, FALSE)
      BY <2>1, <2>3, <3>1
    <3>3. /\ \A t \in Session : \A i \in 1..Len(inbox'[t]) :
                \/ i \in 1..Len(inbox[t]) /\ inbox'[t][i] = inbox[t][i]
                \/ inbox'[t][i].msg = m /\ inbox'[t][i].stored = FALSE
          /\ \A t, v \in Session : \A i \in 1..Len(inbox'[t]), j \in 1..Len(inbox'[v]) :
                \/ i \in 1..Len(inbox[t]) /\ inbox'[t][i] = inbox[t][i]
                \/ j \in 1..Len(inbox[v]) /\ inbox'[v][j] = inbox[v][j]
                \/ t = v /\ i = j
      BY <3>2, SentReceipt
    <3> QED BY <3>3
  <2>6. DirectOnce'
    <3> SUFFICES ASSUME NEW t \in Session, NEW v \in Session,
                        NEW i \in 1..Len(inbox'[t]), NEW j \in 1..Len(inbox'[v]),
                        ~inbox'[t][i].stored, inbox'[t][i].msg = inbox'[v][j].msg
                 PROVE  t = v /\ i = j
      BY DEF DirectOnce
    <3>1. CASE inbox'[t][i].msg = m
      <4>1. ~(i \in 1..Len(inbox[t]) /\ inbox'[t][i] = inbox[t][i])
        BY <2>4, <3>1
      <4>2. ~(j \in 1..Len(inbox[v]) /\ inbox'[v][j] = inbox[v][j])
        BY <2>4, <3>1
      <4> QED BY <2>5, <4>1, <4>2
    <3>2. CASE inbox'[t][i].msg # m
      <4>1. /\ i \in 1..Len(inbox[t]) /\ inbox'[t][i] = inbox[t][i]
            /\ j \in 1..Len(inbox[v]) /\ inbox'[v][j] = inbox[v][j]
        BY <2>5, <3>2
      <4> QED BY <4>1 DEF DirectAlone, DirectOnce
    <3> QED BY <3>1, <3>2
  <2> QED BY <2>1, <2>4, <2>5, <2>6 DEF DirectAlone
<1>3. ASSUME NEW p \in Sender, NEW a \in BOOLEAN, NEW b \in BOOLEAN, NEW c \in BOOLEAN,
             Save(p, a, b, c)
      PROVE DirectAlone'
  <2> DEFINE row == [id |-> lastId + 1, to |-> handler[p].to, msg |-> handler[p].msg,
                     expires |-> now + Ttl]
  <2>1. Holds(p) /\ batch' = batch /\ inbox' = inbox /\ rows' \subseteq rows \cup {row}
    BY <1>3 DEF Save, OfflineSave, Holds, receivers, store
  <2>2. \A s \in Session : \A i \in 1..Len(inbox[s]) : row.msg # inbox[s][i].msg
    BY <2>1 DEF Base, HandlerAlone
  <2> HIDE DEF row
  <2> QED BY <2>1, <2>2, DirectFrame
<1>4. ASSUME NEW s \in Session, NEW delete \in BOOLEAN, FetchAndDelete(s, delete) PROVE DirectAlone'
  <2>1. PICK R, read \in SUBSET rows :
           rows' = rows \ R /\ inbox' = inbox /\ batch' = [batch EXCEPT ![s] = read]
    BY <1>4, FetchRemoves
  <2>2. \A t \in Session : \A r \in batch'[t] : r \in batch[t] \/ r \in rows
    BY <2>1 DEF TypeOK
  <2> QED BY <2>1, <2>2, DirectFrame
<1>5. ASSUME NEW s \in Session, SendStored(s) PROVE DirectAlone'
  <2>1. PICK r \in batch[s] :
           /\ batch' = [batch EXCEPT ![s] = @ \ {r}] /\ r.msg \in Message
           /\ SendTo(s, r.msg, TRUE) /\ rows' = rows
    BY <1>5, SendStoredMoves
  <2>2. \A t \in Session : \A i \in 1..Len(inbox[t]) : ~inbox[t][i].stored => inbox[t][i].msg # r.msg
    BY DEF DirectAlone
  <2>3. \A t \in Session : batch'[t] \subseteq batch[t]
    BY <2>1 DEF TypeOK
  <2>4. \A t \in Session : \A i \in 1..Len(inbox'[t]) :
           \/ i \in 1..Len(inbox[t]) /\ inbox'[t][i] = inbox[t][i]
           \/ inbox'[t][i].msg = r.msg /\ inbox'[t][i].stored = TRUE
    BY <2>1, SentReceipt
  <2>5. DirectOnce'
    <3> SUFFICES ASSUME NEW t \in Session, NEW v \in Session,
                        NEW i \in 1..Len(inbox'[t]), NEW j \in 1..Len(inbox'[v]),
                        ~inbox'[t][i].stored, inbox'[t][i].msg = inbox'[v][j].msg
                 PROVE  t = v /\ i = j
      BY DEF DirectOnce
    <3>1. i \in 1..Len(inbox[t]) /\ inbox'[t][i] = inbox[t][i]
      BY <2>4
    <3>2. inbox'[v][j].msg # r.msg
      BY <2>2, <3>1
    <3>3. j \in 1..Len(inbox[v]) /\ inbox'[v][j] = inbox[v][j]
      BY <2>4, <3>2
    <3> QED BY <3>1, <3>3 DEF DirectAlone, DirectOnce
  <2>6. \A t \in Session : \A i \in 1..Len(inbox'[t]) : ~inbox'[t][i].stored =>
           i \in 1..Len(inbox[t]) /\ inbox'[t][i] = inbox[t][i]
    BY <2>4
  <2> QED BY <2>1, <2>3, <2>5, <2>6 DEF DirectAlone
<1>6. CASE CleanupExpired
  BY <1>6, DirectFrame DEF CleanupExpired, receivers, senders
<1>7. CASE Restart
  BY <1>7, DirectFrame DEF Restart, store
<1>8. ASSUME NEW p \in Sender, NEW u \in User, FindSession(p, u) PROVE DirectAlone'
  BY <1>1, <1>8 DEF FindSession, store, receivers
<1>9. ASSUME NEW s \in Session,
             (\E u \in User : CheckNickname(s, u)) \/ EnterRegistry(s) \/ Leave(s) \/ ConnectionBreaks(s)
      PROVE DirectAlone'
  BY <1>1, <1>9 DEF CheckNickname, EnterRegistry, Leave, ConnectionBreaks, store, receivers, senders
<1>10. CASE Tick \/ UNCHANGED vars
  BY <1>1, <1>10 DEF Tick, vars, store, receivers, senders
<1> QED BY <1>2, <1>3, <1>4, <1>5, <1>6, <1>7, <1>8, <1>9, <1>10 DEF Next, Send, Receive

(* In a session's inbox the stored messages differ because they are in     *)
(* order, the direct ones because they are with nobody else.               *)
LEMMA OnceInALogin == TypeOK /\ Order /\ DirectAlone => OncePerLogin
<1> SUFFICES ASSUME TypeOK, Order, DirectAlone, NEW s \in Session,
                    NEW i \in 1..Len(inbox[s]), NEW j \in 1..Len(inbox[s]),
                    inbox[s][i].msg = inbox[s][j].msg
             PROVE  i = j
  BY DEF OncePerLogin
<1>1. CASE ~inbox[s][i].stored \/ ~inbox[s][j].stored
  BY <1>1 DEF DirectAlone, DirectOnce
<1>2. CASE inbox[s][i].stored /\ inbox[s][j].stored
  <2>1. /\ inbox[s][i].msg \in Message /\ inbox[s][j].msg \in Message
        /\ inbox[s][i].stored \in BOOLEAN /\ inbox[s][j].stored \in BOOLEAN
        /\ Len(inbox[s]) \in Nat
    BY InboxTypes
  <2>2. inbox[s][i].msg[2] \in Int /\ inbox[s][i].stored = inbox[s][j].stored
    BY <1>2, <2>1, MessageParts
  <2>3. ~(i < j) /\ ~(j < i)
    BY <2>2 DEF Order, InOrderByTheSameWay
  <2> QED BY <2>1, <2>3
<1> QED BY <1>1, <1>2

-----------------------------------------------------------------------------
(* Entries are of sessions that log in as their user, and are up.          *)
Registry ==
    /\ \A u \in User : online[u] # None =>
          user[online[u]] = u /\ phase[online[u]] \in {"entered", "fetched"}
    /\ \A s \in Session : phase[s] = "checked" => user[s] \in User

(* What is left in the store of a user that is online.                     *)
Emptied(u) == online[u] # None /\ phase[online[u]] = "fetched"

(* A handler that looked up before the login takes the one place its       *)
(* sender may have in the store.                                           *)
Stranded ==
    \A u \in User : Emptied(u) =>
        /\ \A q, r \in RowsOf(u) : q.msg[1] = r.msg[1] => q = r
        /\ \A p \in Sender :
              Holds(p) /\ handler[p].to = u /\ handler[p].session = None =>
                  \A r \in RowsOf(u) : r.msg[1] # p

LEMMA RegistryFrame ==
  ASSUME Registry, user' = user, phase' = phase,
         \A u \in User : online'[u] = online[u] \/ online'[u] = None
  PROVE  Registry'
  BY DEF Registry

LEMMA RegistryStep == TypeOK /\ Registry /\ [Next]_vars => Registry'
<1> SUFFICES ASSUME TypeOK, Registry, [Next]_vars PROVE Registry'
  OBVIOUS
<1> USE DeliveryAssumption
<1>1. ASSUME UNCHANGED receivers PROVE Registry'
  BY <1>1 DEF receivers, Registry
<1>2. ASSUME NEW s \in Session, NEW u \in User, CheckNickname(s, u) PROVE Registry'
  <2>1. /\ online' = online /\ phase[s] = "new" /\ user'[s] = u
        /\ \A t \in Session : t # s => phase'[t] = phase[t] /\ user'[t] = user[t]
    BY <1>2 DEF CheckNickname, TypeOK
  <2>2. \A v \in User : online[v] # None => online[v] \in Session /\ online[v] # s
    <3>1. \A v \in User : online[v] # None => online[v] \in Session
      BY DEF TypeOK
    <3>2. \A v \in User : online[v] # None => phase[online[v]] # phase[s]
      BY <2>1 DEF Registry
    <3> QED BY <3>1, <3>2
  <2> QED BY <2>1, <2>2 DEF Registry
<1>3. ASSUME NEW s \in Session, EnterRegistry(s) PROVE Registry'
  <2>1. /\ user' = user /\ phase[s] = "checked" /\ phase'[s] = "entered"
        /\ \A t \in Session : t # s => phase'[t] = phase[t]
        /\ \A v \in User : online'[v] = IF v = user[s] THEN s ELSE online[v]
    BY <1>3 DEF EnterRegistry, TypeOK
  <2>2. \A v \in User : online[v] # None => online[v] \in Session /\ online[v] # s
    <3>1. \A v \in User : online[v] # None => online[v] \in Session
      BY DEF TypeOK
    <3>2. \A v \in User : online[v] # None => phase[online[v]] # phase[s]
      BY <2>1 DEF Registry
    <3> QED BY <3>1, <3>2
  <2> QED BY <2>1, <2>2 DEF Registry
<1>4. ASSUME NEW s \in Session, NEW delete \in BOOLEAN, FetchAndDelete(s, delete) PROVE Registry'
  <2>1. /\ online' = online /\ user' = user /\ phase'[s] = "fetched"
        /\ \A t \in Session : t # s => phase'[t] = phase[t]
    BY <1>4 DEF FetchAndDelete, TypeOK
  <2>2. \A u \in User : online[u] # None => online[u] \in Session
    BY DEF TypeOK
  <2> QED BY <2>1, <2>2 DEF Registry
<1>5. ASSUME NEW s \in Session, Leave(s) PROVE Registry'
  <2>1. /\ user' = user /\ phase'[s] = "gone"
        /\ \A t \in Session : t # s => phase'[t] = phase[t]
        /\ \A v \in User : online'[v] = IF online[v] = s THEN None ELSE online[v]
    BY <1>5 DEF Leave, TypeOK
  <2> QED BY <2>1 DEF Registry, TypeOK
<1>6. CASE Restart
  BY <1>6 DEF Restart, Registry
<1>7. ASSUME NEW p \in Sender, Send(p) PROVE UNCHANGED receivers
  BY <1>7 DEF Send, FindSession, Route, Save
<1>8. ASSUME NEW s \in Session, SendStored(s) \/ ConnectionBreaks(s) PROVE UNCHANGED receivers
  BY <1>8 DEF SendStored, ConnectionBreaks
<1>9. CASE Tick \/ CleanupExpired \/ UNCHANGED vars
  BY <1>1, <1>9 DEF Tick, CleanupExpired, vars, receivers
<1> QED BY <1>1, <1>2, <1>3, <1>4, <1>5, <1>6, <1>7, <1>8, <1>9 DEF Next, Receive

(* Sessions keep their entries, and senders and rows only become fewer.    *)
LEMMA StrandedFrame ==
  ASSUME Registry, Stranded, user' = user, rows' \subseteq rows,
         \A u \in User : online'[u] = online[u] \/ online'[u] = None,
         \A u \in User : online'[u] # None => phase'[online[u]] = phase[online[u]],
         \A p \in Sender : Holds(p)' => Holds(p) /\ handler'[p] = handler[p]
  PROVE  Stranded'
<1>1. \A u \in User : Emptied(u)' => Emptied(u) /\ RowsOf(u)' \subseteq RowsOf(u)
  BY DEF Emptied, RowsOf
<1> QED BY <1>1 DEF Stranded

LEMMA StrandedStep ==
  ASSUME ~Faults
  PROVE  TypeOK /\ Base /\ Registry /\ Stranded /\ [Next]_vars => Stranded'
<1> SUFFICES ASSUME TypeOK, Base, Registry, Stranded, [Next]_vars PROVE Stranded'
  OBVIOUS
<1> USE DeliveryAssumption
<1>1. ASSUME NEW p \in Sender, NEW u \in User, FindSession(p, u) PROVE Stranded'
  <2>1. /\ rows' = rows /\ online' = online /\ phase' = phase /\ user' = user
        /\ handler'[p].to = u /\ handler'[p].session = online[u]
        /\ \A q \in Sender : q # p => handler'[q] = handler[q]
    BY <1>1 DEF FindSession, TypeOK, store, receivers
  <2>2. \A q \in Sender : q # p => (Holds(q)' <=> Holds(q))
    BY <2>1 DEF Holds
  <2>3. \A v \in User : (Emptied(v)' <=> Emptied(v)) /\ RowsOf(v)' = RowsOf(v)
    BY <2>1 DEF Emptied, RowsOf
  <2> QED BY <2>1, <2>2, <2>3 DEF Registry, Stranded, Emptied
<1>2. ASSUME NEW p \in Sender, Route(p) PROVE Stranded'
  <2>1. rows' = rows /\ online' = online /\ phase' = phase /\ user' = user
    BY <1>2 DEF Route, store, receivers
  <2>2. \A q \in Sender : Holds(q)' => Holds(q) /\ handler'[q] = handler[q]
    BY <1>2 DEF Route, Holds, TypeOK
  <2> QED BY <2>1, <2>2, StrandedFrame
<1>3. ASSUME NEW p \in Sender, NEW a \in BOOLEAN, NEW b \in BOOLEAN, NEW c \in BOOLEAN,
             Save(p, a, b, c)
      PROVE Stranded'
  <2> DEFINE row == [id |-> lastId + 1, to |-> handler[p].to, msg |-> handler[p].msg,
                     expires |-> now + Ttl]
  <2>1. Holds(p) /\ handler[p].session = None /\ online' = online /\ phase' = phase /\ user' = user
    BY <1>3 DEF Save, Holds, receivers
  <2>2. \A q \in Sender : Holds(q)' => q # p /\ Holds(q) /\ handler'[q] = handler[q]
    BY <1>3 DEF Save, Holds, TypeOK
  <2>3. rows' \subseteq rows \cup {row}
    BY <1>3 DEF Save, OfflineSave, store
  <2>4. row.to = handler[p].to /\ row.msg[1] = p
    BY <2>1 DEF Base, Known
  <2> HIDE DEF row
  <2>5. \A u \in User : Emptied(u)' <=> Emptied(u)
    BY <2>1 DEF Emptied
  <2>6. \A u \in User : \A r \in RowsOf(u)' : r \in RowsOf(u) \/ (r = row /\ u = handler[p].to)
    BY <2>3, <2>4 DEF RowsOf
  <2>7. Stranded'
    <3> SUFFICES ASSUME NEW u \in User, Emptied(u)
                 PROVE  /\ \A q, r \in RowsOf(u)' : q.msg[1] = r.msg[1] => q = r
                        /\ \A o \in Sender :
                              Holds(o)' /\ handler'[o].to = u /\ handler'[o].session = None =>
                                  \A r \in RowsOf(u)' : r.msg[1] # o
      BY <2>5 DEF Stranded
    <3>1. u = handler[p].to => \A r \in RowsOf(u) : r.msg[1] # p
      BY <2>1 DEF Stranded
    <3>2. \A q, r \in RowsOf(u)' : q.msg[1] = r.msg[1] => q = r
      BY <2>4, <2>6, <3>1 DEF Stranded
    <3>3. \A o \in Sender :
             Holds(o)' /\ handler'[o].to = u /\ handler'[o].session = None =>
                 \A r \in RowsOf(u)' : r.msg[1] # o
      BY <2>2, <2>4, <2>6 DEF Stranded
    <3> QED BY <3>2, <3>3
  <2> QED BY <2>7
<1>4. ASSUME NEW s \in Session, NEW u \in User, CheckNickname(s, u) PROVE Stranded'
  <2>1. /\ rows' = rows /\ online' = online /\ handler' = handler /\ phase[s] = "new"
        /\ \A t \in Session : t # s => phase'[t] = phase[t] /\ user'[t] = user[t]
    BY <1>4 DEF CheckNickname, store, senders, TypeOK
  <2>2. \A v \in User : online[v] # None => online[v] \in Session /\ online[v] # s
    <3>1. \A v \in User : online[v] # None => online[v] \in Session
      BY DEF TypeOK
    <3>2. \A v \in User : online[v] # None => phase[online[v]] # phase[s]
      BY <2>1 DEF Registry
    <3> QED BY <3>1, <3>2
  <2>3. \A v \in User : (Emptied(v)' <=> Emptied(v)) /\ RowsOf(v)' = RowsOf(v)
    BY <2>1, <2>2 DEF Emptied, RowsOf
  <2> QED BY <2>1, <2>3 DEF Stranded, Holds
<1>5. ASSUME NEW s \in Session, EnterRegistry(s) PROVE Stranded'
  <2>1. /\ rows' = rows /\ user' = user /\ handler' = handler /\ phase[s] = "checked" /\ phase'[s] = "entered"
        /\ \A t \in Session : t # s => phase'[t] = phase[t]
        /\ \A v \in User : online'[v] = IF v = user[s] THEN s ELSE online[v]
    BY <1>5 DEF EnterRegistry, store, senders, TypeOK
  <2>2. \A v \in User : online[v] # None => online[v] \in Session /\ online[v] # s
    <3>1. \A v \in User : online[v] # None => online[v] \in Session
      BY DEF TypeOK
    <3>2. \A v \in User : online[v] # None => phase[online[v]] # phase[s]
      BY <2>1 DEF Registry
    <3> QED BY <3>1, <3>2
  <2>3. \A v \in User : (Emptied(v)' => Emptied(v)) /\ RowsOf(v)' = RowsOf(v)
    BY <2>1, <2>2 DEF Emptied, RowsOf
  <2> QED BY <2>1, <2>3 DEF Stranded, Holds
<1>6. ASSUME NEW s \in Session, NEW delete \in BOOLEAN, FetchAndDelete(s, delete)
      PROVE Stranded'
  <2>1. rows' = rows \ RowsOf(user[s])
    BY <1>6, FetchWithoutFaults
  <2>2. /\ online' = online /\ user' = user /\ handler' = handler /\ phase'[s] = "fetched"
        /\ \A t \in Session : t # s => phase'[t] = phase[t]
    BY <1>6 DEF FetchAndDelete, senders, TypeOK
  <2>3. Stranded'
    <3> SUFFICES ASSUME NEW v \in User, Emptied(v)'
                 PROVE  /\ \A q, r \in RowsOf(v)' : q.msg[1] = r.msg[1] => q = r
                        /\ \A o \in Sender :
                              Holds(o)' /\ handler'[o].to = v /\ handler'[o].session = None =>
                                  \A r \in RowsOf(v)' : r.msg[1] # o
      BY DEF Stranded
    <3>1. CASE online[v] = s
      <4>1. user[s] = v
        BY <2>2, <3>1 DEF Emptied, Registry
      <4>2. RowsOf(v)' = {}
        BY <2>1, <4>1 DEF RowsOf
      <4> QED BY <4>2
    <3>2. CASE online[v] # s
      <4>1. Emptied(v) /\ RowsOf(v)' \subseteq RowsOf(v)
        BY <2>1, <2>2, <3>2 DEF Emptied, RowsOf, TypeOK
      <4> QED BY <2>2, <4>1 DEF Stranded, Holds
    <3> QED BY <3>1, <3>2
  <2> QED BY <2>3
<1>7. ASSUME NEW s \in Session, Leave(s) PROVE Stranded'
  <2>1. /\ rows' = rows /\ user' = user /\ handler' = handler
        /\ \A t \in Session : t # s => phase'[t] = phase[t]
        /\ \A v \in User : online'[v] = IF online[v] = s THEN None ELSE online[v]
    BY <1>7 DEF Leave, store, senders, TypeOK
  <2>2. \A v \in User : online'[v] # None => phase'[online[v]] = phase[online[v]]
    BY <2>1 DEF TypeOK
  <2> QED BY <2>1, <2>2, StrandedFrame DEF Holds
<1>8. ASSUME NEW s \in Session, SendStored(s) \/ ConnectionBreaks(s) PROVE Stranded'
  <2>1. rows' = rows /\ online' = online /\ phase' = phase /\ user' = user /\ handler' = handler
    BY <1>8 DEF SendStored, ConnectionBreaks, store, receivers, senders
  <2> QED BY <2>1, StrandedFrame DEF Holds
<1>9. CASE Tick \/ CleanupExpired \/ UNCHANGED vars
  <2>1. /\ rows' \subseteq rows /\ online' = online /\ phase' = phase /\ user' = user
        /\ handler' = handler
    BY <1>9 DEF Tick, CleanupExpired, vars, store, receivers, senders
  <2> QED BY <2>1, StrandedFrame DEF Holds
<1>10. CASE Restart
  <2>1. \A u \in User : ~Emptied(u)' /\ online'[u] = None
    BY <1>10 DEF Restart, Emptied
  <2> QED BY <2>1 DEF Stranded
<1> QED BY <1>1, <1>2, <1>3, <1>4, <1>5, <1>6, <1>7, <1>8, <1>9, <1>10 DEF Next, Send, Receive

LEMMA InitStranded == Init => Registry /\ Stranded
  BY DEF Init, Registry, Stranded, Emptied

-----------------------------------------------------------------------------
(* Types of the store, the registry and the handlers. *)
THEOREM TypeCorrect == Spec => []TypeOK
  BY InitType, TypeStep, PTL DEF Spec

(* Whatever statements fail: handle_chat, save, fetch_and_delete, the      *)
(* cleanup and restarts lose no message without a reason, however the      *)
(* handlers interleave.  What a failing statement can do is double one.    *)
THEOREM NothingIsLost == Spec => []NothingVanishes
<1>1. Init => TypeOK /\ Base
  BY InitType, InitBase
<1>2. TypeOK /\ Base /\ [Next]_vars => TypeOK' /\ Base'
  BY TypeStep, BaseStep
<1> QED BY <1>1, <1>2, BaseSuffices, PTL DEF Spec

(* With a database that works they do not double one either. *)
THEOREM OneCopy == ASSUME ~Faults PROVE Spec => []OneCopyOrDropped
<1>1. Init => TypeOK /\ Base /\ Once
  BY InitType, InitBase
<1>2. TypeOK /\ Base /\ Once /\ [Next]_vars => TypeOK' /\ Base' /\ Once'
  BY TypeStep, BaseStep, OnceStep
<1>3. Base /\ Once => OneCopyOrDropped
  BY BaseSuffices, OnceSuffices DEF OneCopyOrDropped
<1> QED BY <1>1, <1>2, <1>3, PTL DEF Spec

(* Whatever statements fail: what a sender sent to a session directly, and *)
(* what reached it through the store, each arrive in order.                *)
THEOREM InOrder == Spec => []InOrderByTheSameWay
<1>1. Init => TypeOK /\ Base /\ Order
  BY InitType, InitBase, InitOrder
<1>2. TypeOK /\ Base /\ Order /\ [Next]_vars => TypeOK' /\ Base' /\ Order'
  BY TypeStep, BaseStep, OrderStep
<1>3. Order => InOrderByTheSameWay
  BY DEF Order
<1> QED BY <1>1, <1>2, <1>3, PTL DEF Spec

(* Whatever statements fail: a message that was sent to a session directly *)
(* is delivered to no other, and no login receives a message twice.  What  *)
(* fetch_and_delete repeats when its DELETE fails are stored messages, to  *)
(* a later login.                                                          *)
THEOREM TwiceOnlyFromStore == Spec => [](DirectOnce /\ OncePerLogin)
<1>1. Init => TypeOK /\ Base /\ Order /\ DirectAlone
  <2>1. Init => DirectAlone
    <3>1. Init => \A s \in Session : Len(inbox[s]) = 0
      BY DEF Init
    <3> QED BY <3>1 DEF DirectAlone, DirectOnce
  <2> QED BY <2>1, InitType, InitBase, InitOrder
<1>2. TypeOK /\ Base /\ Order /\ DirectAlone /\ [Next]_vars
         => TypeOK' /\ Base' /\ Order' /\ DirectAlone'
  BY TypeStep, BaseStep, OrderStep, DirectStep
<1>3. TypeOK /\ Order /\ DirectAlone => DirectOnce /\ OncePerLogin
  BY OnceInALogin DEF DirectAlone
<1> QED BY <1>1, <1>2, <1>3, PTL DEF Spec

(* With a database that works: once a user's login has emptied its store,  *)
(* a sender has at most one message there, the one whose lookup came       *)
(* before the login.                                                       *)
THEOREM OneStranded == ASSUME ~Faults PROVE Spec => []OneStrandedPerSender
<1>1. Init => TypeOK /\ Base /\ Registry /\ Stranded
  BY InitType, InitBase, InitStranded
<1>2. TypeOK /\ Base /\ Registry /\ Stranded /\ [Next]_vars
         => TypeOK' /\ Base' /\ Registry' /\ Stranded'
  BY TypeStep, BaseStep, RegistryStep, StrandedStep
<1>3. Stranded => OneStrandedPerSender
  BY DEF Stranded, Emptied, OneStrandedPerSender
<1> QED BY <1>1, <1>2, <1>3, PTL DEF Spec
-----------------------------------------------------------------------------
(* Refinement. *)

(* The sessions that on_session_authenticated has been run for, or never   *)
(* will be.                                                                *)
Served == {s \in Session : phase[s] \notin {"new", "checked"}}

Directory == INSTANCE SessionDirectory WITH served <- Served

LEMMA DirectoryStep == TypeOK /\ Registry /\ [Next]_vars => [Directory!Next]_<<online, Served>>
<1> SUFFICES ASSUME TypeOK, Registry, [Next]_vars PROVE [Directory!Next]_<<online, Served>>
  OBVIOUS
<1> USE DeliveryAssumption
<1>1. ASSUME online' = online, phase' = phase PROVE UNCHANGED <<online, Served>>
  BY <1>1 DEF Served
<1>2. ASSUME NEW p \in Sender, Send(p) PROVE UNCHANGED <<online, Served>>
  BY <1>1, <1>2 DEF Send, FindSession, Route, Save, receivers
<1>3. ASSUME NEW s \in Session, NEW u \in User, CheckNickname(s, u) PROVE UNCHANGED <<online, Served>>
  BY <1>3 DEF CheckNickname, Served, TypeOK
<1>4. ASSUME NEW s \in Session, EnterRegistry(s) PROVE Directory!Next
  <2>1. user[s] \in User /\ s \notin Served
    BY <1>4 DEF EnterRegistry, Registry, Served
  <2>2. Served' = Served \cup {s}
    BY <1>4 DEF EnterRegistry, Served, TypeOK
  <2>3. Directory!Login(s, user[s])
    BY <1>4, <2>1, <2>2 DEF EnterRegistry, Directory!Login
  <2> QED BY <2>1, <2>3 DEF Directory!Next
<1>5. ASSUME NEW s \in Session, NEW delete \in BOOLEAN, FetchAndDelete(s, delete)
      PROVE  UNCHANGED <<online, Served>>
  BY <1>5 DEF FetchAndDelete, Served, TypeOK
<1>6. ASSUME NEW s \in Session, SendStored(s) \/ ConnectionBreaks(s)
      PROVE  UNCHANGED <<online, Served>>
  BY <1>1, <1>6 DEF SendStored, ConnectionBreaks, receivers
<1>7. ASSUME NEW s \in Session, Leave(s) PROVE Directory!Next \/ UNCHANGED <<online, Served>>
  <2>1. Served' = Served
    BY <1>7 DEF Leave, Served, TypeOK
  <2>2. \A u \in User : online'[u] = IF online[u] = s THEN None ELSE online[u]
    BY <1>7 DEF Leave
  <2>3. ASSUME NEW u \in User, online[u] = s PROVE Directory!Next
    <3>1. \A v \in User : online[v] = s => v = u
      BY <2>3 DEF Registry
    <3>2. online' = [online EXCEPT ![u] = None]
      BY <1>7, <2>3, <3>1 DEF Leave, TypeOK
    <3>3. Directory!Logout(u)
      BY <2>1, <2>3, <3>2 DEF Directory!Logout
    <3> QED BY <3>3 DEF Directory!Next
  <2>4. CASE \A u \in User : online[u] # s
    BY <1>7, <2>1, <2>4 DEF Leave, TypeOK
  <2> QED BY <2>3, <2>4
<1>8. CASE Tick \/ CleanupExpired \/ UNCHANGED vars
  BY <1>1, <1>8 DEF Tick, CleanupExpired, vars, receivers
<1>9. CASE Restart
  <2>1. Served \subseteq Served' /\ Served' \subseteq Session
    BY <1>9 DEF Restart, Served
  <2>2. Directory!Clear
    BY <1>9, <2>1 DEF Restart, Directory!Clear
  <2> QED BY <2>2 DEF Directory!Next
<1> QED BY <1>2, <1>3, <1>4, <1>5, <1>6, <1>7, <1>8, <1>9 DEF Next, Receive

(* The registry that handle_chat asks implements the session directory,    *)
(* across restarts: on_session_authenticated is a login, the end of a      *)
(* session the logout of its own user or, if it was replaced, no step.     *)
THEOREM DirectoryImplemented == Spec => Directory!Spec
<1>1. Init => TypeOK /\ Registry /\ Directory!Init
  BY InitType, InitStranded DEF Init, Directory!Init, Served
<1>2. TypeOK /\ Registry /\ [Next]_vars => TypeOK' /\ Registry'
  BY TypeStep, RegistryStep
<1> QED BY <1>1, <1>2, DirectoryStep, PTL DEF Spec, Directory!Spec

-----------------------------------------------------------------------------
Delivered(m) == \E s \in Session : \E i \in 1..Len(inbox[s]) : inbox[s][i].msg = m

Held(m) ==
    \/ \E p \in Sender : Holds(p) /\ handler[p].msg = m
    \/ \E r \in rows : r.msg = m
    \/ \E s \in Session : \E r \in batch[s] : r.msg = m

(* What has become of a message, read off the places it may be in. *)
FateOf(m) ==
    CASE ~Old(m) -> "unsent"
      [] Old(m) /\ Delivered(m) -> "delivered"
      [] Old(m) /\ ~Delivered(m) /\ Held(m) -> "held"
      [] Old(m) /\ ~Delivered(m) /\ ~Held(m) -> "lost"

fates == [m \in Message |-> FateOf(m)]

Fate == INSTANCE MessageFate WITH fate <- fates

LEMMA FateValues ==
  ASSUME NEW m
  PROVE  /\ FateOf(m) = "unsent" <=> ~Old(m)
         /\ FateOf(m) = "delivered" <=> Old(m) /\ Delivered(m)
         /\ FateOf(m) = "held" <=> Old(m) /\ ~Delivered(m) /\ Held(m)
         /\ FateOf(m) = "lost" <=> Old(m) /\ ~Delivered(m) /\ ~Held(m)
  BY DEF FateOf

(* A step that sends no new message and delivers none: some are given up. *)
LEMMA FateGivenUp ==
  ASSUME sent' = sent,
         \A m \in Message : Old(m) => (Delivered(m)' <=> Delivered(m)),
         \A m \in Message : Old(m) => (Held(m)' => Held(m))
  PROVE  Fate!Next \/ UNCHANGED fates
<1> DEFINE M == {m \in Message : FateOf(m) = "held" /\ FateOf(m)' = "lost"}
<1>1. \A m \in Message : Old(m)' <=> Old(m)
  BY DEF Old
<1>2. \A m \in Message : FateOf(m)' = IF m \in M THEN "lost" ELSE FateOf(m)
  <2> SUFFICES ASSUME NEW m \in Message
               PROVE  FateOf(m)' = IF m \in M THEN "lost" ELSE FateOf(m)
    OBVIOUS
  <2>1. CASE ~Old(m)
    BY <1>1, <2>1 DEF FateOf
  <2>2. CASE Old(m) /\ Delivered(m)
    BY <1>1, <2>2 DEF FateOf
  <2>3. CASE Old(m) /\ ~Delivered(m) /\ Held(m)
    BY <1>1, <2>3 DEF FateOf
  <2>4. CASE Old(m) /\ ~Delivered(m) /\ ~Held(m)
    BY <1>1, <2>4 DEF FateOf
  <2> QED BY <2>1, <2>2, <2>3, <2>4
<1>3. fates' = [m \in Message |-> IF m \in M THEN "lost" ELSE fates[m]]
  BY <1>2 DEF fates
<1>4. \A m \in M : fates[m] = "held"
  BY DEF fates
<1>5. M \in SUBSET Fate!Message
  BY DEF Message, Fate!Message
<1>6. Fate!GiveUp(M)
  BY <1>3, <1>4 DEF Fate!GiveUp, Message, Fate!Message
<1> QED BY <1>5, <1>6 DEF Fate!Next

(* A step of send(): m leaves the place it was held in. *)
LEMMA FateSent ==
  ASSUME TypeOK, NEW s \in Session, NEW m \in Message, NEW stored \in BOOLEAN,
         SendTo(s, m, stored), sent' = sent, Old(m), Held(m),
         \A n \in Message : n # m => (Held(n)' <=> Held(n)),
         Held(m)' => Held(m)
  PROVE  Fate!Next \/ UNCHANGED fates
<1>1. /\ \A t \in Session : \A i \in 1..Len(inbox'[t]) :
            \/ inbox'[t][i].msg = m
            \/ i \in 1..Len(inbox[t]) /\ inbox'[t][i] = inbox[t][i]
      /\ \A t \in Session : \A i \in 1..Len(inbox[t]) :
            i \in 1..Len(inbox'[t]) /\ inbox'[t][i] = inbox[t][i]
  BY InboxGrows
<1>2. \A n \in Message : n # m => (Delivered(n)' <=> Delivered(n))
  BY <1>1 DEF Delivered
<1>3. \A n \in Message : Old(n)' <=> Old(n)
  BY DEF Old
<1>4. \A n \in Message : n # m => FateOf(n)' = FateOf(n)
  BY <1>2, <1>3 DEF FateOf
<1>5. CASE Delivered(m)' <=> Delivered(m)
  <2>1. \A n \in Message : (Delivered(n)' <=> Delivered(n)) /\ (Held(n)' => Held(n))
    BY <1>2, <1>5
  <2> QED BY <2>1, FateGivenUp
<1>6. CASE ~(Delivered(m)' <=> Delivered(m))
  <2>1. ~Delivered(m) /\ Delivered(m)'
    BY <1>1, <1>6 DEF Delivered
  <2>2. FateOf(m) = "held" /\ FateOf(m)' = "delivered"
    BY <1>3, <2>1 DEF FateOf
  <2>3. fates' = [fates EXCEPT ![m] = "delivered"] /\ fates[m] = "held"
    BY <1>4, <2>2 DEF fates
  <2>4. Fate!Deliver(m) /\ m \in Fate!Message
    BY <2>3 DEF Fate!Deliver, Fate!Message, Message
  <2> QED BY <2>4 DEF Fate!Next
<1> QED BY <1>5, <1>6

(* find_session: the next message of p is accepted. *)
LEMMA FateAccepted ==
  ASSUME TypeOK, Base, NEW p \in Sender, NEW u \in User, FindSession(p, u)
  PROVE  Fate!Next
<1>0. <<p, sent[p] + 1>> \in Message /\ sent[p] \in Int
  BY DeliveryAssumption DEF FindSession, TypeOK, Message
<1>1. PICK new \in Message : new = <<p, sent[p] + 1>>
  BY <1>0
<1>2. /\ ~Holds(p) /\ handler'[p].msg = new /\ Holds(p)' /\ sent'[p] = sent[p] + 1
      /\ \A q \in Sender : q # p => handler'[q] = handler[q] /\ (Holds(q)' <=> Holds(q))
      /\ \A q \in Sender : q # p => sent'[q] = sent[q]
      /\ rows' = rows /\ batch' = batch /\ inbox' = inbox
      /\ new[1] = p /\ new[2] = sent[p] + 1
  BY <1>1, DeliveryAssumption DEF FindSession, TypeOK, Holds, Idle, store, receivers
<1>3. ~Old(new) /\ Old(new)'
  BY <1>0, <1>2 DEF Old
<1>4. \A m \in Message : m # new => (Old(m)' <=> Old(m))
  <2> SUFFICES ASSUME NEW m \in Message, m # new PROVE Old(m)' <=> Old(m)
    OBVIOUS
  <2>1. m[1] \in Sender /\ m[2] \in Int /\ m = <<m[1], m[2]>> /\ sent[m[1]] \in Int
    BY MessageParts DEF TypeOK
  <2>2. CASE m[1] = p
    <3>1. m[2] # sent[p] + 1
      BY <1>1, <2>1, <2>2
    <3> QED BY <1>0, <1>2, <2>1, <2>2, <3>1 DEF Old
  <2>3. CASE m[1] # p
    BY <1>2, <2>1, <2>3 DEF Old
  <2> QED BY <2>2, <2>3
<1>5. \A m \in Message : m[1] = p /\ m[2] < new[2] => Old(m)
  BY <1>0, <1>2, MessageParts DEF Old
<1>6. \A s \in Session : \A i \in 1..Len(inbox[s]) : inbox[s][i].msg # new
  BY <1>3 DEF Base, Known
<1>7. \A m \in Message : Delivered(m)' <=> Delivered(m)
  BY <1>2 DEF Delivered
<1>8. ~Delivered(new)' /\ Held(new)'
  <2>1. ~Delivered(new)'
    BY <1>2, <1>6 DEF Delivered
  <2>2. Held(new)'
    BY <1>2 DEF Held
  <2> QED BY <2>1, <2>2
<1>9. \A m \in Message : m # new => (Held(m)' <=> Held(m))
  BY <1>2 DEF Held
<1>10. FateOf(new) = "unsent" /\ FateOf(new)' = "held"
  BY <1>3, <1>8 DEF FateOf
<1>11. \A m \in Message : m # new => FateOf(m)' = FateOf(m)
  BY <1>4, <1>7, <1>9 DEF FateOf
<1>12. fates' = [fates EXCEPT ![new] = "held"] /\ fates[new] = "unsent"
  BY <1>10, <1>11 DEF fates
<1>13. \A m \in Message : m[1] = new[1] /\ m[2] < new[2] => fates[m] # "unsent"
  <2> SUFFICES ASSUME NEW m \in Message, m[1] = new[1], m[2] < new[2] PROVE FateOf(m) # "unsent"
    BY DEF fates
  <2>1. Old(m)
    BY <1>2, <1>5
  <2> QED BY <2>1, FateValues
<1>14. Fate!Accept(new) /\ new \in Fate!Message
  BY <1>12, <1>13 DEF Fate!Accept, Fate!Message, Message
<1> QED BY <1>14 DEF Fate!Next

LEMMA FateStep == TypeOK /\ Base /\ [Next]_vars => [Fate!Next]_fates
<1> SUFFICES ASSUME TypeOK, Base, [Next]_vars PROVE Fate!Next \/ UNCHANGED fates
  OBVIOUS
<1>1. ASSUME sent' = sent, inbox' = inbox, \A m \in Message : Held(m)' => Held(m)
      PROVE  Fate!Next \/ UNCHANGED fates
  <2>1. \A m \in Message : Delivered(m)' <=> Delivered(m)
    BY <1>1 DEF Delivered
  <2> QED BY <1>1, <2>1, FateGivenUp
<1>2. ASSUME NEW p \in Sender, NEW u \in User, FindSession(p, u) PROVE Fate!Next
  BY <1>2, FateAccepted
<1>3. ASSUME NEW p \in Sender, Route(p) PROVE Fate!Next \/ UNCHANGED fates
  <2> DEFINE m == handler[p].msg
  <2>1. /\ Holds(p) /\ ~Holds(p)' /\ rows' = rows /\ batch' = batch /\ sent' = sent
        /\ handler[p].session # None /\ SendTo(handler[p].session, m, FALSE)
        /\ \A q \in Sender : q # p => handler'[q] = handler[q] /\ (Holds(q)' <=> Holds(q))
    BY <1>3 DEF Route, Holds, TypeOK, store, receivers
  <2>2. m \in Message /\ handler[p].session \in Session
    BY <2>1, HandlerParts
  <2>3. Old(m)
    <3>1. m = <<p, sent[p]>> /\ sent[p] \in Int
      BY <2>1 DEF Base, Known, TypeOK
    <3> QED BY <3>1 DEF Old
  <2>4. Held(m)
    BY <2>1 DEF Held
  <2>5. \A n \in Message : n # m => (Held(n)' <=> Held(n))
    BY <2>1 DEF Held
  <2> HIDE DEF m
  <2> QED BY <2>1, <2>2, <2>3, <2>4, <2>5, FateSent
<1>4. ASSUME NEW p \in Sender, NEW a \in BOOLEAN, NEW b \in BOOLEAN, NEW c \in BOOLEAN,
             Save(p, a, b, c)
      PROVE Fate!Next \/ UNCHANGED fates
  <2> DEFINE m   == handler[p].msg
             row == [id |-> lastId + 1, to |-> handler[p].to, msg |-> m, expires |-> now + Ttl]
  <2>1. /\ Holds(p) /\ ~Holds(p)' /\ batch' = batch /\ sent' = sent /\ inbox' = inbox
        /\ rows' \subseteq rows \cup {row}
        /\ \A q \in Sender : q # p => handler'[q] = handler[q] /\ (Holds(q)' <=> Holds(q))
    BY <1>4 DEF Save, OfflineSave, Holds, TypeOK, store, receivers
  <2>2. row.msg = m
    OBVIOUS
  <2> HIDE DEF row
  <2>3. \A n \in Message : Held(n)' => Held(n)
    BY <2>1, <2>2 DEF Held
  <2> QED BY <1>1, <2>1, <2>3
<1>5. ASSUME NEW s \in Session, NEW delete \in BOOLEAN, FetchAndDelete(s, delete)
      PROVE Fate!Next \/ UNCHANGED fates
  <2>1. PICK R, read \in SUBSET rows :
           /\ rows' = rows \ R /\ handler' = handler /\ inbox' = inbox /\ sent' = sent
           /\ batch' = [batch EXCEPT ![s] = read]
    BY <1>5, FetchRemoves
  <2>2. \A t \in Session : \A r \in batch'[t] : r \in batch[t] \/ r \in rows
    BY <2>1 DEF TypeOK
  <2>3. \A n \in Message : Held(n)' => Held(n)
    BY <2>1, <2>2 DEF Held, Holds
  <2> QED BY <1>1, <2>1, <2>3
<1>6. ASSUME NEW s \in Session, SendStored(s) PROVE Fate!Next \/ UNCHANGED fates
  <2>1. PICK r \in batch[s] :
           /\ batch' = [batch EXCEPT ![s] = @ \ {r}] /\ r.msg \in Message
           /\ SendTo(s, r.msg, TRUE)
           /\ UNCHANGED <<rows, lastId, sent, phase, handler>>
    BY <1>6, SendStoredMoves
  <2>2. Old(r.msg) /\ Held(r.msg)
    BY <2>1 DEF Base, Known, Held
  <2>3. /\ \A t \in Session : \A q \in batch'[t] : q \in batch[t]
        /\ \A t \in Session : \A q \in batch[t] : q \in batch'[t] \/ q.msg = r.msg
    BY <2>1 DEF TypeOK
  <2>4. \A n \in Message : n # r.msg => (Held(n)' <=> Held(n))
    BY <2>1, <2>3 DEF Held, Holds
  <2> QED BY <2>1, <2>2, <2>4, FateSent
<1>7. ASSUME NEW s \in Session,
             (\E u \in User : CheckNickname(s, u)) \/ EnterRegistry(s) \/ Leave(s) \/ ConnectionBreaks(s)
      PROVE Fate!Next \/ UNCHANGED fates
  BY <1>1, <1>7 DEF CheckNickname, EnterRegistry, Leave, ConnectionBreaks, store, receivers, senders,
                    Held, Holds
<1>8. CASE Tick \/ UNCHANGED vars
  BY <1>1, <1>8 DEF Tick, vars, store, receivers, senders, Held, Holds
<1>9. CASE CleanupExpired
  BY <1>1, <1>9 DEF CleanupExpired, receivers, senders, Held, Holds
<1>10. CASE Restart
  BY <1>1, <1>10 DEF Restart, store, Held, Holds
<1> QED BY <1>2, <1>3, <1>4, <1>5, <1>6, <1>7, <1>8, <1>9, <1>10 DEF Next, Send, Receive

(* Whatever statements fail: a message is accepted once, in the order of   *)
(* its sender, and what becomes of it is settled once.  No restart,        *)
(* repeated fetch or eviction takes a delivery back, and nothing that was  *)
(* given up comes back.                                                    *)
THEOREM FateImplemented == Spec => Fate!Spec
<1>1. Init => TypeOK /\ Base
  BY InitType, InitBase
<1>2. Init => Fate!Init
  <2>1. Init => \A m \in Message : ~Old(m)
    BY MessageParts DEF Init, Old
  <2>2. Init => \A m \in Message : FateOf(m) = "unsent"
    BY <2>1, FateValues
  <2> QED BY <2>2 DEF Fate!Init, fates, Message, Fate!Message
<1>3. TypeOK /\ Base /\ [Next]_vars => TypeOK' /\ Base'
  BY TypeStep, BaseStep
<1> QED BY <1>1, <1>2, <1>3, FateStep, PTL DEF Spec, Fate!Spec
=============================================================================
