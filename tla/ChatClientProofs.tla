-------------------------- MODULE ChatClientProofs --------------------------
(***************************************************************************)
(* For any number of clients, conversations and messages: a thread shows   *)
(* the open conversation only, and what it was due.                        *)
(***************************************************************************)
EXTENDS ChatClient, RoomsProofs

New(m) == [type |-> "new", msg |-> m]
Read(m) == [type |-> "read", msg |-> m]

(* The history of the open conversation is on its way. *)
Awaiting(s) == \E l \in loads[s] : Current(s, l)

(* Requests: at most one is current, and until it is answered nothing is   *)
(* due.                                                                    *)
LoadHolds(s) ==
    /\ \A l \in loads[s] :
          /\ l.effect \in 1 .. opens[s]
          /\ l.read => \A m \in MsgsOf(l.page) : where[m] = l.conv
          /\ Current(s, l) => l.conv = view[s]
    /\ \A k, l \in loads[s] : k.effect = l.effect => k = l
    /\ Awaiting(s) => due[s] = {} /\ dueRead[s] = {}
    /\ loading[s] => Awaiting(s)

ThreadHolds(s) ==
    \A m \in MsgsOf(thread[s]) : where[m] = view[s] /\ where[m] # None

InboxHolds(s) == \A i \in DOMAIN inbox[s] : where[inbox[s][i].msg] # None

(* What is due is displayed, or its message:new is on the way. *)
DueHolds(s) ==
    \A m \in due[s] :
        /\ where[m] = view[s]
        /\ m \in MsgsOf(thread[s]) \/ \E i \in DOMAIN inbox[s] : inbox[s][i] = New(m)

(* What is due as read is displayed so, or its message:read is on the way, *)
(* behind a message:new if the thread does not have it yet.                *)
ReadHolds(s) ==
    \A m \in dueRead[s] :
        /\ where[m] = view[s]
        /\ \/ m \in ReadIn(thread[s])
           \/ \E i \in DOMAIN inbox[s] :
                 /\ inbox[s][i] = Read(m)
                 /\ \/ m \in MsgsOf(thread[s])
                    \/ \E j \in DOMAIN inbox[s] : j < i /\ inbox[s][j] = New(m)

ClientHolds(s) ==
    LoadHolds(s) /\ ThreadHolds(s) /\ InboxHolds(s) /\ DueHolds(s) /\ ReadHolds(s)

CInv == IInv /\ TypeOK /\ \A s \in Sockets : ClientHolds(s)

-----------------------------------------------------------------------------
(* Sequences of events and entries *)

(* The messages of a sequence, by position. *)
LEMMA MsgsByPlace ==
    ASSUME NEW q, NEW m
    PROVE  /\ m \in MsgsOf(q) <=> \E i \in DOMAIN q : q[i].msg = m
           /\ m \in ReadIn(q) <=> \E i \in DOMAIN q : q[i].msg = m /\ q[i].status = "read"
BY DEF MsgsOf, ReadIn, ToSet

(* A message read in a sequence is in it. *)
LEMMA ReadIsIn == ASSUME NEW q PROVE ReadIn(q) \subseteq MsgsOf(q)
BY MsgsByPlace

(* What a sequence of entries or events holds are messages. *)
LEMMA MsgsTyped ==
    ASSUME NEW q, q \in Seq(Entry) \/ q \in Seq(Event)
    PROVE  MsgsOf(q) \subseteq Ids /\ ReadIn(q) \subseteq Ids
<1>1. \A i \in DOMAIN q : q[i].msg \in Ids
  <2>1. CASE q \in Seq(Entry)
    <3>1. \A i \in DOMAIN q : q[i] \in Entry
      BY <2>1
    <3>2. QED BY <3>1 DEF Entry
  <2>2. CASE q \in Seq(Event)
    <3>1. \A i \in DOMAIN q : q[i] \in Event
      BY <2>2
    <3>2. QED BY <3>1 DEF Event
  <2>3. QED BY <2>1, <2>2
<1>2. MsgsOf(q) \subseteq Ids
  BY <1>1, MsgsByPlace
<1>3. QED BY <1>2, ReadIsIn

(* A page is a sequence of entries. *)
LEMMA PageIsSeq == ASSUME NEW p \in Pages PROVE p \in Seq(Entry)
<1>1. PICK n \in 0 .. MaxMsgs : p \in [1 .. n -> Entry]
  BY DEF Pages
<1>2. n \in Nat
  OBVIOUS
<1>3. QED BY <1>1, <1>2

(* An event leaves the channel: the others move up by one. *)
LEMMA TailMoves ==
    ASSUME NEW S, NEW q \in Seq(S), q # <<>>
    PROVE  /\ Head(q) \in S /\ Head(q) = q[1] /\ 1 \in DOMAIN q
           /\ Tail(q) \in Seq(S)
           /\ \A i \in DOMAIN Tail(q) : i + 1 \in DOMAIN q /\ Tail(q)[i] = q[i + 1]
           /\ \A i \in DOMAIN q : i # 1 =>
                 i - 1 \in DOMAIN Tail(q) /\ Tail(q)[i - 1] = q[i]
OBVIOUS

(* An event joins the channel behind all others. *)
LEMMA AppendAdds ==
    ASSUME NEW S, NEW q \in Seq(S), NEW e \in S
    PROVE  /\ Append(q, e) \in Seq(S)
           /\ Len(q) + 1 \in DOMAIN Append(q, e) /\ Append(q, e)[Len(q) + 1] = e
           /\ \A i \in DOMAIN q : /\ i \in DOMAIN Append(q, e)
                                  /\ Append(q, e)[i] = q[i]
                                  /\ i < Len(q) + 1
           /\ \A i \in DOMAIN Append(q, e) : i = Len(q) + 1 \/ i \in DOMAIN q
OBVIOUS

(* What the listeners make of a thread: a new message is appended, a       *)
(* receipt only ever upgrades.                                             *)
LEMMA AppliedUpgrades ==
    ASSUME NEW t \in Seq(Entry), NEW e \in Event
    PROVE  /\ Applied(t, e) \in Seq(Entry)
           /\ MsgsOf(t) \subseteq MsgsOf(Applied(t, e))
           /\ MsgsOf(Applied(t, e)) \subseteq MsgsOf(t) \cup {e.msg}
           /\ ReadIn(t) \subseteq ReadIn(Applied(t, e))
           /\ e.type = "new" => e.msg \in MsgsOf(Applied(t, e))
           /\ e.type = "read" /\ e.msg \in MsgsOf(t) => e.msg \in ReadIn(Applied(t, e))
<1> DEFINE u == Applied(t, e)
<1>1. e.msg \in Ids /\ e.type \in {"new", "delivered", "read"}
  BY DEF Event, Receipts
<1>2. CASE e.type = "new"
  <2> DEFINE x == [msg |-> e.msg, status |-> "sent"]
  <2>1. x \in Entry /\ u = Append(t, x)
    BY <1>1, <1>2 DEF Entry, Applied
  <2>2. u \in Seq(Entry)
    BY <2>1, AppendAdds
  <2>3. \A i \in DOMAIN t : i \in DOMAIN u /\ u[i] = t[i]
    BY <2>1, AppendAdds
  <2>4. \E i \in DOMAIN u : u[i] = x
    BY <2>1, AppendAdds
  <2>5. \A i \in DOMAIN u : u[i] = x \/ (i \in DOMAIN t /\ u[i] = t[i])
    BY <2>1, AppendAdds
  <2>6. x.msg = e.msg
    OBVIOUS
  <2> HIDE DEF u, x
  <2>7. e.msg \in MsgsOf(u) /\ MsgsOf(t) \subseteq MsgsOf(u) /\ ReadIn(t) \subseteq ReadIn(u)
    BY <2>3, <2>4, <2>6, MsgsByPlace
  <2>8. MsgsOf(u) \subseteq MsgsOf(t) \cup {e.msg}
    BY <2>5, <2>6, MsgsByPlace
  <2>9. QED BY <1>2, <2>2, <2>7, <2>8 DEF u
<1>3. CASE e.type # "new"
  <2>1. u = [i \in DOMAIN t |->
            IF t[i].msg = e.msg /\ (e.type = "read" \/ t[i].status = "sent")
            THEN [t[i] EXCEPT !.status = e.type] ELSE t[i]]
    BY <1>3 DEF Applied
  <2>2. DOMAIN u = DOMAIN t
    BY <2>1
  <2>3. ASSUME NEW i \in DOMAIN t
        PROVE  /\ u[i] \in Entry
               /\ u[i].msg = t[i].msg
               /\ t[i].status = "read" => u[i].status = "read"
               /\ t[i].msg = e.msg /\ e.type = "read" => u[i].status = "read"
    <3>1. t[i] \in Entry
      OBVIOUS
    <3>2. u[i] = IF t[i].msg = e.msg /\ (e.type = "read" \/ t[i].status = "sent")
                 THEN [t[i] EXCEPT !.status = e.type] ELSE t[i]
      BY <2>1
    <3> HIDE DEF u
    <3>3. QED BY <1>1, <1>3, <3>1, <3>2 DEF Entry, Receipts
  <2>4. u \in Seq(Entry)
    <3>1. DOMAIN t = 1 .. Len(t) /\ Len(t) \in Nat
      OBVIOUS
    <3>2. u \in [1 .. Len(t) -> Entry]
      BY <2>1, <2>3, <3>1
    <3> HIDE DEF u
    <3>3. QED BY <3>1, <3>2
  <2> HIDE DEF u
  <2>5. MsgsOf(t) \subseteq MsgsOf(u) /\ MsgsOf(u) \subseteq MsgsOf(t)
    BY <2>2, <2>3, MsgsByPlace
  <2>6. ReadIn(t) \subseteq ReadIn(u)
    BY <2>2, <2>3, MsgsByPlace
  <2>7. e.type = "read" /\ e.msg \in MsgsOf(t) => e.msg \in ReadIn(u)
    BY <2>2, <2>3, MsgsByPlace
  <2>8. QED BY <1>3, <2>4, <2>5, <2>6, <2>7 DEF u
<1>4. QED BY <1>2, <1>3
-----------------------------------------------------------------------------
(* Steps *)

(* Every step is one of connections and rooms, or leaves them alone. *)
LEMMA NextUsesRooms == ASSUME Next PROVE [RoomsNext]_roomVars
<1>1. CASE \E s \in Sockets, c \in Conversations : OpenThread(s, c)
  BY <1>1 DEF OpenThread, RoomsNext
<1>2. CASE \E s \in Sockets : Disconnect(s) \/ RoomStep(s)
  BY <1>2 DEF Disconnect, RoomStep, RoomsNext
<1>3. CASE \/ \E m \in Ids, c \in Conversations : Store(m, c)
           \/ \E m \in Ids : Announce(m)
           \/ \E m \in Ids, r \in Receipts : Record(m, r) \/ AnnounceReceipt(m, r)
  BY <1>3 DEF Store, Announce, Record, AnnounceReceipt
<1>4. CASE \E s \in Sockets : LoadStep(s) \/ Receive(s)
  BY <1>4 DEF LoadStep, PageRead, PageArrives, PageFails, Receive
<1>5. QED BY <1>1, <1>2, <1>3, <1>4 DEF Next

(* What is due is stored. *)
LEMMA DueIsStored ==
    ASSUME NEW s \in Sockets, ClientHolds(s), NEW m \in due[s] \cup dueRead[s]
    PROVE  where[m] # None
<1>1. CASE m \in MsgsOf(thread[s])
  BY <1>1 DEF ClientHolds, ThreadHolds
<1>2. CASE m \notin MsgsOf(thread[s])
  <2>1. m \notin ReadIn(thread[s])
    BY <1>2, ReadIsIn
  <2>2. PICK i \in DOMAIN inbox[s] : inbox[s][i] = New(m) \/ inbox[s][i] = Read(m)
    <3>1. CASE m \in due[s]
      BY <1>2, <3>1 DEF ClientHolds, DueHolds
    <3>2. CASE m \in dueRead[s]
      BY <2>1, <3>2 DEF ClientHolds, ReadHolds
    <3>3. QED BY <3>1, <3>2
  <2>3. inbox[s][i].msg = m
    BY <2>2 DEF New, Read
  <2>4. QED BY <2>3 DEF ClientHolds, InboxHolds
<1>3. QED BY <1>1, <1>2

(* A client nothing happens to keeps its part, also when messages are      *)
(* stored.                                                                 *)
LEMMA OthersKeep ==
    ASSUME NEW s \in Sockets, ClientHolds(s), TypeOK,
           view'[s] = view[s], opens'[s] = opens[s], thread'[s] = thread[s],
           loading'[s] = loading[s], loads'[s] = loads[s], inbox'[s] = inbox[s],
           due'[s] = due[s], dueRead'[s] = dueRead[s],
           \A m \in Ids : where[m] # None => where'[m] = where[m]
    PROVE  ClientHolds(s)'
<1>1. /\ thread[s] \in Seq(Entry) /\ inbox[s] \in Seq(Event)
      /\ due[s] \subseteq Ids /\ dueRead[s] \subseteq Ids
  BY DEF TypeOK
<1>2. \A i \in DOMAIN inbox[s] : inbox[s][i].msg \in Ids
  <2>1. \A i \in DOMAIN inbox[s] : inbox[s][i] \in Event
    BY <1>1
  <2>2. QED BY <2>1 DEF Event
<1>3. InboxHolds(s)'
  BY <1>2 DEF ClientHolds, InboxHolds
<1>4. ThreadHolds(s)'
  BY <1>1, MsgsTyped DEF ClientHolds, ThreadHolds
<1>5. LoadHolds(s)'
  <2>1. \A l \in loads[s] : l \in Load
    BY DEF TypeOK
  <2>2. \A l \in loads[s] : l.conv # None /\ MsgsOf(l.page) \subseteq Ids
    BY <2>1, PageIsSeq, MsgsTyped, RoomsAssumption DEF Load
  <2>3. LoadHolds(s)
    BY DEF ClientHolds
  <2>4. \A l \in loads[s] : l.read => \A m \in MsgsOf(l.page) : where'[m] = l.conv
    BY <2>2, <2>3 DEF LoadHolds
  <2>5. QED BY <2>3, <2>4 DEF LoadHolds, Awaiting, Current
<1>6. DueHolds(s)'
  <2>1. ASSUME NEW m \in due[s] PROVE where'[m] = where[m]
    BY <1>1, DueIsStored
  <2>2. QED BY <2>1 DEF ClientHolds, DueHolds
<1>7. ReadHolds(s)'
  <2>1. ASSUME NEW m \in dueRead[s] PROVE where'[m] = where[m]
    BY <1>1, DueIsStored
  <2>2. QED BY <2>1 DEF ClientHolds, ReadHolds
<1>8. QED BY <1>3, <1>4, <1>5, <1>6, <1>7 DEF ClientHolds

(* Storing messages and recording receipts change nothing at the clients,  *)
(* and neither do connections and joins.                                   *)
LEMMA QuietKeeps ==
    ASSUME CInv, [RoomsNext]_roomVars,
           \/ \E m \in Ids, c \in Conversations : Store(m, c)
           \/ \E m \in Ids, r \in Receipts : Record(m, r)
           \/ \E s \in Sockets : RoomStep(s)
    PROVE  CInv'
<1>1. /\ view' = view /\ opens' = opens
      /\ UNCHANGED clientVars
      /\ \A m \in Ids : where[m] # None => where'[m] = where[m]
  <2>1. CASE \E m \in Ids, c \in Conversations : Store(m, c)
    BY <2>1 DEF Store, roomVars, CInv, TypeOK
  <2>2. CASE \E m \in Ids, r \in Receipts : Record(m, r)
    BY <2>2 DEF Record, roomVars
  <2>3. CASE \E s \in Sockets : RoomStep(s)
    BY <2>3 DEF RoomStep, serverVars, Connect, Answer, AutoJoined, AutoJoinFails,
       JoinAnswered, JoinFails
  <2>4. QED BY <2>1, <2>2, <2>3
<1>2. TypeOK'
  <2>1. /\ where' \in [Ids -> Conversations \cup {None}]
        /\ announced' = announced /\ told' = told
        /\ reached' \in [Ids -> SUBSET Receipts]
    <3>1. CASE \E m \in Ids, c \in Conversations : Store(m, c)
      BY <3>1 DEF Store, CInv, TypeOK
    <3>2. CASE \E m \in Ids, r \in Receipts : Record(m, r)
      BY <3>2 DEF Record, CInv, TypeOK
    <3>3. CASE \E s \in Sockets : RoomStep(s)
      BY <3>3 DEF RoomStep, serverVars, CInv, TypeOK
    <3>4. QED BY <3>1, <3>2, <3>3
  <2>2. QED BY <1>1, <2>1 DEF CInv, TypeOK, clientVars
<1>3. ASSUME NEW s \in Sockets PROVE ClientHolds(s)'
  BY <1>1, OthersKeep DEF CInv, clientVars
<1>4. QED BY <1>2, <1>3, RoomsNextKeeps DEF CInv

(* A step of one client alone. *)
LEMMA OneClient ==
    ASSUME CInv, IInv', TypeOK', where' = where, NEW s \in Sockets, ClientHolds(s)',
           \A r \in Sockets : r # s =>
              /\ view'[r] = view[r] /\ opens'[r] = opens[r] /\ thread'[r] = thread[r]
              /\ loading'[r] = loading[r] /\ loads'[r] = loads[r]
              /\ inbox'[r] = inbox[r] /\ due'[r] = due[r] /\ dueRead'[r] = dueRead[r]
    PROVE  CInv'
<1>1. ASSUME NEW r \in Sockets PROVE ClientHolds(r)'
  BY OthersKeep DEF CInv
<1>2. QED BY <1>1 DEF CInv

(* Opening a conversation starts over: an empty thread, one more request.  *)
LEMMA OpenThreadKeeps ==
    ASSUME CInv, IInv', NEW s \in Sockets, NEW c \in Conversations, OpenThread(s, c)
    PROVE  CInv'
<1> DEFINE q == Request(s, c)
<1>1. opens \in [Sockets -> Nat] /\ view \in [Sockets -> Conversations \cup {None}]
  BY DEF CInv, IInv, RoomsTypeOK
<1>2. q \in Load /\ q.effect = opens[s] + 1 /\ q.conv = c /\ ~q.read
  <2>1. <<>> \in Pages
    <3>1. <<>> \in [1 .. 0 -> Entry] /\ 0 \in 0 .. MaxMsgs
      BY ChatAssumption
    <3>2. QED BY <3>1 DEF Pages
  <2>2. QED BY <1>1, <2>1 DEF Request, Load
<1> HIDE DEF q
<1>3. /\ view' = Set(view, s, c) /\ opens' = Set(opens, s, opens[s] + 1)
      /\ thread' = Set(thread, s, <<>>) /\ loading' = Set(loading, s, TRUE)
      /\ loads' = Set(loads, s, loads[s] \cup {q})
      /\ due' = Set(due, s, {}) /\ dueRead' = Set(dueRead, s, {})
      /\ UNCHANGED <<serverVars, inbox>>
  BY DEF OpenThread, Open, q
<1>4. /\ view'[s] = c /\ opens'[s] = opens[s] + 1 /\ thread'[s] = <<>>
      /\ loading'[s] /\ loads'[s] = loads[s] \cup {q} /\ due'[s] = {} /\ dueRead'[s] = {}
  BY <1>1, <1>3 DEF CInv, TypeOK, Set
<1>5. \A r \in Sockets : r # s =>
        /\ view'[r] = view[r] /\ opens'[r] = opens[r] /\ thread'[r] = thread[r]
        /\ loading'[r] = loading[r] /\ loads'[r] = loads[r]
        /\ inbox'[r] = inbox[r] /\ due'[r] = due[r] /\ dueRead'[r] = dueRead[r]
  BY <1>1, <1>3 DEF CInv, TypeOK, Set
<1>6. \A l \in loads[s] : l.effect \in 1 .. opens[s] /\ l.effect \in Nat
  BY DEF CInv, TypeOK, Load
<1>7. TypeOK'
  <2>1. loads' \in [Sockets -> SUBSET Load]
    BY <1>2, <1>3 DEF CInv, TypeOK, Set
  <2>2. thread' \in [Sockets -> Seq(Entry)]
    <3>1. <<>> \in Seq(Entry)
      OBVIOUS
    <3>2. QED BY <1>3, <3>1 DEF CInv, TypeOK, Set
  <2>3. /\ loading' \in [Sockets -> BOOLEAN] /\ due' \in [Sockets -> SUBSET Ids]
        /\ dueRead' \in [Sockets -> SUBSET Ids]
    BY <1>3 DEF CInv, TypeOK, Set
  <2>4. ASSUME NEW r \in Sockets, NEW l \in loads'[r] PROVE l.effect \in 1 .. opens'[r]
    <3>1. CASE r = s
      BY <1>1, <1>2, <1>4, <1>6, <3>1
    <3>2. CASE r # s
      BY <1>5, <3>2 DEF CInv, TypeOK
    <3>3. QED BY <3>1, <3>2
  <2>5. QED BY <1>3, <2>1, <2>2, <2>3, <2>4 DEF CInv, TypeOK, serverVars
<1>8. ClientHolds(s)'
  <2>1. LoadHolds(s)'
    <3>1. LoadHolds(s)
      BY DEF CInv, ClientHolds
    <3>2. where' = where
      BY <1>3 DEF serverVars
    <3>3. \A l \in loads'[s] :
            /\ l.effect \in 1 .. opens'[s]
            /\ l.read => \A m \in MsgsOf(l.page) : where[m] = l.conv
            /\ l.effect = opens'[s] => l = q
      BY <1>1, <1>2, <1>4, <1>6, <3>1 DEF LoadHolds
    <3>4. \A k, l \in loads'[s] : k.effect = l.effect => k = l
      BY <1>1, <1>2, <1>4, <1>6, <3>1 DEF LoadHolds
    <3>5. q \in loads'[s] /\ q.effect = opens'[s]
      BY <1>2, <1>4
    <3>6. QED BY <1>2, <1>4, <3>2, <3>3, <3>4, <3>5 DEF LoadHolds, Awaiting, Current
  <2>2. ThreadHolds(s)'
    BY <1>4, MsgsByPlace DEF ThreadHolds
  <2>3. InboxHolds(s)'
    BY <1>3 DEF CInv, ClientHolds, InboxHolds, serverVars
  <2>4. DueHolds(s)' /\ ReadHolds(s)'
    BY <1>4 DEF DueHolds, ReadHolds
  <2>5. QED BY <2>1, <2>2, <2>3, <2>4 DEF ClientHolds
<1>9. where' = where
  BY <1>3 DEF serverVars
<1>10. QED BY <1>5, <1>7, <1>8, <1>9, OneClient

(* The database reads a page of the conversation asked for. *)
LEMMA PageReadKeeps ==
    ASSUME CInv, IInv', NEW s \in Sockets, NEW l \in loads[s], PageRead(s, l)
    PROVE  CInv'
<1>1. PICK page \in Pages :
        /\ History(l.conv, page)
        /\ loads' = Set(loads, s, (loads[s] \ {l}) \cup
                           {[l EXCEPT !.read = TRUE, !.page = page]})
  BY DEF PageRead
<1> DEFINE q == [l EXCEPT !.read = TRUE, !.page = page]
<1>2. l \in Load /\ loads[s] \subseteq Load
  BY DEF CInv, TypeOK
<1>3. q \in Load /\ q.effect = l.effect /\ q.conv = l.conv /\ q.page = page
  BY <1>2 DEF Load
<1> HIDE DEF q
<1>4. loads' = Set(loads, s, (loads[s] \ {l}) \cup {q})
  BY <1>1 DEF q
<1>5. UNCHANGED <<view, opens, where, announced, reached, told, thread, loading, inbox,
                  due, dueRead>>
  BY DEF PageRead, roomVars, serverVars
<1>6. /\ loads'[s] = (loads[s] \ {l}) \cup {q}
      /\ \A r \in Sockets : r # s => loads'[r] = loads[r]
      /\ loads' \in [Sockets -> SUBSET Load]
  BY <1>2, <1>3, <1>4 DEF CInv, TypeOK, Set
<1>7. \A m \in MsgsOf(page) : where[m] = l.conv
  BY <1>1 DEF History
<1>8. TypeOK'
  <2>1. ASSUME NEW r \in Sockets, NEW k \in loads'[r] PROVE k.effect \in 1 .. opens[r]
    <3>1. CASE r = s
      BY <1>3, <1>6, <3>1 DEF CInv, TypeOK
    <3>2. CASE r # s
      BY <1>6, <3>2 DEF CInv, TypeOK
    <3>3. QED BY <3>1, <3>2
  <2>2. QED BY <1>5, <1>6, <2>1 DEF CInv, TypeOK
<1>9. LoadHolds(s)'
  <2>1. LoadHolds(s)
    BY DEF CInv, ClientHolds
  <2>2. ASSUME NEW k \in loads'[s]
        PROVE  /\ k.effect \in 1 .. opens[s]
               /\ k.read => \A m \in MsgsOf(k.page) : where[m] = k.conv
               /\ k.effect = opens[s] => k.conv = view[s]
    <3>1. CASE k = q
      BY <1>3, <1>7, <2>1, <3>1 DEF LoadHolds, Current
    <3>2. CASE k # q
      BY <1>6, <2>1, <3>2 DEF LoadHolds, Current
    <3>3. QED BY <3>1, <3>2
  <2>3. \A j, k \in loads'[s] : j.effect = k.effect => j = k
    BY <1>3, <1>6, <2>1 DEF LoadHolds
  <2>4. Awaiting(s)' <=> Awaiting(s)
    BY <1>3, <1>5, <1>6 DEF Awaiting, Current
  <2>5. QED BY <1>5, <2>1, <2>2, <2>3, <2>4 DEF LoadHolds, Current
<1>10. ClientHolds(s)'
  BY <1>5, <1>9 DEF CInv, ClientHolds, ThreadHolds, InboxHolds, DueHolds, ReadHolds
<1>11. QED BY <1>5, <1>6, <1>8, <1>10, OneClient

(* A request ends, with a page or an error. *)
LEMMA PageEndKeeps ==
    ASSUME CInv, IInv', NEW s \in Sockets, NEW l \in loads[s],
           PageArrives(s, l) \/ PageFails(s, l)
    PROVE  CInv'
<1>1. l \in Load /\ loads[s] \subseteq Load /\ l.page \in Pages
  BY DEF CInv, TypeOK, Load
<1>2. l.page \in Seq(Entry) /\ MsgsOf(l.page) \subseteq Ids /\ ReadIn(l.page) \subseteq Ids
  BY <1>1, PageIsSeq, MsgsTyped
<1>3. /\ loads' = Set(loads, s, loads[s] \ {l})
      /\ UNCHANGED <<view, opens, where, announced, reached, told, inbox>>
  BY DEF PageArrives, PageFails, roomVars, serverVars
<1>4. /\ loads'[s] = loads[s] \ {l}
      /\ \A r \in Sockets : r # s => loads'[r] = loads[r]
      /\ loads' \in [Sockets -> SUBSET Load]
  BY <1>3 DEF CInv, TypeOK, Set
<1>5. \A r \in Sockets : r # s =>
        /\ thread'[r] = thread[r] /\ loading'[r] = loading[r]
        /\ due'[r] = due[r] /\ dueRead'[r] = dueRead[r]
  BY DEF PageArrives, PageFails, CInv, TypeOK, Set
<1>6. TypeOK'
  <2>1. ASSUME NEW r \in Sockets, NEW k \in loads'[r] PROVE k.effect \in 1 .. opens[r]
    BY <1>4 DEF CInv, TypeOK
  <2>2. /\ thread' \in [Sockets -> Seq(Entry)] /\ loading' \in [Sockets -> BOOLEAN]
        /\ due' \in [Sockets -> SUBSET Ids] /\ dueRead' \in [Sockets -> SUBSET Ids]
    <3>1. CASE PageArrives(s, l) /\ Current(s, l)
      <4>1. /\ thread' = Set(thread, s, l.page) /\ loading' = Set(loading, s, FALSE)
            /\ due' = Set(due, s, due[s] \cup MsgsOf(l.page))
            /\ dueRead' = Set(dueRead, s, dueRead[s] \cup ReadIn(l.page))
        BY <3>1 DEF PageArrives
      <4>2. due[s] \cup MsgsOf(l.page) \subseteq Ids /\ dueRead[s] \cup ReadIn(l.page) \subseteq Ids
        BY <1>2 DEF CInv, TypeOK
      <4>3. QED BY <1>2, <4>1, <4>2 DEF CInv, TypeOK, Set
    <3>2. CASE ~(PageArrives(s, l) /\ Current(s, l))
      <4>1. UNCHANGED <<thread, due, dueRead>> /\ loading' \in {loading, Set(loading, s, FALSE)}
        BY <3>2 DEF PageArrives, PageFails
      <4>2. QED BY <4>1 DEF CInv, TypeOK, Set
    <3>3. QED BY <3>1, <3>2
  <2>3. QED BY <1>3, <1>4, <2>1, <2>2 DEF CInv, TypeOK
<1>7. ClientHolds(s) /\ LoadHolds(s)
  BY DEF CInv, ClientHolds
<1>8. ~Current(s, l) => /\ thread'[s] = thread[s] /\ loading'[s] = loading[s]
                        /\ due'[s] = due[s] /\ dueRead'[s] = dueRead[s]
  BY DEF PageArrives, PageFails, CInv, TypeOK, Set
<1>9. Current(s, l) => due[s] = {} /\ dueRead[s] = {} /\ l.conv = view[s]
  BY <1>7 DEF LoadHolds, Awaiting
<1>10. Current(s, l) => ~loading'[s]
  BY DEF PageArrives, PageFails, CInv, TypeOK, Set
<1>11. LoadHolds(s)'
  <2>1. ASSUME NEW k \in loads'[s], Current(s, k) PROVE ~Current(s, l)
    BY <1>4, <1>7, <2>1 DEF LoadHolds, Current
  <2>2. Awaiting(s)' => Awaiting(s) /\ ~Current(s, l)
    BY <1>3, <1>4, <2>1 DEF Awaiting, Current
  <2>3. ~Current(s, l) => (Awaiting(s) => Awaiting(s)')
    BY <1>3, <1>4 DEF Awaiting, Current
  <2>4. /\ \A k \in loads'[s] :
              /\ k.effect \in 1 .. opens[s]
              /\ k.read => \A m \in MsgsOf(k.page) : where[m] = k.conv
              /\ Current(s, k) => k.conv = view[s]
        /\ \A j, k \in loads'[s] : j.effect = k.effect => j = k
    BY <1>4, <1>7 DEF LoadHolds
  <2>5. Awaiting(s)' => due'[s] = {} /\ dueRead'[s] = {}
    BY <1>7, <1>8, <2>2 DEF LoadHolds
  <2>6. loading'[s] => Awaiting(s)'
    BY <1>7, <1>8, <1>10, <2>3 DEF LoadHolds
  <2>7. QED BY <1>3, <2>4, <2>5, <2>6 DEF LoadHolds, Current
<1>12. ThreadHolds(s)' /\ DueHolds(s)' /\ ReadHolds(s)'
  <2>1. CASE PageArrives(s, l) /\ Current(s, l)
    <3>1. /\ thread'[s] = l.page /\ due'[s] = due[s] \cup MsgsOf(l.page)
          /\ dueRead'[s] = dueRead[s] \cup ReadIn(l.page) /\ l.read
      BY <2>1 DEF PageArrives, CInv, TypeOK, Set
    <3>2. due'[s] = MsgsOf(l.page) /\ dueRead'[s] = ReadIn(l.page)
      BY <1>9, <2>1, <3>1
    <3>3. l.conv # None /\ \A m \in MsgsOf(l.page) : where[m] = view[s] /\ where[m] # None
      BY <1>1, <1>7, <1>9, <2>1, <3>1, RoomsAssumption DEF LoadHolds, Load
    <3>4. ThreadHolds(s)' /\ DueHolds(s)'
      BY <1>3, <3>1, <3>2, <3>3 DEF ThreadHolds, DueHolds
    <3>5. ReadHolds(s)'
      BY <1>3, <3>1, <3>2, <3>3, ReadIsIn DEF ReadHolds
    <3>6. QED BY <3>4, <3>5
  <2>2. CASE ~(PageArrives(s, l) /\ Current(s, l))
    <3>1. thread'[s] = thread[s] /\ due'[s] = due[s] /\ dueRead'[s] = dueRead[s]
      BY <1>8, <2>2 DEF PageArrives, PageFails
    <3>2. QED BY <1>3, <1>7, <3>1 DEF ClientHolds, ThreadHolds, DueHolds, ReadHolds
  <2>3. QED BY <2>1, <2>2
<1>13. ClientHolds(s)'
  BY <1>3, <1>7, <1>11, <1>12 DEF ClientHolds, InboxHolds
<1>14. QED BY <1>3, <1>4, <1>5, <1>6, <1>13, OneClient

(* A listener applies an event: the rest of them move up. *)
LEMMA ReceiveKeeps ==
    ASSUME CInv, IInv', NEW s \in Sockets, Receive(s)
    PROVE  CInv'
<1> DEFINE q == inbox[s]
           e == Head(inbox[s])
           t == thread'[s]
<1>1. /\ UNCHANGED <<view, opens, where, announced, reached, told, loading, loads, due,
                     dueRead>>
      /\ q # <<>> /\ q \in Seq(Event) /\ thread[s] \in Seq(Entry)
  BY DEF Receive, roomVars, serverVars, CInv, TypeOK
<1>2. /\ e \in Event /\ e = q[1] /\ 1 \in DOMAIN q /\ Tail(q) \in Seq(Event)
      /\ \A i \in DOMAIN Tail(q) : i + 1 \in DOMAIN q /\ Tail(q)[i] = q[i + 1]
      /\ \A i \in DOMAIN q : i # 1 => i - 1 \in DOMAIN Tail(q) /\ Tail(q)[i - 1] = q[i]
  BY <1>1, TailMoves
<1>3. /\ inbox'[s] = Tail(q)
      /\ \A r \in Sockets : r # s => inbox'[r] = inbox[r] /\ thread'[r] = thread[r]
      /\ inbox' \in [Sockets -> Seq(Event)]
  BY <1>2 DEF Receive, CInv, TypeOK, Set
<1>4. /\ where[e.msg] = view[s] => t = Applied(thread[s], e)
      /\ where[e.msg] # view[s] => t = thread[s]
  BY DEF Receive, CInv, TypeOK, Set
<1>5. /\ t \in Seq(Entry)
      /\ MsgsOf(thread[s]) \subseteq MsgsOf(t) /\ ReadIn(thread[s]) \subseteq ReadIn(t)
      /\ \A m \in MsgsOf(t) : m \in MsgsOf(thread[s]) \/ (m = e.msg /\ where[m] = view[s])
  BY <1>1, <1>2, <1>4, AppliedUpgrades
<1>6. TypeOK'
  <2>1. thread' \in [Sockets -> Seq(Entry)]
    BY <1>5 DEF Receive, CInv, TypeOK, Set
  <2>2. QED BY <1>1, <1>3, <2>1 DEF CInv, TypeOK
<1>7. ClientHolds(s)
  BY DEF CInv
<1>8. LoadHolds(s)'
  BY <1>1, <1>7 DEF ClientHolds, LoadHolds, Awaiting, Current
<1>9. ThreadHolds(s)'
  <2>1. where[e.msg] # None
    BY <1>2, <1>7 DEF ClientHolds, InboxHolds
  <2>2. QED BY <1>1, <1>5, <1>7, <2>1 DEF ClientHolds, ThreadHolds
<1>10. InboxHolds(s)'
  BY <1>1, <1>2, <1>3, <1>7 DEF ClientHolds, InboxHolds
<1>11. ASSUME NEW m, where[m] = view[s]
       PROVE  /\ e = New(m) => m \in MsgsOf(t)
              /\ e = Read(m) /\ m \in MsgsOf(thread[s]) => m \in ReadIn(t)
  <2>1. CASE e = New(m)
    <3>1. e.msg = m /\ e.type = "new"
      BY <2>1 DEF New
    <3>2. t = Applied(thread[s], e)
      BY <1>4, <1>11, <3>1
    <3>3. m \in MsgsOf(t)
      BY <1>1, <1>2, <3>1, <3>2, AppliedUpgrades
    <3>4. e # Read(m)
      BY <3>1 DEF Read
    <3>5. QED BY <3>3, <3>4
  <2>2. CASE e = Read(m)
    <3>1. e.msg = m /\ e.type = "read"
      BY <2>2 DEF Read
    <3>2. t = Applied(thread[s], e)
      BY <1>4, <1>11, <3>1
    <3>3. m \in MsgsOf(thread[s]) => m \in ReadIn(t)
      BY <1>1, <1>2, <3>1, <3>2, AppliedUpgrades
    <3>4. e # New(m)
      BY <3>1 DEF New
    <3>5. QED BY <3>3, <3>4
  <2>3. QED BY <2>1, <2>2
<1>12. ASSUME NEW m, NEW i \in DOMAIN q, q[i] = New(m), where[m] = view[s]
       PROVE  m \in MsgsOf(t) \/ (i - 1 \in DOMAIN inbox'[s] /\ inbox'[s][i - 1] = New(m))
  BY <1>2, <1>3, <1>11, <1>12
<1>13. DueHolds(s)'
  <2>1. ASSUME NEW m \in due[s]
        PROVE  m \in MsgsOf(t) \/ \E i \in DOMAIN inbox'[s] : inbox'[s][i] = New(m)
    BY <1>5, <1>7, <1>12 DEF ClientHolds, DueHolds
  <2>2. QED BY <1>1, <1>7, <2>1 DEF ClientHolds, DueHolds
<1>14. ReadHolds(s)'
  <2>1. ASSUME NEW m \in dueRead[s], m \notin ReadIn(t)
        PROVE  \E i \in DOMAIN inbox'[s] :
                 /\ inbox'[s][i] = Read(m)
                 /\ m \in MsgsOf(t) \/ \E j \in DOMAIN inbox'[s] : j < i /\ inbox'[s][j] = New(m)
    <3>1. where[m] = view[s] /\ m \notin ReadIn(thread[s])
      BY <1>5, <1>7, <2>1 DEF ClientHolds, ReadHolds
    <3>2. PICK i \in DOMAIN q :
            /\ q[i] = Read(m)
            /\ m \in MsgsOf(thread[s]) \/ \E j \in DOMAIN q : j < i /\ q[j] = New(m)
      BY <1>7, <2>1, <3>1 DEF ClientHolds, ReadHolds
    <3>3. i \in Nat \ {0}
      BY <1>1
    <3>4. CASE m \in MsgsOf(thread[s])
      <4>1. i # 1
        BY <1>2, <1>11, <2>1, <3>1, <3>2, <3>4
      <4>2. i - 1 \in DOMAIN inbox'[s] /\ inbox'[s][i - 1] = Read(m)
        BY <1>2, <1>3, <3>2, <4>1
      <4>3. QED BY <1>5, <3>4, <4>2
    <3>5. CASE m \notin MsgsOf(thread[s])
      <4>1. PICK j \in DOMAIN q : j < i /\ q[j] = New(m)
        BY <3>2, <3>5
      <4>2. j \in Nat \ {0} /\ i # 1
        BY <1>1, <3>3, <4>1
      <4>3. i - 1 \in DOMAIN inbox'[s] /\ inbox'[s][i - 1] = Read(m)
        BY <1>2, <1>3, <3>2, <4>2
      <4>4. m \in MsgsOf(t) \/ (j - 1 \in DOMAIN inbox'[s] /\ inbox'[s][j - 1] = New(m))
        BY <1>12, <3>1, <4>1
      <4>5. j - 1 < i - 1
        BY <3>3, <4>1, <4>2
      <4>6. QED BY <4>3, <4>4, <4>5
    <3>6. QED BY <3>4, <3>5
  <2>2. QED BY <1>1, <1>7, <2>1 DEF ClientHolds, ReadHolds
<1>15. ClientHolds(s)'
  BY <1>8, <1>9, <1>10, <1>13, <1>14 DEF ClientHolds
<1>16. QED BY <1>1, <1>3, <1>6, <1>15, OneClient

(* What was on a lost connection is not due any more. *)
LEMMA DisconnectKeeps ==
    ASSUME CInv, IInv', NEW s \in Sockets, Disconnect(s)
    PROVE  CInv'
<1>1. /\ UNCHANGED <<view, opens, where, announced, reached, told, thread, loading, loads>>
      /\ inbox'[s] = <<>> /\ due'[s] = due[s] \ MsgsOf(inbox[s])
      /\ dueRead'[s] = dueRead[s] \ MsgsOf(inbox[s])
      /\ \A r \in Sockets : r # s =>
            inbox'[r] = inbox[r] /\ due'[r] = due[r] /\ dueRead'[r] = dueRead[r]
  BY DEF Disconnect, Drop, serverVars, CInv, TypeOK, Set
<1>2. TypeOK'
  <2>1. <<>> \in Seq(Event)
    OBVIOUS
  <2>2. inbox' \in [Sockets -> Seq(Event)]
    BY <2>1 DEF Disconnect, CInv, TypeOK, Set
  <2>3. due' \in [Sockets -> SUBSET Ids] /\ dueRead' \in [Sockets -> SUBSET Ids]
    BY DEF Disconnect, CInv, TypeOK, Set
  <2>4. QED BY <1>1, <2>2, <2>3 DEF CInv, TypeOK
<1>3. ClientHolds(s)
  BY DEF CInv
<1>4. LoadHolds(s)' /\ ThreadHolds(s)' /\ InboxHolds(s)'
  BY <1>1, <1>3 DEF ClientHolds, LoadHolds, ThreadHolds, InboxHolds, Awaiting, Current
<1>5. ASSUME NEW m \in due'[s] PROVE where[m] = view[s] /\ m \in MsgsOf(thread[s])
  <2>1. m \in due[s] /\ m \notin MsgsOf(inbox[s])
    BY <1>1
  <2>2. \A i \in DOMAIN inbox[s] : inbox[s][i] # New(m)
    BY <2>1, MsgsByPlace DEF New
  <2>3. QED BY <1>3, <2>1, <2>2 DEF ClientHolds, DueHolds
<1>6. ASSUME NEW m \in dueRead'[s] PROVE where[m] = view[s] /\ m \in ReadIn(thread[s])
  <2>1. m \in dueRead[s] /\ m \notin MsgsOf(inbox[s])
    BY <1>1
  <2>2. \A i \in DOMAIN inbox[s] : inbox[s][i] # Read(m)
    BY <2>1, MsgsByPlace DEF Read
  <2>3. QED BY <1>3, <2>1, <2>2 DEF ClientHolds, ReadHolds
<1>7. DueHolds(s)' /\ ReadHolds(s)'
  BY <1>1, <1>5, <1>6 DEF DueHolds, ReadHolds
<1>8. ClientHolds(s)'
  BY <1>4, <1>7 DEF ClientHolds
<1>9. QED BY <1>1, <1>2, <1>8, OneClient

(* A client that an event is sent to still has coming what it had coming,  *)
(* in the same places.                                                     *)
LEMMA EmitAdds ==
    ASSUME TypeOK, NEW x \in Receipts \cup {"new"}, NEW m \in Ids, Emit(x, m),
           NEW s \in Sockets
    PROVE  /\ inbox'[s] \in Seq(Event)
           /\ \A i \in DOMAIN inbox[s] : i \in DOMAIN inbox'[s] /\ inbox'[s][i] = inbox[s][i]
           /\ \A i \in DOMAIN inbox'[s] :
                 i \in DOMAIN inbox[s] \/ (inbox'[s][i].msg = m /\ where[m] \in rooms[s])
           /\ where[m] \in rooms[s] => \E i \in DOMAIN inbox'[s] :
                 /\ inbox'[s][i] = [type |-> x, msg |-> m]
                 /\ \A j \in DOMAIN inbox[s] : j < i
<1> DEFINE e == [type |-> x, msg |-> m]
<1>1. e \in Event /\ e.msg = m
  BY DEF Event
<1>2. inbox[s] \in Seq(Event)
  BY DEF TypeOK
<1>3. CASE where[m] \in rooms[s]
  <2>1. inbox'[s] = Append(inbox[s], e)
    BY <1>3 DEF Emit
  <2> HIDE DEF e
  <2>2. /\ inbox'[s] \in Seq(Event)
        /\ \A i \in DOMAIN inbox[s] : i \in DOMAIN inbox'[s] /\ inbox'[s][i] = inbox[s][i]
        /\ \A i \in DOMAIN inbox'[s] : i \in DOMAIN inbox[s] \/ inbox'[s][i] = e
        /\ \E i \in DOMAIN inbox'[s] : inbox'[s][i] = e /\ \A j \in DOMAIN inbox[s] : j < i
    BY <1>1, <1>2, <2>1, AppendAdds
  <2>3. QED BY <1>1, <1>3, <2>2 DEF e
<1>4. CASE where[m] \notin rooms[s]
  <2>1. inbox'[s] = inbox[s]
    BY <1>4 DEF Emit
  <2>2. QED BY <1>2, <1>4, <2>1
<1>5. QED BY <1>3, <1>4

(* A message or a receipt is announced.  What becomes due is in the room   *)
(* and in the thread or the channel.                                       *)
LEMMA AnnounceKeeps ==
    ASSUME CInv, IInv', NEW m \in Ids,
           Announce(m) \/ \E r \in Receipts : AnnounceReceipt(m, r)
    PROVE  CInv'
<1>1. PICK x \in Receipts \cup {"new"} :
        /\ Emit(x, m)
        /\ x = "new" => Announce(m)
        /\ x # "new" => AnnounceReceipt(m, x)
  <2>1. CASE Announce(m)
    BY <2>1 DEF Announce, Receipts
  <2>2. CASE \E r \in Receipts : AnnounceReceipt(m, r)
    BY <2>2 DEF AnnounceReceipt, Receipts
  <2>3. QED BY <2>1, <2>2
<1>2. /\ UNCHANGED <<view, opens, where, thread, loading, loads>>
      /\ \A r \in Sockets :
            due'[r] = IF x = "new" /\ Hears(r, m) THEN due[r] \cup {m} ELSE due[r]
      /\ \A r \in Sockets :
            dueRead'[r] = IF x = "read" /\ Hears(r, m) THEN dueRead[r] \cup ({m} \cap due[r])
                                                      ELSE dueRead[r]
  <2>1. CASE x = "new"
    BY <1>1, <2>1 DEF Announce, roomVars
  <2>2. CASE x # "new"
    BY <1>1, <2>2 DEF AnnounceReceipt, roomVars
  <2>3. QED BY <2>1, <2>2
<1>3. TypeOK'
  <2>1. inbox' \in [Sockets -> Seq(Event)]
    BY <1>1, EmitAdds DEF Emit, CInv
  <2>2. /\ announced' \subseteq Ids /\ reached' \in [Ids -> SUBSET Receipts]
        /\ told' \in [Ids -> SUBSET Receipts]
    <3>1. CASE x = "new"
      BY <1>1, <3>1 DEF Announce, CInv, TypeOK
    <3>2. CASE x # "new"
      <4>1. x \in Receipts
        BY <3>2
      <4>2. /\ told' = [told EXCEPT ![m] = told[m] \cup {x}]
            /\ UNCHANGED <<announced, reached>>
        BY <1>1, <3>2 DEF AnnounceReceipt
      <4>3. told \in [Ids -> SUBSET Receipts] /\ told[m] \cup {x} \in SUBSET Receipts
        BY <4>1 DEF CInv, TypeOK
      <4>4. told' \in [Ids -> SUBSET Receipts]
        BY <4>2, <4>3
      <4>5. QED BY <4>2, <4>4 DEF CInv, TypeOK
    <3>3. QED BY <3>1, <3>2
  <2>3. /\ due' = [s \in Sockets |-> due'[s]] /\ dueRead' = [s \in Sockets |-> dueRead'[s]]
    <3>1. CASE x = "new"
      BY <1>1, <3>1 DEF Announce, CInv, TypeOK
    <3>2. CASE x # "new"
      BY <1>1, <3>2 DEF AnnounceReceipt, CInv, TypeOK
    <3>3. QED BY <3>1, <3>2
  <2>4. \A s \in Sockets : due'[s] \subseteq Ids /\ dueRead'[s] \subseteq Ids
    BY <1>2 DEF CInv, TypeOK
  <2>5. due' \in [Sockets -> SUBSET Ids] /\ dueRead' \in [Sockets -> SUBSET Ids]
    BY <2>3, <2>4
  <2>6. QED BY <1>2, <2>1, <2>2, <2>5 DEF CInv, TypeOK
<1>4. ASSUME NEW s \in Sockets PROVE ClientHolds(s)'
  <2>1. ClientHolds(s) /\ rooms[s] \subseteq Conversations
    BY DEF CInv, IInv, RoomsTypeOK
  <2>2. /\ \A i \in DOMAIN inbox[s] : i \in DOMAIN inbox'[s] /\ inbox'[s][i] = inbox[s][i]
        /\ \A i \in DOMAIN inbox'[s] :
              i \in DOMAIN inbox[s] \/ (inbox'[s][i].msg = m /\ where[m] \in rooms[s])
        /\ where[m] \in rooms[s] => \E i \in DOMAIN inbox'[s] :
              /\ inbox'[s][i] = [type |-> x, msg |-> m]
              /\ \A j \in DOMAIN inbox[s] : j < i
    BY <1>1, EmitAdds DEF CInv
  <2>3. Hears(s, m) => ~Awaiting(s) /\ where[m] = view[s] /\ where[m] \in rooms[s]
    BY DEF Hears, Loaded, Awaiting, Current
  <2>4. LoadHolds(s)'
    <3>1. Awaiting(s) => due'[s] = due[s] /\ dueRead'[s] = dueRead[s]
      BY <1>2, <2>3
    <3>2. QED BY <1>2, <2>1, <3>1 DEF ClientHolds, LoadHolds, Awaiting, Current
  <2>5. ThreadHolds(s)'
    BY <1>2, <2>1 DEF ClientHolds, ThreadHolds
  <2>6. InboxHolds(s)'
    <3>1. where[m] \in rooms[s] => where[m] # None
      BY <2>1, RoomsAssumption
    <3>2. QED BY <1>2, <2>1, <2>2, <3>1 DEF ClientHolds, InboxHolds
  <2>7. DueHolds(s)'
    <3>1. ASSUME NEW k \in due'[s]
          PROVE  /\ where[k] = view[s]
                 /\ k \in MsgsOf(thread[s]) \/ \E i \in DOMAIN inbox'[s] : inbox'[s][i] = New(k)
      <4>1. CASE k \in due[s]
        BY <2>1, <2>2, <4>1 DEF ClientHolds, DueHolds
      <4>2. CASE k \notin due[s]
        <5>1. k = m /\ x = "new" /\ Hears(s, m)
          BY <1>2, <3>1, <4>2
        <5>2. \E i \in DOMAIN inbox'[s] : inbox'[s][i] = New(k)
          BY <2>2, <2>3, <5>1 DEF New
        <5>3. QED BY <2>3, <5>1, <5>2
      <4>3. QED BY <4>1, <4>2
    <3>2. QED BY <1>2, <3>1 DEF DueHolds
  <2>8. ReadHolds(s)'
    <3>1. ASSUME NEW k \in dueRead'[s]
          PROVE  /\ where[k] = view[s]
                 /\ \/ k \in ReadIn(thread[s])
                    \/ \E i \in DOMAIN inbox'[s] :
                          /\ inbox'[s][i] = Read(k)
                          /\ \/ k \in MsgsOf(thread[s])
                             \/ \E j \in DOMAIN inbox'[s] : j < i /\ inbox'[s][j] = New(k)
      <4>1. CASE k \in dueRead[s]
        BY <2>1, <2>2, <4>1 DEF ClientHolds, ReadHolds
      <4>2. CASE k \notin dueRead[s]
        <5>1. k = m /\ x = "read" /\ Hears(s, m) /\ k \in due[s]
          BY <1>2, <3>1, <4>2
        <5>2. PICK i \in DOMAIN inbox'[s] :
                inbox'[s][i] = Read(k) /\ \A j \in DOMAIN inbox[s] : j < i
          BY <2>2, <2>3, <5>1 DEF Read
        <5>3. k \in MsgsOf(thread[s]) \/ \E j \in DOMAIN inbox[s] : inbox[s][j] = New(k)
          BY <2>1, <5>1 DEF ClientHolds, DueHolds
        <5>4. QED BY <2>2, <2>3, <5>1, <5>2, <5>3
      <4>3. QED BY <4>1, <4>2
    <3>2. QED BY <1>2, <3>1 DEF ReadHolds
  <2>9. QED BY <2>4, <2>5, <2>6, <2>7, <2>8 DEF ClientHolds
<1>5. QED BY <1>3, <1>4 DEF CInv

(* Initially clients have nothing open. *)
LEMMA InitChat == Init => CInv
<1> SUFFICES ASSUME Init PROVE CInv
  OBVIOUS
<1>1. IInv
  BY InitHolds DEF Init
<1>2. /\ <<>> \in Seq(Entry) /\ <<>> \in Seq(Event)
      /\ \A s \in Sockets : thread[s] = <<>> /\ inbox[s] = <<>> /\ loads[s] = {}
                            /\ due[s] = {} /\ dueRead[s] = {} /\ ~loading[s]
  BY DEF Init
<1>3. TypeOK
  BY <1>2 DEF Init, TypeOK
<1>4. ASSUME NEW s \in Sockets PROVE ClientHolds(s)
  <2>1. MsgsOf(thread[s]) = {}
    BY <1>2, MsgsByPlace
  <2>2. QED BY <1>2, <2>1 DEF ClientHolds, LoadHolds, ThreadHolds, InboxHolds, DueHolds,
     ReadHolds, Awaiting
<1>5. QED BY <1>1, <1>3, <1>4 DEF CInv

(* Every step keeps the invariant. *)
LEMMA NextKeepsChat == ASSUME CInv, [Next]_vars PROVE CInv'
<1>1. CASE UNCHANGED vars
  <2>1. UNCHANGED <<roomVars, serverVars, clientVars>>
    BY <1>1 DEF vars
  <2>2. IInv'
    BY <2>1, RoomsNextKeeps DEF CInv
  <2>3. TypeOK'
    BY <2>1 DEF serverVars, clientVars, roomVars, CInv, TypeOK
  <2>4. ASSUME NEW s \in Sockets PROVE ClientHolds(s)'
    BY <2>1, OthersKeep DEF serverVars, clientVars, roomVars, CInv
  <2>5. QED BY <2>2, <2>3, <2>4 DEF CInv
<1>2. CASE Next
  <2>1. [RoomsNext]_roomVars
    BY <1>2, NextUsesRooms
  <2>2. IInv'
    BY <2>1, RoomsNextKeeps DEF CInv
  <2>3. QED BY <1>2, <2>1, <2>2, QuietKeeps, OpenThreadKeeps, PageReadKeeps, PageEndKeeps,
     ReceiveKeeps, DisconnectKeeps, AnnounceKeeps DEF Next, LoadStep
<1>3. QED BY <1>1, <1>2

(* The invariant holds throughout. *)
LEMMA ChatInductive == Spec => []CInv
<1>1. CInv /\ [Next]_vars => CInv'
  BY NextKeepsChat
<1>2. QED BY <1>1, InitChat, PTL DEF Spec

-----------------------------------------------------------------------------
(* Theorems *)

(* The client uses connections and rooms as Rooms describes them, so the   *)
(* theorems about rooms are theorems about the chat.                       *)
THEOREM ChatUsesRooms == Spec => RoomsSpec
<1>1. Init => RoomsInit
  BY DEF Init
<1>2. [Next]_vars => [RoomsNext]_roomVars
  BY NextUsesRooms DEF vars
<1>3. QED BY <1>1, <1>2, PTL DEF Spec, RoomsSpec

(* Threads, requests and events keep their types: no request is of an      *)
(* effect that has not run.                                                *)
THEOREM ChatTypeCorrect == Spec => []TypeOK
<1>1. CInv => TypeOK
  BY DEF CInv
<1>2. QED BY <1>1, ChatInductive, PTL

(* useMessages shows messages of the open conversation only, in whatever   *)
(* order responses, events and clicks come.                                *)
THEOREM ThreadTheorem == Spec => []ThreadIsOfView
<1>1. CInv => ThreadIsOfView
  BY DEF CInv, ClientHolds, ThreadHolds, ThreadIsOfView
<1>2. QED BY <1>1, ChatInductive, PTL

(* useMessages loses nothing of its history or of what the room announced  *)
(* once the history was there, except with the connection.                 *)
THEOREM DueTheorem == Spec => []DueIsShown
<1>1. ASSUME CInv PROVE DueIsShown
  <2>1. ASSUME NEW s \in Sockets, NEW m \in due[s], m \notin MsgsOf(thread[s])
        PROVE  m \in MsgsOf(inbox[s])
    <3>1. PICK i \in DOMAIN inbox[s] : inbox[s][i] = New(m)
      BY <1>1, <2>1 DEF CInv, ClientHolds, DueHolds
    <3>2. inbox[s][i].msg = m
      BY <3>1 DEF New
    <3>3. QED BY <3>2, MsgsByPlace
  <2>2. QED BY <2>1 DEF DueIsShown
<1>2. QED BY <1>1, ChatInductive, PTL

(* onRead and onDelivered never lose a read receipt of a message the       *)
(* thread has or is about to have.                                         *)
THEOREM ReadTheorem == Spec => []ReadIsShown
<1>1. ASSUME CInv PROVE ReadIsShown
  <2>1. ASSUME NEW s \in Sockets, NEW m \in dueRead[s], m \notin ReadIn(thread[s])
        PROVE  m \in {e.msg : e \in {d \in ToSet(inbox[s]) : d.type = "read"}}
    <3>1. PICK i \in DOMAIN inbox[s] : inbox[s][i] = Read(m)
      BY <1>1, <2>1 DEF CInv, ClientHolds, ReadHolds
    <3>2. Read(m) \in ToSet(inbox[s])
      BY <3>1 DEF ToSet
    <3>3. Read(m).type = "read" /\ Read(m).msg = m
      BY DEF Read
    <3>4. QED BY <3>2, <3>3
  <2>2. QED BY <2>1 DEF ReadIsShown
<1>2. QED BY <1>1, ChatInductive, PTL

(* The loading hint always has a request of the open conversation behind   *)
(* it.                                                                     *)
THEOREM LoadingTheorem == Spec => []LoadingIsBacked
<1>1. CInv => LoadingIsBacked
  BY DEF CInv, ClientHolds, LoadHolds, Awaiting, LoadingIsBacked
<1>2. QED BY <1>1, ChatInductive, PTL
=============================================================================
