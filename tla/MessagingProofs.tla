--------------------------- MODULE MessagingProofs --------------------------
(***************************************************************************)
(* The safety of the message pipeline for any number of users, messages,   *)
(* conversations and concurrent handlers, with failures and restarts.      *)
(***************************************************************************)
EXTENDS Messaging, FiniteSetTheorems, TLAPS

Sending(s) == task[s].pc \in {"insert", "save", "publish"}

ReadByOther(m) ==
    \E u \in coveredBy[m] \cap Members[Conv(m)] : u # message[m].sender

(* What a handler in progress may rely on. *)
TaskHolds(s) ==
    /\ task[s].pc = "create" => task[s].seen \subseteq acked
    /\ task[s].pc = "insert" =>
          task[s].msg \in 1 .. Len(message) /\ status[task[s].msg] = "absent"
    /\ task[s].pc \in {"save", "publish"} =>
          task[s].msg \in Stored /\ task[s].msg \notin acked
    /\ task[s].pc = "deliver" => task[s].msg \in Stored /\ ~task[s].late
    /\ task[s].pc = "delivered" =>
          /\ task[s].msg \in Stored
          /\ \E x \in reached[task[s].msg] : x # "sent"
    /\ task[s].pc = "mark" =>
          task[s].ids \subseteq Stored /\ \A m \in task[s].ids : ReadByOther(m)
    /\ task[s].pc = "marked" =>
          /\ task[s].ids \subseteq Stored
          /\ \A m \in task[s].ids : "read" \in reached[m]

(* No two handlers send the same message. *)
Distinct ==
    \A r, s \in Slots : r # s /\ Sending(r) /\ Sending(s) => task[r].msg # task[s].msg

MessageHolds(m) ==
    /\ m > Len(message) => status[m] = "absent"
    /\ status[m] = "absent" => reached[m] = {} /\ m \notin acked
    /\ status[m] # "absent" => "sent" \in reached[m] /\ status[m] \in reached[m]
    /\ status[m] = "sent" => reached[m] = {"sent"}
    /\ status[m] = "read" => ReadByOther(m)
    /\ shown[m] = "absent" <=> m \notin acked
    /\ precedes[m] \subseteq acked \ {m}

(* The pointer a message's save leaves behind, from the save on. *)
Linked(m) == m \in acked \/ \E s \in Slots : task[s].pc = "publish" /\ task[s].msg = m

PointerHolds(m) ==
    Linked(m) => lastMessage[Conv(m)] # 0 /\ lastMessage[Conv(m)] \notin precedes[m]

IInv ==
    /\ TypeOK
    /\ \A s \in Slots : TaskHolds(s)
    /\ Distinct
    /\ \A m \in Ids : MessageHolds(m)
    /\ \A m \in Stored : PointerHolds(m)
    /\ PointerIsStored

-----------------------------------------------------------------------------
(* Facts every step shares *)

(* Nothing is taken back: documents, rows, announcements and history stay. *)
Grows ==
    /\ Len(message) <= Len(message')
    /\ \A m \in 1 .. Len(message) : message'[m] = message[m]
    /\ \A m \in Ids : status[m] # "absent" => status'[m] # "absent"
    /\ acked \subseteq acked'
    /\ \A m \in Ids : reached[m] \subseteq reached'[m]
    /\ \A m \in Ids : coveredBy[m] \subseteq coveredBy'[m]

(* The fields of a handler's record, by where it stands. *)
LEMMA TaskFields ==
    ASSUME NEW t \in Task
    PROVE  /\ t = Idle <=> t.pc = "idle"
           /\ t.pc = "create" => /\ t.user \in Users /\ t.conv \in Conversations
                                 /\ t.seen \subseteq Ids
           /\ t.pc \in {"insert", "save", "publish", "deliver", "delivered"} =>
                  t.msg \in Ids
           /\ t.pc \in {"mark", "marked"} => t.ids \subseteq Ids
BY DEF Task, Idle

(* Stored messages are created messages. *)
LEMMA StoredFacts ==
    ASSUME TypeOK
    PROVE  /\ Len(message) \in Nat
           /\ 1 .. Len(message) \subseteq Ids
           /\ \A m \in 1 .. Len(message) : message[m] \in Document
           /\ \A m : m \in Stored <=> m \in 1 .. Len(message) /\ status[m] # "absent"
           /\ Stored \subseteq Ids
<1>1. Len(message) \in Nat /\ \A m \in 1 .. Len(message) : message[m] \in Document
  BY DEF TypeOK
<1>2. 1 .. Len(message) \subseteq Ids
  BY <1>1, ModelAssumption DEF TypeOK, Ids
<1>3. QED BY <1>1, <1>2 DEF Stored

(* A message once asked for by another member stays so: the history only   *)
(* grows, and a document is never changed.                                 *)
LEMMA ReadByOtherStays ==
    ASSUME TypeOK, Grows, NEW m \in 1 .. Len(message), ReadByOther(m)
    PROVE  ReadByOther(m)'
<1>1. m \in Ids /\ message'[m] = message[m] /\ coveredBy[m] \subseteq coveredBy'[m]
  BY StoredFacts DEF Grows
<1>2. PICK u \in coveredBy[m] \cap Members[Conv(m)] : u # message[m].sender
  BY DEF ReadByOther
<1>3. u \in coveredBy'[m] \cap Members[Conv(m)'] /\ u # message'[m].sender
  BY <1>1, <1>2 DEF Conv
<1>4. QED BY <1>3 DEF ReadByOther

(* A message the database holds is never deleted. *)
LEMMA StoredStays ==
    ASSUME TypeOK, Grows, Len(message') \in Nat, NEW m \in Stored
    PROVE  m \in Stored'
<1>1. m \in 1 .. Len(message) /\ status[m] # "absent" /\ m \in Ids
  BY StoredFacts
<1>2. m \in 1 .. Len(message')
  BY <1>1, StoredFacts DEF Grows
<1>3. QED BY <1>1, <1>2 DEF Stored, Grows

(* A handler that does not move keeps what it relies on, as long as its    *)
(* own message is neither inserted nor announced by someone else.          *)
LEMMA OthersKeep ==
    ASSUME TypeOK, TypeOK', Grows, NEW r \in Slots, TaskHolds(r),
           task'[r] = task[r],
           task[r].pc = "insert" => status'[task[r].msg] = status[task[r].msg],
           task[r].pc \in {"save", "publish"} => task[r].msg \notin acked'
    PROVE  TaskHolds(r)'
<1> DEFINE t == task[r]
<1>1. t \in Task /\ task'[r] = t
  BY DEF TypeOK
<1>2. Len(message') \in Nat /\ Len(message) \in Nat /\ Len(message) <= Len(message')
  BY DEF TypeOK, Grows
<1>3. t.pc = "create" => t.seen \subseteq acked'
  BY DEF TaskHolds, Grows
<1>4. t.pc = "insert" => t.msg \in 1 .. Len(message') /\ status'[t.msg] = "absent"
  BY <1>2 DEF TaskHolds
<1>5. t.pc \in {"save", "publish"} => t.msg \in Stored' /\ t.msg \notin acked'
  BY <1>2, StoredStays DEF TaskHolds
<1>6. t.pc = "deliver" => t.msg \in Stored' /\ ~t.late
  BY <1>2, StoredStays DEF TaskHolds
<1>7. t.pc = "delivered" => t.msg \in Stored' /\ \E x \in reached'[t.msg] : x # "sent"
  <2>1. SUFFICES ASSUME t.pc = "delivered"
                 PROVE  t.msg \in Stored' /\ \E x \in reached'[t.msg] : x # "sent"
    OBVIOUS
  <2>2. t.msg \in Stored /\ t.msg \in Ids /\ \E x \in reached[t.msg] : x # "sent"
    BY <2>1, StoredFacts DEF TaskHolds
  <2>3. QED BY <2>2, <1>2, StoredStays DEF Grows
<1>8. t.pc = "mark" => t.ids \subseteq Stored' /\ \A m \in t.ids : ReadByOther(m)'
  <2>1. SUFFICES ASSUME t.pc = "mark", NEW m \in t.ids
                 PROVE  m \in Stored' /\ ReadByOther(m)'
    OBVIOUS
  <2>2. m \in Stored /\ m \in 1 .. Len(message) /\ ReadByOther(m)
    BY <2>1, StoredFacts DEF TaskHolds
  <2>3. QED BY <2>2, <1>2, StoredStays, ReadByOtherStays
<1>9. t.pc = "marked" => t.ids \subseteq Stored' /\ \A m \in t.ids : "read" \in reached'[m]
  <2>1. SUFFICES ASSUME t.pc = "marked", NEW m \in t.ids
                 PROVE  m \in Stored' /\ "read" \in reached'[m]
    OBVIOUS
  <2>2. m \in Stored /\ m \in Ids /\ "read" \in reached[m]
    BY <2>1, StoredFacts DEF TaskHolds
  <2>3. QED BY <2>2, <1>2, StoredStays DEF Grows
<1>10. QED BY <1>1, <1>3, <1>4, <1>5, <1>6, <1>7, <1>8, <1>9 DEF TaskHolds

(* Steps that send nothing and store nothing leave the pointers right. *)
LEMMA PointersUntouched ==
    ASSUME IInv, UNCHANGED <<message, lastMessage, acked, precedes>>,
           Stored' = Stored,
           \A r \in Slots : task'[r] = task[r] \/ ~Sending(r)'
    PROVE  /\ Distinct'
           /\ (\A m \in Stored : PointerHolds(m))'
           /\ PointerIsStored'
<1>1. Distinct'
  BY DEF IInv, Distinct, Sending
<1>2. ASSUME NEW m \in Stored
      PROVE  PointerHolds(m)'
  <2>1. Linked(m)' => Linked(m)
    BY DEF Linked, Sending
  <2>2. QED BY <1>2, <2>1 DEF IInv, PointerHolds, Conv
<1>3. PointerIsStored'
  BY DEF IInv, PointerIsStored, Conv
<1>4. QED BY <1>1, <1>2, <1>3

(* Steps that only move a handler, to a place it may rely on. *)
LEMMA TaskOnlyKeeps ==
    ASSUME IInv, TypeOK',
           UNCHANGED <<message, status, lastMessage, shown, acked, precedes,
                       coveredBy, reached>>,
           \A r \in Slots : task'[r] = task[r] \/ (TaskHolds(r)' /\ ~Sending(r)')
    PROVE  IInv'
<1>1. Grows
  BY DEF Grows, IInv, TypeOK
<1>2. ASSUME NEW r \in Slots PROVE TaskHolds(r)'
  <2>1. CASE task'[r] = task[r]
    BY <1>1, <2>1, OthersKeep DEF IInv, TaskHolds
  <2>2. QED BY <2>1
<1>3. ASSUME NEW m \in Ids PROVE MessageHolds(m)'
  BY <1>3 DEF IInv, MessageHolds, ReadByOther, Conv
<1>4. Stored' = Stored
  BY DEF Stored
<1>5. QED BY <1>2, <1>3, <1>4, PointersUntouched DEF IInv

-----------------------------------------------------------------------------
(* The initial state and the steps, one by one *)

(* The empty server satisfies the invariant. *)
LEMMA InitKeeps == Init => IInv
<1> SUFFICES ASSUME Init PROVE IInv
  OBVIOUS
<1> USE DEF Init
<1>1. message = <<>> /\ Len(message) = 0 /\ Stored = {}
  BY DEF Stored
<1>2. TypeOK
  BY <1>1, ModelAssumption, RateAssumption DEF TypeOK, Task, Bucket, NoBucket
<1>3. \A s \in Slots : TaskHolds(s) /\ ~Sending(s)
  BY DEF TaskHolds, Sending, Idle
<1>4. \A m \in Ids : MessageHolds(m)
  BY DEF MessageHolds
<1>5. PointerIsStored
  BY DEF PointerIsStored
<1>6. QED BY <1>1, <1>2, <1>3, <1>4, <1>5 DEF IInv, Distinct

(* Charging an allowed send keeps a bucket typed and within the limit. *)
LEMMA ChargeTypes ==
    ASSUME NEW b \in Bucket, NEW t \in Nat, b.count <= SendMax, Allows(b, t)
    PROVE  Charge(b, t) \in Bucket /\ Charge(b, t).count <= SendMax
<1>1. b.count \in Nat /\ b.windowStart \in Nat /\ SendMax \in Nat /\ SendMax >= 1
  BY RateAssumption DEF Bucket
<1>2. CASE Expired(b, t)
  BY <1>1, <1>2 DEF Charge, Bucket
<1>3. CASE ~Expired(b, t)
  <2>1. b.count < SendMax /\ Charge(b, t) = [b EXCEPT !.count = b.count + 1]
    BY <1>3 DEF Allows, Charge
  <2>2. QED BY <1>1, <2>1 DEF Bucket
<1>4. QED BY <1>2, <1>3

(* Charging a bucket that allows a send keeps every bucket within SendMax. *)
LEMMA BucketsTyped ==
    ASSUME TypeOK, NEW u \in Users, Allows(buckets[u], now),
           buckets' = [buckets EXCEPT ![u] = Charge(@, now)]
    PROVE  /\ buckets' \in [Users -> Bucket]
           /\ \A v \in Users : buckets'[v].count <= SendMax
<1>1. /\ buckets[u] \in Bucket /\ now \in Nat /\ buckets[u].count <= SendMax
      /\ buckets' = [buckets EXCEPT ![u] = Charge(buckets[u], now)]
  BY DEF TypeOK
<1>2. Charge(buckets[u], now) \in Bucket /\ Charge(buckets[u], now).count <= SendMax
  BY <1>1, ChargeTypes
<1>3. QED BY <1>1, <1>2 DEF TypeOK

(* message:send passing the limiter: a handler starts, nothing is stored   *)
(* yet.                                                                    *)
LEMMA SendKeeps ==
    ASSUME IInv, NEW s \in Slots, NEW u \in Users, NEW c \in Conversations,
           Send(s, u, c)
    PROVE  IInv'
<1> DEFINE t == [pc |-> "create", user |-> u, conv |-> c, seen |-> acked]
<1>1. /\ UNCHANGED <<now, message, status, lastMessage, shown, acked, precedes,
                     coveredBy, reached>>
      /\ task' = [task EXCEPT ![s] = t]
  BY DEF Send, Goto, clientVars, history
<1>2. t \in Task
  BY DEF IInv, TypeOK, Task
<1>3. TypeOK'
  BY <1>1, <1>2, BucketsTyped DEF IInv, TypeOK, Send
<1>4. ASSUME NEW r \in Slots
      PROVE  task'[r] = task[r] \/ (TaskHolds(r)' /\ ~Sending(r)')
  <2>1. CASE r = s
    <3>1. task'[r] = t
      BY <1>1, <2>1 DEF IInv, TypeOK
    <3>2. QED BY <1>1, <3>1 DEF TaskHolds, Sending
  <2>2. CASE r # s
    BY <1>1, <2>2 DEF IInv, TypeOK
  <2>3. QED BY <2>1, <2>2
<1>5. QED BY <1>1, <1>3, <1>4, TaskOnlyKeeps

(* A rejected message:send only charges the bucket. *)
LEMMA SendRejectedKeeps ==
    ASSUME IInv, NEW u \in Users, SendRejected(u)
    PROVE  IInv'
<1>1. UNCHANGED <<now, message, status, lastMessage, task, shown, acked, precedes,
                  coveredBy, reached>>
  BY DEF SendRejected, clientVars, history
<1>2. TypeOK'
  BY <1>1, BucketsTyped DEF IInv, TypeOK, SendRejected
<1>3. QED BY <1>1, <1>2, TaskOnlyKeeps

(* message:delivered reading a status: `late` records what it may miss. *)
LEMMA DeliveredFindKeeps ==
    ASSUME IInv, NEW s \in Slots, NEW u \in Users, NEW m \in Stored,
           DeliveredFind(s, u, m)
    PROVE  IInv'
<1> DEFINE t == IF status[m] = "sent"
                THEN [pc |-> "deliver", msg |-> m, late |-> "read" \in reached[m]]
                ELSE [pc |-> "delivered", msg |-> m]
<1>1. /\ UNCHANGED <<now, buckets, message, status, lastMessage, shown, acked,
                     precedes, coveredBy, reached>>
      /\ task' = [task EXCEPT ![s] = t]
  BY DEF DeliveredFind, Goto, clientVars, history
<1>2. m \in Ids /\ status[m] # "absent" /\ MessageHolds(m) /\ Stored' = Stored
  BY <1>1, StoredFacts DEF IInv, Stored
<1>3. t \in Task
  BY <1>2 DEF Task
<1>4. TypeOK'
  BY <1>1, <1>3 DEF IInv, TypeOK
<1>5. ASSUME NEW r \in Slots
      PROVE  task'[r] = task[r] \/ (TaskHolds(r)' /\ ~Sending(r)')
  <2>1. CASE r = s
    <3>1. task'[r] = t
      BY <1>1, <2>1 DEF IInv, TypeOK
    <3>2. CASE status[m] = "sent"
      <4>1. "read" \notin reached[m]
        BY <1>2, <3>2 DEF MessageHolds
      <4>2. /\ task'[r].pc = "deliver" /\ task'[r].msg = m
            /\ task'[r].late = ("read" \in reached[m])
        BY <3>1, <3>2
      <4>3. ~task'[r].late
        BY <4>1, <4>2
      <4>4. QED BY <1>1, <1>2, <4>2, <4>3 DEF TaskHolds, Sending
    <3>3. CASE status[m] # "sent"
      BY <1>1, <1>2, <3>1, <3>3 DEF TaskHolds, Sending, MessageHolds
    <3>4. QED BY <3>2, <3>3
  <2>2. CASE r # s
    BY <1>1, <2>2 DEF IInv, TypeOK
  <2>3. QED BY <2>1, <2>2
<1>6. QED BY <1>1, <1>4, <1>5, TaskOnlyKeeps

(* A failing call or a restart only drops handlers, and the invariant asks *)
(* nothing of handlers that are gone.                                      *)
LEMMA InterruptKeeps ==
    ASSUME IInv, (\E s \in Slots : Fail(s)) \/ Restart
    PROVE  IInv'
<1>1. /\ UNCHANGED <<now, message, status, lastMessage, shown, acked,
                     precedes, coveredBy, reached>>
      /\ buckets' \in {buckets, [u \in Users |-> NoBucket]}
      /\ task' \in [Slots -> Task]
      /\ \A r \in Slots : task'[r] = task[r] \/ task'[r] = Idle
  BY DEF Fail, Restart, Goto, clientVars, history, IInv, TypeOK, Task
<1>2. TypeOK'
  BY <1>1, RateAssumption DEF IInv, TypeOK, NoBucket, Bucket
<1>3. \A r \in Slots : task'[r] = task[r] \/ (TaskHolds(r)' /\ ~Sending(r)')
  BY <1>1 DEF TaskHolds, Sending, Idle
<1>4. QED BY <1>1, <1>2, <1>3, TaskOnlyKeeps

(* The clock, and steps that change nothing. *)
LEMMA TickKeeps ==
    ASSUME IInv, Tick \/ UNCHANGED vars
    PROVE  IInv'
<1>1. /\ UNCHANGED <<buckets, message, status, lastMessage, task, shown, acked,
                     precedes, coveredBy, reached>>
      /\ now' \in Nat
  BY DEF Tick, vars, clientVars, history, IInv, TypeOK
<1>2. TypeOK'
  BY <1>1 DEF IInv, TypeOK
<1>3. QED BY <1>1, <1>2, TaskOnlyKeeps

(* Message.create numbering a document that is not stored yet. *)
LEMMA CreateKeeps ==
    ASSUME IInv, NEW s \in Slots, Create(s)
    PROVE  IInv'
<1> DEFINE t == task[s]
           n == Len(message) + 1
           d == [conv |-> t.conv, sender |-> t.user, createdAt |-> now]
           t2 == [pc |-> "insert", msg |-> n]
<1>1. /\ t.pc = "create" /\ Len(message) < MaxMsgs
      /\ message' = Append(message, d)
      /\ precedes' = [precedes EXCEPT ![n] = t.seen]
      /\ task' = [task EXCEPT ![s] = t2]
      /\ UNCHANGED <<now, buckets, status, lastMessage, shown, acked, coveredBy, reached>>
  BY DEF Create, Goto, clientVars
<1>2. t \in Task /\ TaskHolds(s) /\ now \in Nat
  BY DEF IInv, TypeOK
<1>3. /\ t.conv \in Conversations /\ t.user \in Users /\ t.seen \subseteq Ids
      /\ t.seen \subseteq acked
  BY <1>1, <1>2, TaskFields DEF TaskHolds
<1>4. d \in Document
  BY <1>2, <1>3 DEF Document
<1>5. /\ Len(message) \in Nat /\ Len(message') = n /\ n \in Ids
      /\ message' \in Seq(Document)
      /\ \A m \in 1 .. Len(message) : message'[m] = message[m]
      /\ message'[n] = d
  BY <1>1, <1>4, ModelAssumption DEF IInv, TypeOK, Ids
<1> HIDE DEF d
<1>6. TypeOK'
  <2>1. t2 \in Task
    BY <1>5 DEF Task
  <2>2. precedes' \in [Ids -> SUBSET Ids] /\ task' \in [Slots -> Task]
    BY <1>1, <1>3, <2>1 DEF IInv, TypeOK
  <2>3. Len(message') <= MaxMsgs
    BY <1>1, <1>5, ModelAssumption
  <2>4. QED BY <1>1, <1>5, <2>2, <2>3 DEF IInv, TypeOK
<1>7. Grows
  BY <1>1, <1>5 DEF Grows, IInv, TypeOK
<1>8. MessageHolds(n) /\ status[n] = "absent" /\ n \notin acked
  BY <1>5 DEF IInv, MessageHolds
<1>9. Stored' = Stored
  <2>1. \A m : m \in Stored' <=> m \in 1 .. n /\ status[m] # "absent"
    BY <1>1, <1>5 DEF Stored
  <2>2. \A m \in 1 .. n : m # n => m \in 1 .. Len(message)
    BY <1>5
  <2>3. 1 .. Len(message) \subseteq 1 .. n
    BY <1>5
  <2>4. QED BY <1>8, <2>1, <2>2, <2>3 DEF Stored
<1>10. ASSUME NEW r \in Slots PROVE TaskHolds(r)'
  <2>1. CASE r = s
    <3>1. task'[r] = t2
      BY <1>1, <2>1 DEF IInv, TypeOK
    <3>2. n \in 1 .. Len(message') /\ status'[n] = "absent"
      BY <1>1, <1>5, <1>8
    <3>3. QED BY <3>1, <3>2 DEF TaskHolds
  <2>2. CASE r # s
    <3>1. task'[r] = task[r] /\ TaskHolds(r)
      BY <1>1, <2>2 DEF IInv, TypeOK
    <3>2. QED BY <1>1, <1>6, <1>7, <3>1, OthersKeep DEF IInv, TaskHolds
  <2>3. QED BY <2>1, <2>2
<1>11. Distinct'
  <2>1. \A r \in Slots : Sending(r) => task[r].msg \in 1 .. Len(message)
    BY StoredFacts DEF IInv, Sending, TaskHolds
  <2>2. \A r \in Slots : Sending(r) => task[r].msg # n
    BY <1>5, <2>1
  <2>3. /\ task'[s] = t2 /\ t2.msg = n
        /\ \A r \in Slots : r # s => task'[r] = task[r]
    BY <1>1 DEF IInv, TypeOK
  <2>4. QED BY <2>2, <2>3 DEF IInv, Distinct, Sending
<1>12. ASSUME NEW m \in Ids PROVE MessageHolds(m)'
  <2>1. CASE m = n
    <3>1. precedes'[m] = t.seen
      BY <1>1, <2>1 DEF IInv, TypeOK
    <3>2. QED BY <1>1, <1>3, <1>5, <1>8, <2>1, <3>1 DEF MessageHolds
  <2>2. CASE m # n
    <3>1. MessageHolds(m) /\ precedes'[m] = precedes[m] /\ m \in Nat
      BY <1>1, <2>2 DEF IInv, TypeOK, Ids
    <3>2. m > Len(message') => m > Len(message)
      BY <1>5, <3>1
    <3>3. status[m] = "read" => ReadByOther(m)'
      <4>1. SUFFICES ASSUME status[m] = "read" PROVE ReadByOther(m)'
        OBVIOUS
      <4>2. m \in 1 .. Len(message) /\ ReadByOther(m)
        BY <1>5, <3>1, <4>1 DEF MessageHolds, Ids
      <4>3. QED BY <1>7, <4>2, ReadByOtherStays DEF IInv
    <3>4. QED BY <1>1, <3>1, <3>2, <3>3 DEF MessageHolds
  <2>3. QED BY <2>1, <2>2
<1>13. ASSUME NEW m \in Stored PROVE PointerHolds(m)'
  <2>1. m \in 1 .. Len(message) /\ m # n
    BY <1>8, StoredFacts DEF IInv, Stored
  <2>2. Conv(m)' = Conv(m) /\ precedes'[m] = precedes[m]
    BY <1>1, <1>5, <2>1, StoredFacts DEF Conv, IInv, TypeOK
  <2>3. Linked(m)' => Linked(m)
    BY <1>1 DEF Linked, IInv, TypeOK
  <2>4. QED BY <1>1, <1>13, <2>2, <2>3 DEF PointerHolds, IInv
<1>14. PointerIsStored'
  <2>1. ASSUME NEW c \in Conversations, lastMessage[c] # 0
        PROVE  lastMessage[c] \in Stored' /\ Conv(lastMessage[c])' = c
    <3>1. lastMessage[c] \in Stored /\ Conv(lastMessage[c]) = c
      BY <2>1 DEF IInv, PointerIsStored
    <3>2. message'[lastMessage[c]] = message[lastMessage[c]]
      BY <1>5, <3>1, StoredFacts DEF IInv
    <3>3. QED BY <1>1, <1>9, <3>1, <3>2 DEF Conv
  <2>2. QED BY <1>1, <2>1 DEF PointerIsStored
<1>15. QED BY <1>6, <1>9, <1>10, <1>11, <1>12, <1>13, <1>14 DEF IInv

(* The insert: the document becomes a stored message with status sent. *)
LEMMA InsertKeeps ==
    ASSUME IInv, NEW s \in Slots, Insert(s)
    PROVE  IInv'
<1> DEFINE n == task[s].msg
           t2 == [pc |-> "save", msg |-> n]
<1>1. /\ task[s].pc = "insert"
      /\ status' = [status EXCEPT ![n] = "sent"]
      /\ reached' = [reached EXCEPT ![n] = @ \cup {"sent"}]
      /\ task' = [task EXCEPT ![s] = t2]
      /\ UNCHANGED <<now, buckets, message, lastMessage, shown, acked, precedes, coveredBy>>
  BY DEF Insert, Goto, clientVars
<1>2. task[s] \in Task /\ TaskHolds(s)
  BY DEF IInv, TypeOK
<1>3. n \in Ids /\ n \in 1 .. Len(message) /\ status[n] = "absent" /\ MessageHolds(n)
  BY <1>1, <1>2, TaskFields DEF TaskHolds, IInv
<1>4. reached[n] = {} /\ n \notin acked
  BY <1>3 DEF MessageHolds
<1>5. /\ status'[n] = "sent" /\ reached'[n] = {"sent"}
      /\ \A m \in Ids : m # n => status'[m] = status[m] /\ reached'[m] = reached[m]
  BY <1>1, <1>3, <1>4 DEF IInv, TypeOK
<1>6. /\ task'[s] = t2 /\ \A r \in Slots : r # s => task'[r] = task[r]
  BY <1>1 DEF IInv, TypeOK
<1>7. TypeOK'
  <2>1. t2 \in Task
    BY <1>3 DEF Task
  <2>2. QED BY <1>1, <1>3, <2>1 DEF IInv, TypeOK, DbStatus
<1>8. Grows
  BY <1>1, <1>4, <1>5 DEF Grows, IInv, TypeOK
<1>9. n \in Stored' /\ \A m \in Stored' : m = n \/ m \in Stored
  BY <1>1, <1>3, <1>5, StoredFacts DEF Stored, IInv
<1>10. \A r \in Slots : r # s /\ Sending(r) => task[r].msg # n
  BY <1>1 DEF IInv, Distinct, Sending
<1>11. ASSUME NEW r \in Slots PROVE TaskHolds(r)'
  <2>1. CASE r = s
    BY <1>1, <1>4, <1>6, <1>9, <2>1 DEF TaskHolds
  <2>2. CASE r # s
    <3>1. task'[r] = task[r] /\ TaskHolds(r) /\ task[r] \in Task
      BY <1>6, <2>2 DEF IInv, TypeOK
    <3>2. task[r].pc = "insert" => status'[task[r].msg] = status[task[r].msg]
      BY <1>5, <1>10, <2>2, <3>1, TaskFields DEF Sending
    <3>3. QED BY <1>1, <1>7, <1>8, <3>1, <3>2, OthersKeep DEF IInv, TaskHolds
  <2>3. QED BY <2>1, <2>2
<1>12. Distinct'
  BY <1>6, <1>10 DEF IInv, Distinct, Sending
<1>13. ASSUME NEW m \in Ids PROVE MessageHolds(m)'
  <2>1. CASE m = n
    <3>1. n <= Len(message) /\ Len(message) \in Nat
      BY <1>3, StoredFacts DEF IInv
    <3>2. ~(n > Len(message'))
      BY <1>1, <3>1, <1>3
    <3>3. QED BY <1>1, <1>3, <1>5, <2>1, <3>2 DEF MessageHolds
  <2>2. CASE m # n
    BY <1>1, <1>5, <2>2 DEF MessageHolds, IInv, ReadByOther, Conv
  <2>3. QED BY <2>1, <2>2
<1>14. ASSUME NEW m \in Stored' PROVE PointerHolds(m)'
  <2>1. CASE m = n
    <3>1. ~Linked(m)'
      <4>1. \A r \in Slots : task'[r].pc = "publish" => task'[r].msg # m
        BY <1>6, <1>10, <2>1 DEF Sending
      <4>2. QED BY <1>1, <1>4, <2>1, <4>1 DEF Linked
    <3>2. QED BY <3>1 DEF PointerHolds
  <2>2. CASE m # n
    <3>1. m \in Stored /\ PointerHolds(m)
      BY <1>9, <2>2 DEF IInv
    <3>2. Linked(m)' => Linked(m)
      BY <1>1, <1>6 DEF Linked
    <3>3. QED BY <1>1, <3>1, <3>2 DEF PointerHolds, Conv
  <2>3. QED BY <2>1, <2>2
<1>15. PointerIsStored'
  BY <1>1, <1>8, StoredStays, StoredFacts DEF IInv, PointerIsStored, Conv
<1>16. QED BY <1>7, <1>11, <1>12, <1>13, <1>14, <1>15 DEF IInv

(* conversation.save(): the pointer moves to a message that is stored and  *)
(* that nobody has acknowledged yet.                                       *)
LEMMA SavePointerKeeps ==
    ASSUME IInv, NEW s \in Slots, SavePointer(s)
    PROVE  IInv'
<1> DEFINE n == task[s].msg
           c == Conv(n)
           t2 == [pc |-> "publish", msg |-> n]
<1>1. /\ task[s].pc = "save"
      /\ lastMessage' = [lastMessage EXCEPT ![c] = n]
      /\ task' = [task EXCEPT ![s] = t2]
      /\ UNCHANGED <<now, buckets, message, status, shown, acked, precedes,
                     coveredBy, reached>>
  BY DEF SavePointer, Goto, clientVars, history
<1>2. n \in Stored /\ n \notin acked /\ n \in Ids /\ c \in Conversations
  BY <1>1, StoredFacts DEF IInv, TaskHolds, Conv, Document
<1>3. /\ task'[s] = t2 /\ \A r \in Slots : r # s => task'[r] = task[r]
  BY <1>1 DEF IInv, TypeOK
<1>4. /\ lastMessage'[c] = n
      /\ \A e \in Conversations : e # c => lastMessage'[e] = lastMessage[e]
  BY <1>1, <1>2 DEF IInv, TypeOK
<1>5. TypeOK'
  <2>1. t2 \in Task
    BY <1>2 DEF Task
  <2>2. QED BY <1>1, <1>2, <2>1 DEF IInv, TypeOK
<1>6. Grows /\ Stored' = Stored
  BY <1>1 DEF Grows, IInv, TypeOK, Stored
<1>7. ASSUME NEW r \in Slots PROVE TaskHolds(r)'
  <2>1. CASE r = s
    BY <1>1, <1>2, <1>3, <1>6, <2>1 DEF TaskHolds
  <2>2. CASE r # s
    BY <1>1, <1>3, <1>5, <1>6, <2>2, OthersKeep DEF IInv, TaskHolds
  <2>3. QED BY <2>1, <2>2
<1>8. Distinct'
  BY <1>1, <1>3 DEF IInv, Distinct, Sending
<1>9. ASSUME NEW m \in Ids PROVE MessageHolds(m)'
  BY <1>1 DEF MessageHolds, IInv, ReadByOther, Conv
<1>10. ASSUME NEW m \in Stored PROVE PointerHolds(m)'
  <2>1. m \in Ids /\ MessageHolds(m) /\ Conv(m) \in Conversations /\ PointerHolds(m)
    BY <1>10, StoredFacts DEF IInv, Conv, Document
  <2>2. CASE Conv(m) = c
    <3>1. lastMessage'[Conv(m)] = n /\ n # 0
      BY <1>2, <1>4, <2>2 DEF Ids
    <3>2. n \notin precedes[m]
      BY <1>2, <2>1 DEF MessageHolds
    <3>3. QED BY <1>1, <3>1, <3>2 DEF PointerHolds, Conv
  <2>3. CASE Conv(m) # c
    <3>1. m # n /\ lastMessage'[Conv(m)] = lastMessage[Conv(m)]
      BY <1>4, <2>1, <2>3
    <3>2. Linked(m)' => Linked(m)
      BY <1>1, <1>3, <3>1 DEF Linked
    <3>3. QED BY <1>1, <2>1, <3>1, <3>2 DEF PointerHolds, Conv
  <2>4. QED BY <2>2, <2>3
<1>11. PointerIsStored'
  <2>1. ASSUME NEW e \in Conversations, lastMessage'[e] # 0
        PROVE  lastMessage'[e] \in Stored /\ Conv(lastMessage'[e]) = e
    BY <1>2, <1>4, <2>1 DEF IInv, PointerIsStored
  <2>2. QED BY <1>1, <1>6, <2>1 DEF PointerIsStored, Conv
<1>12. QED BY <1>5, <1>6, <1>7, <1>8, <1>9, <1>10, <1>11 DEF IInv

(* The announcement: the message is acknowledged once the pointer has      *)
(* passed every message acknowledged before its send began.                *)
LEMMA PublishKeeps ==
    ASSUME IInv, NEW s \in Slots, Publish(s)
    PROVE  IInv'
<1> DEFINE n == task[s].msg
<1>1. /\ task[s].pc = "publish"
      /\ shown' = [shown EXCEPT ![n] = "sent"]
      /\ acked' = acked \cup {n}
      /\ task' = [task EXCEPT ![s] = Idle]
      /\ UNCHANGED <<now, buckets, message, status, lastMessage, precedes,
                     coveredBy, reached>>
  BY DEF Publish, Goto, history
<1>2. n \in Stored /\ n \notin acked /\ n \in Ids /\ status[n] # "absent"
  BY <1>1, StoredFacts DEF IInv, TaskHolds
<1>3. /\ task'[s] = Idle /\ \A r \in Slots : r # s => task'[r] = task[r]
  BY <1>1 DEF IInv, TypeOK
<1>4. TypeOK'
  BY <1>1, <1>2 DEF IInv, TypeOK, Task, DbStatus
<1>5. Grows /\ Stored' = Stored
  BY <1>1 DEF Grows, IInv, TypeOK, Stored
<1>6. \A r \in Slots : r # s /\ Sending(r) => task[r].msg # n
  BY <1>1 DEF IInv, Distinct, Sending
<1>7. ASSUME NEW r \in Slots PROVE TaskHolds(r)'
  <2>1. CASE r = s
    BY <1>3, <2>1 DEF TaskHolds, Idle
  <2>2. CASE r # s
    <3>1. task[r].pc \in {"save", "publish"} => task[r].msg \notin acked'
      BY <1>1, <1>6, <2>2 DEF IInv, TaskHolds, Sending
    <3>2. QED BY <1>1, <1>3, <1>4, <1>5, <2>2, <3>1, OthersKeep DEF IInv
  <2>3. QED BY <2>1, <2>2
<1>8. Distinct'
  BY <1>3 DEF IInv, Distinct, Sending, Idle
<1>9. ASSUME NEW m \in Ids PROVE MessageHolds(m)'
  <2>1. MessageHolds(m)
    BY DEF IInv
  <2>2. CASE m = n
    <3>1. shown'[m] = "sent" /\ m \in acked'
      BY <1>1, <1>2, <2>2 DEF IInv, TypeOK
    <3>2. QED BY <1>1, <1>2, <2>1, <2>2, <3>1 DEF MessageHolds, ReadByOther, Conv
  <2>3. CASE m # n
    <3>1. shown'[m] = shown[m] /\ (m \in acked' <=> m \in acked)
      BY <1>1, <2>3 DEF IInv, TypeOK
    <3>2. QED BY <1>1, <2>1, <3>1 DEF MessageHolds, ReadByOther, Conv
  <2>4. QED BY <2>2, <2>3
<1>10. ASSUME NEW m \in Stored PROVE PointerHolds(m)'
  <2>1. Linked(m)' => Linked(m)
    BY <1>1, <1>3 DEF Linked, Idle
  <2>2. QED BY <1>1, <1>10, <2>1 DEF PointerHolds, Conv, IInv
<1>11. PointerIsStored'
  BY <1>1, <1>5 DEF IInv, PointerIsStored, Conv
<1>12. QED BY <1>4, <1>5, <1>7, <1>8, <1>9, <1>10, <1>11 DEF IInv

(* message.save() of a receipt, which may overwrite a read status. *)
LEMMA DeliveredSaveKeeps ==
    ASSUME IInv, NEW s \in Slots, DeliveredSave(s)
    PROVE  IInv'
<1> DEFINE n == task[s].msg
           t2 == [pc |-> "delivered", msg |-> n]
<1>1. /\ task[s].pc = "deliver"
      /\ status' = [status EXCEPT ![n] = "delivered"]
      /\ reached' = [reached EXCEPT ![n] = @ \cup {"delivered"}]
      /\ task' = [task EXCEPT ![s] = t2]
      /\ UNCHANGED <<now, buckets, message, lastMessage, shown, acked, precedes, coveredBy>>
  BY DEF DeliveredSave, Goto, clientVars
<1>2. n \in Stored /\ n \in Ids /\ n \in 1 .. Len(message) /\ status[n] # "absent"
  BY <1>1, StoredFacts DEF IInv, TaskHolds
<1>3. /\ status'[n] = "delivered" /\ reached'[n] = reached[n] \cup {"delivered"}
      /\ \A m \in Ids : m # n => status'[m] = status[m] /\ reached'[m] = reached[m]
      /\ task'[s] = t2 /\ \A r \in Slots : r # s => task'[r] = task[r]
  BY <1>1, <1>2 DEF IInv, TypeOK
<1>4. TypeOK'
  <2>1. t2 \in Task
    BY <1>2 DEF Task
  <2>2. QED BY <1>1, <1>2, <2>1 DEF IInv, TypeOK, DbStatus
<1>5. Grows
  BY <1>1, <1>3 DEF Grows, IInv, TypeOK
<1>6. Stored' = Stored
  BY <1>1, <1>2, <1>3, StoredFacts DEF Stored, IInv
<1>7. ASSUME NEW r \in Slots PROVE TaskHolds(r)'
  <2>1. CASE r = s
    <3>1. task'[r].pc = "delivered" /\ task'[r].msg = n
      BY <1>3, <2>1
    <3>2. n \in Stored' /\ "delivered" \in reached'[n] /\ "delivered" # "sent"
      BY <1>2, <1>3, <1>6
    <3>3. QED BY <3>1, <3>2 DEF TaskHolds
  <2>2. CASE r # s
    <3>1. task[r].pc = "insert" => status'[task[r].msg] = status[task[r].msg]
      BY <1>2, <1>3, StoredFacts DEF IInv, TaskHolds
    <3>2. QED BY <1>1, <1>3, <1>4, <1>5, <2>2, <3>1, OthersKeep DEF IInv, TaskHolds
  <2>3. QED BY <2>1, <2>2
<1>8. ASSUME NEW m \in Ids PROVE MessageHolds(m)'
  <2>1. MessageHolds(m)
    BY DEF IInv
  <2>2. CASE m = n
    <3>1. ~(m > Len(message))
      BY <1>2, <2>2, StoredFacts DEF IInv
    <3>2. QED BY <1>1, <1>2, <1>3, <2>1, <2>2, <3>1 DEF MessageHolds
  <2>3. CASE m # n
    BY <1>1, <1>3, <2>1, <2>3 DEF MessageHolds, ReadByOther, Conv
  <2>4. QED BY <2>2, <2>3
<1>9. \A r \in Slots : task'[r] = task[r] \/ ~Sending(r)'
  BY <1>3 DEF Sending
<1>10. QED BY <1>1, <1>4, <1>6, <1>7, <1>8, <1>9, PointersUntouched DEF IInv

(* The handlers that are not the one that moves, when the move stores no   *)
(* row, announces no message and only adds to the history.                 *)
LEMMA EmitKeeps ==
    ASSUME IInv, NEW s \in Slots, task[s].pc \in {"delivered", "marked"},
           task' = [task EXCEPT ![s] = Idle],
           shown' \in [Ids -> DbStatus \cup {"absent"}],
           \A m \in Ids : shown'[m] = "absent" <=> shown[m] = "absent",
           UNCHANGED <<now, buckets, message, status, lastMessage, acked, precedes,
                       coveredBy, reached>>
    PROVE  IInv'
<1>1. /\ task'[s] = Idle /\ \A r \in Slots : r # s => task'[r] = task[r]
  BY DEF IInv, TypeOK
<1>2. TypeOK'
  BY DEF IInv, TypeOK, Task
<1>3. Grows /\ Stored' = Stored
  BY DEF Grows, IInv, TypeOK, Stored
<1>4. ASSUME NEW r \in Slots PROVE TaskHolds(r)'
  <2>1. CASE r = s
    BY <1>1, <2>1 DEF TaskHolds, Idle
  <2>2. CASE r # s
    BY <1>1, <1>2, <1>3, <2>2, OthersKeep DEF IInv, TaskHolds
  <2>3. QED BY <2>1, <2>2
<1>5. ASSUME NEW m \in Ids PROVE MessageHolds(m)'
  BY DEF MessageHolds, IInv, ReadByOther, Conv
<1>6. \A r \in Slots : task'[r] = task[r] \/ ~Sending(r)'
  BY <1>1 DEF Sending, Idle
<1>7. QED BY <1>2, <1>3, <1>4, <1>5, <1>6, PointersUntouched DEF IInv

(* message:delivered reaching the room changes displays only. *)
LEMMA DeliveredEmitKeeps ==
    ASSUME IInv, NEW s \in Slots, DeliveredEmit(s)
    PROVE  IInv'
<1>1. /\ task[s].pc = "delivered"
      /\ shown' = [shown EXCEPT ![task[s].msg] =
                      IF @ = "sent" THEN "delivered" ELSE @]
      /\ task' = [task EXCEPT ![s] = Idle]
      /\ UNCHANGED <<now, buckets, message, status, lastMessage, acked, precedes,
                     coveredBy, reached>>
  BY DEF DeliveredEmit, Goto, history
<1>2. /\ shown' \in [Ids -> DbStatus \cup {"absent"}]
      /\ \A m \in Ids : shown'[m] = "absent" <=> shown[m] = "absent"
  BY <1>1 DEF IInv, TypeOK, DbStatus
<1>3. QED BY <1>1, <1>2, EmitKeeps

(* message:read reaching the room changes displays only. *)
LEMMA ReadEmitKeeps ==
    ASSUME IInv, NEW s \in Slots, ReadEmit(s)
    PROVE  IInv'
<1>1. /\ task[s].pc = "marked"
      /\ shown' = [m \in Ids |->
            IF m \in task[s].ids /\ shown[m] # "absent" THEN "read" ELSE shown[m]]
      /\ task' = [task EXCEPT ![s] = Idle]
      /\ UNCHANGED <<now, buckets, message, status, lastMessage, acked, precedes,
                     coveredBy, reached>>
  BY DEF ReadEmit, Goto, history
<1>2. /\ shown' \in [Ids -> DbStatus \cup {"absent"}]
      /\ \A m \in Ids : shown'[m] = "absent" <=> shown[m] = "absent"
  BY <1>1 DEF IInv, TypeOK, DbStatus
<1>3. QED BY <1>1, <1>2, EmitKeeps

(* message:read collecting the messages to mark, none of them sent by the  *)
(* reader.                                                                 *)
LEMMA ReadFindKeeps ==
    ASSUME IInv, NEW s \in Slots, NEW u \in Users, NEW n \in Stored,
           ReadFind(s, u, n)
    PROVE  IInv'
<1> DEFINE ids == ToMark(u, n)
           t2 == IF ids = {} THEN Idle ELSE [pc |-> "mark", ids |-> ids]
<1>1. /\ u \in Members[Conv(n)]
      /\ coveredBy' = [k \in Ids |-> IF k \in Covered(n) THEN coveredBy[k] \cup {u}
                                                        ELSE coveredBy[k]]
      /\ task' = [task EXCEPT ![s] = t2]
      /\ UNCHANGED <<now, buckets, message, status, lastMessage, shown, acked,
                     precedes, reached>>
  BY DEF ReadFind, Goto, clientVars
<1>2. ids \subseteq Stored /\ Stored \subseteq Ids
  BY StoredFacts DEF IInv, ToMark, Covered
<1>3. /\ task'[s] = t2 /\ \A r \in Slots : r # s => task'[r] = task[r]
  BY <1>1 DEF IInv, TypeOK
<1>4. TypeOK'
  <2>1. t2 \in Task
    BY <1>2 DEF Task
  <2>2. coveredBy' \in [Ids -> SUBSET Users]
    BY <1>1 DEF IInv, TypeOK
  <2>3. QED BY <1>1, <2>1, <2>2 DEF IInv, TypeOK
<1>5. Grows /\ Stored' = Stored
  BY <1>1 DEF Grows, IInv, TypeOK, Stored
<1>6. ASSUME NEW k \in ids PROVE ReadByOther(k)'
  <2>1. k \in Covered(n) /\ k \in Ids /\ Conv(k) = Conv(n) /\ message[k].sender # u
    BY <1>2 DEF ToMark, Covered
  <2>2. u \in coveredBy'[k] /\ u \in Members[Conv(k)]
    BY <1>1, <2>1
  <2>3. QED BY <1>1, <2>1, <2>2 DEF ReadByOther, Conv
<1>7. ASSUME NEW r \in Slots PROVE TaskHolds(r)'
  <2>1. CASE r = s
    <3>1. CASE ids = {}
      BY <1>3, <2>1, <3>1 DEF TaskHolds, Idle
    <3>2. CASE ids # {}
      <4>1. task'[r].pc = "mark" /\ task'[r].ids = ids
        BY <1>3, <2>1, <3>2
      <4>2. ids \subseteq Stored' /\ \A k \in ids : ReadByOther(k)'
        BY <1>2, <1>5, <1>6
      <4> HIDE DEF ids
      <4>3. QED BY <4>1, <4>2 DEF TaskHolds
    <3>3. QED BY <3>1, <3>2
  <2>2. CASE r # s
    BY <1>1, <1>3, <1>4, <1>5, <2>2, OthersKeep DEF IInv, TaskHolds
  <2>3. QED BY <2>1, <2>2
<1>8. ASSUME NEW m \in Ids PROVE MessageHolds(m)'
  <2>1. MessageHolds(m)
    BY DEF IInv
  <2>2. status[m] = "read" => ReadByOther(m)'
    <3>1. SUFFICES ASSUME status[m] = "read" PROVE ReadByOther(m)'
      OBVIOUS
    <3>2. m \in 1 .. Len(message) /\ ReadByOther(m)
      BY <2>1, <3>1, StoredFacts DEF MessageHolds, IInv, Ids
    <3>3. QED BY <1>5, <3>2, ReadByOtherStays DEF IInv
  <2>3. QED BY <1>1, <2>1, <2>2 DEF MessageHolds
<1>9. \A r \in Slots : task'[r] = task[r] \/ ~Sending(r)'
  BY <1>3 DEF Sending, Idle
<1>10. QED BY <1>1, <1>4, <1>5, <1>7, <1>8, <1>9, PointersUntouched DEF IInv

(* updateMany: messages become read only after another member asked. *)
LEMMA ReadUpdateKeeps ==
    ASSUME IInv, NEW s \in Slots, ReadUpdate(s)
    PROVE  IInv'
<1> DEFINE ids == task[s].ids
           ch == {m \in ids : status[m] # "read"}
           t2 == [pc |-> "marked", ids |-> ids, changed |-> ch]
<1>1. /\ task[s].pc = "mark"
      /\ status' = [m \in Ids |-> IF m \in ids THEN "read" ELSE status[m]]
      /\ reached' = [m \in Ids |-> IF m \in ids THEN reached[m] \cup {"read"}
                                                 ELSE reached[m]]
      /\ task' = [task EXCEPT ![s] = t2]
      /\ UNCHANGED <<now, buckets, message, lastMessage, shown, acked, precedes, coveredBy>>
  BY DEF ReadUpdate, Goto, clientVars
<1>2. /\ ids \subseteq Stored /\ ids \subseteq Ids
      /\ \A m \in ids : ReadByOther(m) /\ status[m] # "absent"
  BY <1>1, StoredFacts DEF IInv, TaskHolds
<1>3. /\ task'[s] = t2 /\ \A r \in Slots : r # s => task'[r] = task[r]
  BY <1>1 DEF IInv, TypeOK
<1>4. TypeOK'
  <2>1. t2 \in Task
    BY <1>2 DEF Task
  <2>2. /\ status' \in [Ids -> DbStatus \cup {"absent"}]
        /\ reached' \in [Ids -> SUBSET DbStatus]
    BY <1>1 DEF IInv, TypeOK, DbStatus
  <2>3. QED BY <1>1, <2>1, <2>2 DEF IInv, TypeOK
<1>5. Grows
  BY <1>1 DEF Grows, IInv, TypeOK
<1>6. Stored' = Stored
  <2>1. \A m \in Ids : status'[m] # "absent" <=> status[m] # "absent"
    BY <1>1, <1>2
  <2>2. \A m \in 1 .. Len(message) : m \in Ids
    BY StoredFacts DEF IInv
  <2>3. QED BY <1>1, <2>1, <2>2 DEF Stored
<1>7. ASSUME NEW r \in Slots PROVE TaskHolds(r)'
  <2>1. CASE r = s
    <3>1. task'[r].pc = "marked" /\ task'[r].ids = ids
      BY <1>3, <2>1
    <3>2. ids \subseteq Stored' /\ \A m \in ids : "read" \in reached'[m]
      BY <1>1, <1>2, <1>6
    <3>3. QED BY <3>1, <3>2 DEF TaskHolds
  <2>2. CASE r # s
    <3>1. task[r].pc = "insert" => status'[task[r].msg] = status[task[r].msg]
      <4>1. SUFFICES ASSUME task[r].pc = "insert"
                     PROVE  status'[task[r].msg] = status[task[r].msg]
        OBVIOUS
      <4>2. task[r].msg \in Ids /\ status[task[r].msg] = "absent"
        BY <4>1, StoredFacts DEF IInv, TaskHolds
      <4>3. QED BY <1>1, <1>2, <4>2
    <3>2. QED BY <1>1, <1>3, <1>4, <1>5, <2>2, <3>1, OthersKeep DEF IInv, TaskHolds
  <2>3. QED BY <2>1, <2>2
<1>8. ASSUME NEW m \in Ids PROVE MessageHolds(m)'
  <2>1. MessageHolds(m)
    BY DEF IInv
  <2>2. CASE m \in ids
    <3>1. ~(m > Len(message)) /\ ReadByOther(m)' /\ status[m] # "absent"
      BY <1>1, <1>2, <2>2, StoredFacts DEF IInv, ReadByOther, Conv
    <3>2. status'[m] = "read" /\ reached'[m] = reached[m] \cup {"read"}
      BY <1>1, <2>2
    <3>3. QED BY <1>1, <2>1, <3>1, <3>2 DEF MessageHolds
  <2>3. CASE m \notin ids
    BY <1>1, <2>1, <2>3 DEF MessageHolds, ReadByOther, Conv
  <2>4. QED BY <2>2, <2>3
<1>9. \A r \in Slots : task'[r] = task[r] \/ ~Sending(r)'
  BY <1>3 DEF Sending
<1>10. QED BY <1>1, <1>4, <1>6, <1>7, <1>8, <1>9, PointersUntouched DEF IInv

-----------------------------------------------------------------------------
(* What the inductive invariant shows *)

(* The invariant is inductive: one lemma above for each action. *)
LEMMA NextKeeps == IInv /\ [Next]_vars => IInv'
<1> SUFFICES ASSUME IInv, [Next]_vars PROVE IInv'
  OBVIOUS
<1>1. ASSUME NEW s \in Slots, Step(s) PROVE IInv'
  BY <1>1, CreateKeeps, InsertKeeps, SavePointerKeeps, PublishKeeps, DeliveredSaveKeeps,
     DeliveredEmitKeeps, ReadUpdateKeeps, ReadEmitKeeps DEF Step
<1>2. ASSUME NEW s \in Slots, NEW u \in Users, NEW m \in Stored,
             DeliveredFind(s, u, m) \/ ReadFind(s, u, m)
      PROVE  IInv'
  BY <1>2, DeliveredFindKeeps, ReadFindKeeps
<1>3. QED BY <1>1, <1>2, SendKeeps, SendRejectedKeeps, InterruptKeeps, TickKeeps DEF Next

(* Every reachable state of the pipeline satisfies the invariant. *)
LEMMA Inductive == Spec => []IInv
<1>1. QED BY InitKeeps, NextKeeps, PTL DEF Spec

(* Types, and no bucket beyond the limit. *)
THEOREM TypeCorrect == Spec => []TypeOK
<1>1. IInv => TypeOK
  BY DEF IInv
<1>2. QED BY <1>1, Inductive, PTL

(* Read means that another member asked for it. *)
THEOREM ReadersTheorem == Spec => []ReadOnlyByOtherMembers
<1>1. IInv => ReadOnlyByOtherMembers
  BY StoredFacts DEF IInv, MessageHolds, ReadByOther, ReadOnlyByOtherMembers
<1>2. QED BY <1>1, Inductive, PTL

(* However sends overlap, fail or die with the process, lastMessage of a   *)
(* conversation never falls behind a send that began after it was acked.   *)
THEOREM PointerTheorem == Spec => []PointerSurvivesLaterSends
<1>1. ASSUME IInv, NEW m \in acked
      PROVE  lastMessage[Conv(m)] # 0 /\ lastMessage[Conv(m)] \notin precedes[m]
  <2>1. m \in Ids /\ MessageHolds(m) /\ status[m] # "absent"
    BY <1>1 DEF IInv, TypeOK, MessageHolds
  <2>2. m \in 1 .. Len(message)
    BY <1>1, <2>1, StoredFacts DEF IInv, MessageHolds, Ids
  <2>3. m \in Stored
    BY <1>1, <2>1, <2>2 DEF Stored
  <2>4. PointerHolds(m) /\ Linked(m)
    BY <1>1, <2>3 DEF IInv, Linked
  <2>5. QED BY <2>4 DEF PointerHolds
<1>2. IInv => PointerSurvivesLaterSends
  BY <1>1 DEF PointerSurvivesLaterSends
<1>3. QED BY <1>2, Inductive, PTL

(* A save of lastMessage that fails or comes late leaves it naming a       *)
(* message of its conversation that the database holds.                    *)
THEOREM StoredPointerTheorem == Spec => []PointerIsStored
<1>1. IInv => PointerIsStored
  BY DEF IInv
<1>2. QED BY <1>1, Inductive, PTL

(* A read message is only ever downgraded by a message:delivered handler   *)
(* that looked at it before anyone had read it.                            *)
THEOREM DowngradeTheorem == Spec => DowngradeOnlyByStaleReceipt
<1> DEFINE Guarded == \A m \in Ids : status[m] = "read" /\ status'[m] # "read" =>
                         \E s \in Slots : /\ task[s].pc = "deliver" /\ task[s].msg = m
                                          /\ task'[s].pc = "delivered"
                                          /\ ~task[s].late
<1>1. IInv /\ [Next]_vars => [Guarded]_vars
  <2> SUFFICES ASSUME IInv, Next, NEW m \in Ids, status[m] = "read", status'[m] # "read"
               PROVE  \E s \in Slots : /\ task[s].pc = "deliver" /\ task[s].msg = m
                                      /\ task'[s].pc = "delivered"
                                      /\ ~task[s].late
    OBVIOUS
  <2>1. ASSUME NEW s \in Slots, DeliveredSave(s)
        PROVE  \E r \in Slots : /\ task[r].pc = "deliver" /\ task[r].msg = m
                                /\ task'[r].pc = "delivered"
                                /\ ~task[r].late
    <3>1. task[s].pc = "deliver" /\ ~task[s].late /\ task[s].msg \in Ids
      BY <2>1, StoredFacts DEF DeliveredSave, IInv, TaskHolds
    <3>2. task[s].msg = m
      BY <2>1, <3>1 DEF DeliveredSave, IInv, TypeOK
    <3>3. task'[s].pc = "delivered"
      BY <2>1 DEF DeliveredSave, Goto, IInv, TypeOK
    <3>4. QED BY <3>1, <3>2, <3>3
  <2>2. ASSUME NEW s \in Slots, Insert(s) PROVE FALSE
    <3>1. task[s].msg \in Ids /\ status[task[s].msg] = "absent"
      BY <2>2, StoredFacts DEF Insert, IInv, TaskHolds
    <3>2. QED BY <2>2, <3>1 DEF Insert, IInv, TypeOK
  <2>3. ASSUME NEW s \in Slots, ReadUpdate(s) PROVE FALSE
    BY <2>3 DEF ReadUpdate
  <2>4. ASSUME status' = status PROVE FALSE
    BY <2>4
  <2>5. \/ \E s \in Slots : DeliveredSave(s) \/ Insert(s) \/ ReadUpdate(s)
        \/ status' = status
    BY DEF Next, Step, Send, SendRejected, Create, SavePointer, Publish, DeliveredFind,
           DeliveredEmit, ReadFind, ReadEmit, Fail, Restart, Tick
  <2>6. QED BY <2>1, <2>2, <2>3, <2>4, <2>5
<1>2. QED BY <1>1, Inductive, PTL DEF Spec, DowngradeOnlyByStaleReceipt

-----------------------------------------------------------------------------
(* The pipeline implements DurableBroadcast *)

(* Each action of the server is an action of the promise, or invisible. *)
LEMMA StepRefines ==
    ASSUME IInv, [Next]_vars
    PROVE  Promise!Next \/ UNCHANGED Promise!vars
<1>1. ASSUME NEW s \in Slots, Insert(s) PROVE Promise!Next
  <2> DEFINE n == task[s].msg
  <2>1. n \in Ids /\ status[n] = "absent" /\ MessageHolds(n)
    BY <1>1, StoredFacts DEF Insert, IInv, TaskHolds
  <2>2. reached[n] = {}
    BY <2>1 DEF MessageHolds
  <2>3. reached' = [reached EXCEPT ![n] = {"sent"}] /\ shown' = shown
    BY <1>1, <2>2 DEF Insert, clientVars
  <2>4. Promise!Store(n)
    BY <2>2, <2>3 DEF Promise!Store
  <2>5. QED BY <2>1, <2>4 DEF Promise!Next
<1>2. ASSUME NEW s \in Slots, Publish(s) PROVE Promise!Next
  <2> DEFINE n == task[s].msg
  <2>1. n \in Ids /\ status[n] # "absent" /\ n \notin acked /\ MessageHolds(n)
    BY <1>2, StoredFacts DEF Publish, IInv, TaskHolds
  <2>2. "sent" \in reached[n] /\ shown[n] = "absent"
    BY <2>1 DEF MessageHolds
  <2>3. Promise!Announce(n)
    BY <1>2, <2>2 DEF Publish, history, Promise!Announce
  <2>4. QED BY <2>1, <2>3 DEF Promise!Next
<1>3. ASSUME NEW s \in Slots, DeliveredSave(s) PROVE Promise!Next
  <2> DEFINE n == task[s].msg
  <2>1. n \in Ids /\ status[n] # "absent" /\ MessageHolds(n)
    BY <1>3, StoredFacts DEF DeliveredSave, IInv, TaskHolds
  <2>2. "sent" \in reached[n]
    BY <2>1 DEF MessageHolds
  <2>3. /\ reached' = [m \in Ids |-> IF m \in {n} THEN reached[m] \cup {"delivered"}
                                                ELSE reached[m]]
        /\ shown' = shown
    BY <1>3, <2>1 DEF DeliveredSave, clientVars, IInv, TypeOK
  <2>4. Promise!Record({n}, "delivered")
    BY <2>2, <2>3 DEF Promise!Record
  <2>5. QED BY <2>1, <2>4 DEF Promise!Next
<1>4. ASSUME NEW s \in Slots, ReadUpdate(s) PROVE Promise!Next
  <2> DEFINE ids == task[s].ids
  <2>1. ids \subseteq Ids /\ \A m \in ids : status[m] # "absent" /\ MessageHolds(m)
    BY <1>4, StoredFacts DEF ReadUpdate, IInv, TaskHolds
  <2>2. \A m \in ids : "sent" \in reached[m]
    BY <2>1 DEF MessageHolds
  <2>3. Promise!Record(ids, "read")
    BY <1>4, <2>2 DEF ReadUpdate, clientVars, Promise!Record
  <2>4. QED BY <2>1, <2>3 DEF Promise!Next
<1>5. ASSUME NEW s \in Slots, DeliveredEmit(s) PROVE Promise!Next
  <2> DEFINE n == task[s].msg
  <2>1. n \in Ids /\ (\E x \in reached[n] : x # "sent") /\ reached[n] \subseteq DbStatus
    BY <1>5, StoredFacts DEF DeliveredEmit, IInv, TaskHolds, TypeOK
  <2>2. \E x \in reached[n] : Promise!Rank[x] >= Promise!Rank["delivered"]
    BY <2>1 DEF Promise!Rank, DbStatus
  <2>3. ASSUME NEW x \in DbStatus \cup {"absent"}
        PROVE  x = "sent" <=> x # "absent" /\ Promise!Rank[x] < Promise!Rank["delivered"]
    BY <2>3 DEF Promise!Rank, DbStatus
  <2>4. shown' = [m \in Ids |->
          IF m \in {n} /\ shown[m] # "absent"
                       /\ Promise!Rank[shown[m]] < Promise!Rank["delivered"]
          THEN "delivered" ELSE shown[m]]
    <3>1. /\ shown \in [Ids -> DbStatus \cup {"absent"}]
          /\ shown' = [shown EXCEPT ![n] = IF @ = "sent" THEN "delivered" ELSE @]
      BY <1>5 DEF DeliveredEmit, IInv, TypeOK
    <3>2. shown' = [m \in Ids |-> IF m \in {n} /\ shown[m] = "sent"
                                  THEN "delivered" ELSE shown[m]]
      BY <2>1, <3>1
    <3>3. QED BY <2>3, <3>1, <3>2
  <2>5. Promise!Receipt({n}, "delivered")
    BY <1>5, <2>2, <2>4 DEF DeliveredEmit, history, Promise!Receipt
  <2>6. QED BY <2>1, <2>5 DEF Promise!Next
<1>6. ASSUME NEW s \in Slots, ReadEmit(s) PROVE Promise!Next
  <2> DEFINE ids == task[s].ids
  <2>1. ids \subseteq Ids /\ \A m \in ids : "read" \in reached[m]
    BY <1>6, StoredFacts DEF ReadEmit, IInv, TaskHolds
  <2>2. \A m \in ids : \E x \in reached[m] : Promise!Rank[x] >= Promise!Rank["read"]
    BY <2>1 DEF Promise!Rank
  <2>3. ASSUME NEW x \in DbStatus \cup {"absent"}
        PROVE  x # "read" <=> Promise!Rank[x] < Promise!Rank["read"]
    BY <2>3 DEF Promise!Rank, DbStatus
  <2>4. shown' = [m \in Ids |->
          IF m \in ids /\ shown[m] # "absent"
                       /\ Promise!Rank[shown[m]] < Promise!Rank["read"]
          THEN "read" ELSE shown[m]]
    <3>1. /\ shown \in [Ids -> DbStatus \cup {"absent"}]
          /\ shown' = [m \in Ids |->
                IF m \in ids /\ shown[m] # "absent" THEN "read" ELSE shown[m]]
      BY <1>6 DEF ReadEmit, IInv, TypeOK
    <3>2. QED BY <2>3, <3>1
  <2>5. Promise!Receipt(ids, "read")
    BY <1>6, <2>2, <2>4 DEF ReadEmit, history, Promise!Receipt
  <2>6. QED BY <2>1, <2>5 DEF Promise!Next
<1>7. ASSUME UNCHANGED <<reached, shown>> PROVE UNCHANGED Promise!vars
  BY <1>7 DEF Promise!vars
<1>8. \/ \E s \in Slots : Insert(s) \/ Publish(s) \/ DeliveredSave(s) \/ ReadUpdate(s)
                          \/ DeliveredEmit(s) \/ ReadEmit(s)
      \/ UNCHANGED <<reached, shown>>
  BY DEF Next, Step, Send, SendRejected, Create, SavePointer, DeliveredFind, ReadFind,
         Fail, Restart, Tick, vars, clientVars, history
<1>9. QED BY <1>1, <1>2, <1>3, <1>4, <1>5, <1>6, <1>7, <1>8

(* What a client displays was durable first and never moves backwards. *)
THEOREM DurabilityTheorem == Spec => ImplementsDurableBroadcast
<1>1. Init => Promise!Init
  BY DEF Init, Promise!Init
<1>2. IInv /\ [Next]_vars => [Promise!Next]_(Promise!vars)
  BY StepRefines
<1>3. QED BY <1>1, <1>2, Inductive, PTL DEF Spec, ImplementsDurableBroadcast, Promise!Spec

LEMMA PromiseStep ==
    ASSUME Promise!TypeOK, Promise!DisplayedIsDurable, [Promise!Next]_(Promise!vars)
    PROVE  Promise!TypeOK' /\ Promise!DisplayedIsDurable' /\ Promise!OnlyForward
<1> USE DEF Promise!TypeOK, Promise!DisplayedIsDurable, Promise!OnlyForward,
            Promise!Status, Promise!Rank
<1>1. CASE UNCHANGED Promise!vars
  BY <1>1 DEF Promise!vars
<1>2. ASSUME NEW m \in Ids, Promise!Store(m)
      PROVE  Promise!TypeOK' /\ Promise!DisplayedIsDurable' /\ Promise!OnlyForward
  BY <1>2 DEF Promise!Store
<1>3. ASSUME NEW m \in Ids, Promise!Announce(m)
      PROVE  Promise!TypeOK' /\ Promise!DisplayedIsDurable' /\ Promise!OnlyForward
  BY <1>3 DEF Promise!Announce
<1>4. ASSUME NEW ms \in SUBSET Ids, NEW st \in {"delivered", "read"}, Promise!Record(ms, st)
      PROVE  Promise!TypeOK' /\ Promise!DisplayedIsDurable' /\ Promise!OnlyForward
  BY <1>4 DEF Promise!Record
<1>5. ASSUME NEW ms \in SUBSET Ids, NEW st \in {"delivered", "read"}, Promise!Receipt(ms, st)
      PROVE  Promise!TypeOK' /\ Promise!DisplayedIsDurable' /\ Promise!OnlyForward
  BY <1>5 DEF Promise!Receipt
<1>6. QED BY <1>1, <1>2, <1>3, <1>4, <1>5 DEF Promise!Next

(* So, at every moment, each status a client displays is backed by one the *)
(* database has had that is as strong, although handlers overlap, overwrite *)
(* each other's receipts, fail and die between the write and the broadcast. *)
THEOREM DisplayTheorem == Spec => []Promise!DisplayedIsDurable
<1>1. Promise!Init => Promise!TypeOK /\ Promise!DisplayedIsDurable
  BY DEF Promise!Init, Promise!TypeOK, Promise!DisplayedIsDurable, Promise!Status, Promise!Rank
<1>2. /\ Promise!TypeOK /\ Promise!DisplayedIsDurable
      /\ [Promise!Next]_(Promise!vars)
      => (Promise!TypeOK /\ Promise!DisplayedIsDurable)'
  BY PromiseStep
<1>3. QED BY <1>1, <1>2, DurabilityTheorem, PTL DEF ImplementsDurableBroadcast, Promise!Spec

(* And no step takes a display back, from read to delivered, say, even where *)
(* the database itself goes back.                                           *)
THEOREM ForwardTheorem == Spec => [][Promise!OnlyForward]_(Promise!vars)
<1>1. Promise!Init => Promise!TypeOK /\ Promise!DisplayedIsDurable
  BY DEF Promise!Init, Promise!TypeOK, Promise!DisplayedIsDurable, Promise!Status, Promise!Rank
<1>2. /\ Promise!TypeOK /\ Promise!DisplayedIsDurable
      /\ [Promise!Next]_(Promise!vars)
      => (Promise!TypeOK /\ Promise!DisplayedIsDurable)' /\ Promise!OnlyForward
  BY PromiseStep
<1>3. QED BY <1>1, <1>2, DurabilityTheorem, PTL DEF ImplementsDurableBroadcast, Promise!Spec

-----------------------------------------------------------------------------
(* The pages of a history *)

(* A non-empty set of natural numbers has a least one: of the intervals    *)
(* that end in it, one contains no other.                                  *)
LEMMA Least ==
    ASSUME NEW T, T \subseteq Nat, T # {}
    PROVE  \E m \in T : \A n \in T : m <= n
<1>1. PICK b \in T : b \in Nat
  OBVIOUS
<1> DEFINE S == 0 .. b
           W == {X \in SUBSET S : \E x \in T : X = 0 .. x}
           R == StrictSubsetOrdering(S)
<1>2. IsWellFoundedOn(R, SUBSET S)
  <2>1. IsFiniteSet(S)
    BY <1>1, FS_Interval
  <2>2. QED BY <2>1, FS_StrictSubsetOrderingWellFounded, FS_FiniteSubsetsOfFinite
<1>3. W \subseteq SUBSET S
  OBVIOUS
<1>4. S \in W
  BY <1>1
<1>5. PICK X \in W : \A Y \in W : <<Y, X>> \notin R
  <2> HIDE DEF R, W, S
  <2> QED BY <1>2, <1>3, <1>4, WFMin
<1>6. PICK m \in T : X = 0 .. m
  BY <1>5
<1>7. ASSUME NEW n \in T, n < m PROVE FALSE
  <2>1. /\ 0 .. n \subseteq 0 .. m /\ m \in 0 .. m /\ m \notin 0 .. n
    BY <1>7
  <2>2. 0 .. n \in W
    BY <1>5, <1>6, <2>1
  <2>3. <<0 .. n, 0 .. m>> \in R
    BY <1>6, <1>5, <2>1, <2>2 DEF StrictSubsetOrdering
  <2>4. QED BY <1>5, <1>6, <2>2, <2>3
<1>8. QED BY <1>6, <1>7

(* So what holds of the first, and of the next after any, holds of all. *)
LEMMA FromTheFirst ==
    ASSUME NEW a \in Nat, NEW N \in Nat, NEW T, a \in T,
           \A n \in a .. N : n \in T /\ n + 1 <= N => n + 1 \in T
    PROVE  a .. N \subseteq T
<1> DEFINE U == {n \in a .. N : n \notin T}
<1>1. ASSUME U # {} PROVE FALSE
  <2>1. U \subseteq Nat
    OBVIOUS
  <2>2. PICK m \in U : \A n \in U : m <= n
    <3> HIDE DEF U
    <3> QED BY <1>1, <2>1, Least
  <2>3. m \in a .. N /\ m # a
    BY <2>2
  <2>4. m - 1 \in a .. N /\ m - 1 \notin U /\ (m - 1) + 1 = m
    BY <2>2, <2>3
  <2>5. QED BY <2>2, <2>4
<1>2. QED BY <1>1

(* What the query selects is finite, and stored in the conversation. *)
LEMMA OlderFacts ==
    ASSUME TypeOK, NEW c, NEW t
    PROVE  /\ Older(c, t) \subseteq Ids /\ IsFiniteSet(Older(c, t))
           /\ Cardinality(Older(c, t)) \in Nat
           /\ \A m : m \in Older(c, t) <=>
                 m \in Stored /\ Conv(m) = c /\ message[m].createdAt < t
           /\ \A m \in Older(c, t) : message[m].createdAt \in Nat
<1>1. Older(c, t) \subseteq Ids /\ \A m \in Older(c, t) : message[m] \in Document
  BY StoredFacts DEF Older
<1>2. IsFiniteSet(Ids)
  BY ModelAssumption, FS_Interval DEF Ids
<1>3. IsFiniteSet(Older(c, t)) /\ Cardinality(Older(c, t)) \in Nat
  BY <1>1, <1>2, FS_Subset, FS_CardinalityType
<1>4. QED BY <1>1, <1>3 DEF Older, Document

(* A page holds nothing older than what it leaves out, and it leaves out   *)
(* nothing if there is no more than the limit.                             *)
LEMMA NewestFacts ==
    ASSUME NEW ms, IsFiniteSet(ms), NEW limit \in Nat \ {0}, NEW page \in Newest(ms, limit)
    PROVE  /\ page \subseteq ms
           /\ Cardinality(ms) <= limit => page = ms
           /\ Cardinality(ms) > limit => page # {}
           /\ \A m \in page, k \in ms \ page : message[k].createdAt <= message[m].createdAt
<1>1. Cardinality(ms) \in Nat
  BY FS_CardinalityType
<1>2. CASE Cardinality(ms) <= limit
  BY <1>1, <1>2 DEF Newest
<1>3. CASE ~(Cardinality(ms) <= limit)
  <2>1. /\ page \subseteq ms /\ Cardinality(page) = limit
        /\ \A m \in page, k \in ms \ page : message[k].createdAt <= message[m].createdAt
    BY <1>3 DEF Newest
  <2>2. page # {}
    BY <2>1, FS_EmptySet
  <2>3. QED BY <1>3, <2>1, <2>2
<1>4. QED BY <1>2, <1>3

(* The cursor is the instant of a message of the page, and of the last. *)
LEMMA OldestFacts ==
    ASSUME NEW page, page # {}, \A m \in page : message[m].createdAt \in Nat
    PROVE  /\ \E m \in page : Oldest(page) = message[m].createdAt
           /\ \A m \in page : Oldest(page) <= message[m].createdAt
<1> DEFINE T == {message[m].createdAt : m \in page}
<1>1. PICK t \in T : \A u \in T : t <= u
  <2>1. T \subseteq Nat /\ T # {}
    OBVIOUS
  <2> HIDE DEF T
  <2>2. QED BY <2>1, Least
<1>2. t \in T /\ \A m \in page : t <= message[m].createdAt
  BY <1>1
<1>3. Oldest(page) \in T /\ \A m \in page : Oldest(page) <= message[m].createdAt
  BY <1>2 DEF Oldest
<1>4. QED BY <1>3

(* A response: the page of a request, and what it may leave out. *)
LEMMA ResponseFacts ==
    ASSUME TypeOK, NEW c, NEW limit \in Nat \ {0}, NEW r \in Responses(c, limit)
    PROVE  /\ r.before \in Nat
           /\ r.page \in Newest(Older(c, r.before), limit)
<1>1. PICK t \in 0 .. now + 1 :
          \E page \in Newest(Older(c, t), limit) : r = [before |-> t, page |-> page]
  BY DEF Responses
<1>2. QED BY <1>1 DEF TypeOK

(* What the next request asks for is what this page and the instant of its *)
(* last message leave.                                                     *)
LEMMA NextRequest ==
    ASSUME TypeOK, NEW c, NEW limit \in Nat \ {0}, NEW r \in Responses(c, limit)
    PROVE  \A m : m \in Older(c, NextCursor(c, limit, r)) <=>
                     /\ m \in Older(c, r.before) \ r.page
                     /\ \A k \in r.page : message[k].createdAt # message[m].createdAt
<1> DEFINE ms == Older(c, r.before)
           next == NextCursor(c, limit, r)
<1>1. /\ r.before \in Nat /\ r.page \in Newest(ms, limit)
      /\ ms \subseteq Ids /\ IsFiniteSet(ms) /\ Cardinality(ms) \in Nat
      /\ \A m \in ms : message[m].createdAt \in Nat /\ message[m].createdAt < r.before
  BY ResponseFacts, OlderFacts
<1>2. /\ r.page \subseteq ms
      /\ Cardinality(ms) <= limit => r.page = ms
      /\ Cardinality(ms) > limit => r.page # {}
      /\ \A m \in r.page, k \in ms \ r.page : message[k].createdAt <= message[m].createdAt
  <2> HIDE DEF ms
  <2> QED BY <1>1, NewestFacts
<1>3. CASE Cardinality(ms) <= limit
  <2>1. next = 0 /\ r.page = ms
    BY <1>2, <1>3 DEF NextCursor
  <2>2. \A m : m \notin Older(c, next)
    BY <2>1, OlderFacts
  <2>3. QED BY <2>1, <2>2
<1>4. CASE ~(Cardinality(ms) <= limit)
  <2>1. r.page # {} /\ next = Oldest(r.page)
    BY <1>1, <1>2, <1>4 DEF NextCursor
  <2>2. \A m \in r.page : message[m].createdAt \in Nat
    BY <1>1, <1>2
  <2>3. PICK o \in r.page : next = message[o].createdAt
    BY <2>1, <2>2, OldestFacts
  <2>4. \A m \in r.page : next <= message[m].createdAt
    BY <2>1, <2>2, OldestFacts
  <2>5. next \in Nat /\ next < r.before
    BY <1>1, <1>2, <2>3
  <2>6. ASSUME NEW m \in Older(c, next)
        PROVE  /\ m \in ms \ r.page
               /\ \A k \in r.page : message[k].createdAt # message[m].createdAt
    <3>1. m \in Stored /\ Conv(m) = c /\ message[m].createdAt < next
          /\ message[m].createdAt \in Nat
      BY <2>6, OlderFacts
    <3>2. m \in ms
      BY <1>1, <2>5, <3>1, OlderFacts
    <3>3. \A k \in r.page : message[k].createdAt # message[m].createdAt
      BY <2>2, <2>4, <2>5, <3>1
    <3>4. QED BY <3>2, <3>3
  <2>7. ASSUME NEW m \in ms \ r.page,
               \A k \in r.page : message[k].createdAt # message[m].createdAt
        PROVE  m \in Older(c, next)
    <3>1. message[m].createdAt <= next /\ message[m].createdAt # next
          /\ message[m].createdAt \in Nat
      BY <1>1, <1>2, <2>3, <2>7
    <3>2. message[m].createdAt < next
      BY <2>5, <3>1
    <3>3. QED BY <2>7, <3>2, OlderFacts
  <2>8. QED BY <2>6, <2>7
<1>5. QED BY <1>3, <1>4

(* What a page lists and what later requests can still get are never of    *)
(* one instant: a cursor never leads back.                                 *)
LEMMA HistoryFacts ==
    ASSUME TypeOK, NEW c, NEW limit \in Nat \ {0}, NEW h \in Histories(c, limit)
    PROVE  LET O(n) == Older(c, h[n].before)
               P(n) == h[n].page
           IN  /\ DOMAIN h = 1 .. MaxMsgs
               /\ \A n \in 1 .. MaxMsgs :
                     /\ n = 1 => O(n) = Older(c, now + 1)
                     /\ P(n) \in Newest(O(n), limit) /\ P(n) \subseteq O(n)
                     /\ O(n) \subseteq Ids /\ (P(n) = {} => O(n) = {})
               /\ \A n \in 1 .. MaxMsgs : n + 1 <= MaxMsgs =>
                     \A x : x \in O(n + 1) <=>
                        /\ x \in O(n) \ P(n)
                        /\ \A k \in P(n) : message[k].createdAt # message[x].createdAt
               /\ \A i, j \in 1 .. MaxMsgs : i < j =>
                     /\ O(j) \subseteq O(i)
                     /\ \A k \in P(i), x \in O(j) :
                           message[k].createdAt # message[x].createdAt
<1> DEFINE N == MaxMsgs
           at(k) == message[k].createdAt
           O(n) == Older(c, h[n].before)
           P(n) == h[n].page
<1>1. /\ h \in [1 .. N -> Responses(c, limit)] /\ DOMAIN h = 1 .. N
      /\ \A n \in 1 .. N :
            h[n].before = IF n = 1 THEN now + 1 ELSE NextCursor(c, limit, h[n - 1])
  BY DEF Histories
<1>2. N \in Nat
  BY ModelAssumption
<1>3. \A n \in 1 .. N : n = 1 => O(n) = Older(c, now + 1)
  BY <1>1
<1>4. ASSUME NEW n \in 1 .. N, n + 1 <= N
      PROVE  \A x : x \in O(n + 1) <=> x \in O(n) \ P(n) /\ \A k \in P(n) : at(k) # at(x)
  <2>1. n + 1 \in 1 .. N /\ n + 1 # 1 /\ (n + 1) - 1 = n
    BY <1>2, <1>4
  <2>2. h[n + 1].before = NextCursor(c, limit, h[n]) /\ h[n] \in Responses(c, limit)
    BY <1>1, <2>1
  <2>3. QED BY <2>2, NextRequest
<1>5. ASSUME NEW n \in 1 .. N
      PROVE  /\ P(n) \in Newest(O(n), limit) /\ P(n) \subseteq O(n)
             /\ O(n) \subseteq Ids /\ (P(n) = {} => O(n) = {})
  <2>1. /\ P(n) \in Newest(O(n), limit) /\ IsFiniteSet(O(n)) /\ Cardinality(O(n)) \in Nat
        /\ O(n) \subseteq Ids
    BY <1>1, ResponseFacts, OlderFacts
  <2>2. /\ P(n) \subseteq O(n)
        /\ Cardinality(O(n)) <= limit => P(n) = O(n)
        /\ Cardinality(O(n)) > limit => P(n) # {}
    <3> HIDE DEF O, P
    <3> QED BY <2>1, NewestFacts
  <2>3. QED BY <2>1, <2>2
<1> HIDE DEF O, P
<1>6. ASSUME NEW i \in 1 .. N, NEW j \in 1 .. N, i < j
      PROVE  O(j) \subseteq O(i) /\ \A k \in P(i), x \in O(j) : at(k) # at(x)
  <2> DEFINE T == {n \in 1 .. N : O(n) \subseteq O(i + 1)}
  <2>1. i + 1 \in 1 .. N /\ i + 1 \in Nat /\ j \in i + 1 .. N /\ i + 1 <= N
    BY <1>2, <1>6
  <2>2. i + 1 \in T
    BY <2>1
  <2>3. \A n \in i + 1 .. N : n \in T /\ n + 1 <= N => n + 1 \in T
    <3>1. \A n \in 1 .. N : n + 1 <= N => O(n + 1) \subseteq O(n) /\ n + 1 \in 1 .. N
      BY <1>2, <1>4
    <3>2. QED BY <2>1, <3>1
  <2>4. j \in T
    <3> HIDE DEF T
    <3> QED BY <1>2, <2>1, <2>2, <2>3, FromTheFirst
  <2>5. QED BY <1>4, <2>1, <2>4
<1>7. QED BY <1>1, <1>3, <1>4, <1>5, <1>6 DEF O, P

(* Of as many numbers as there are places, each other than m, two are the  *)
(* same.                                                                   *)
LEMMA PagesRunOut ==
    ASSUME NEW N \in Nat, NEW m \in 1 .. N, NEW f \in [1 .. N -> (1 .. N) \ {m}]
    PROVE  \E x, y \in 1 .. N : x < y /\ f[x] = f[y]
<1>1. PICK A, B : A = 1 .. N /\ B = (1 .. N) \ {m}
  OBVIOUS
<1>2. PICK g \in [A -> B] : g = f
  BY <1>1
<1>3. IsFiniteSet(A) /\ Cardinality(A) = N
  BY <1>1, FS_Interval
<1>4. IsFiniteSet(B) /\ Cardinality(B) = N - 1
  BY <1>1, <1>3, FS_RemoveElement
<1>5. IsFiniteSet(A) /\ IsFiniteSet(B) /\ Cardinality(B) < Cardinality(A)
  BY <1>3, <1>4
<1>6. PICK x, y \in A : x # y /\ g[x] = g[y]
  BY <1>5, FS_PigeonHole
<1>7. x < y \/ y < x
  BY <1>1, <1>6
<1>8. QED BY <1>1, <1>2, <1>6, <1>7

(* So a message that can still be got after all others is on a page. *)
LEMMA LastIsListed ==
    ASSUME TypeOK, NEW c, NEW limit \in Nat \ {0}, NEW h \in Histories(c, limit), NEW m,
           \A n \in 1 .. MaxMsgs : m \in Older(c, h[n].before), 1 <= MaxMsgs
    PROVE  \E n \in 1 .. MaxMsgs : m \in h[n].page
<1> SUFFICES ASSUME \A n \in 1 .. MaxMsgs : m \notin h[n].page PROVE FALSE
  OBVIOUS
<1> DEFINE f == [n \in 1 .. MaxMsgs |-> CHOOSE k \in h[n].page : TRUE]
<1>1. MaxMsgs \in Nat /\ Ids = 1 .. MaxMsgs /\ 1 \in 1 .. MaxMsgs
  BY ModelAssumption DEF Ids
<1>2. \A n \in 1 .. MaxMsgs : h[n].page # {} /\ h[n].page \subseteq Older(c, h[n].before)
                              /\ Older(c, h[n].before) \subseteq Ids
  BY HistoryFacts
<1>3. \A n \in 1 .. MaxMsgs : f[n] \in h[n].page
  BY <1>2
<1>4. f \in [1 .. MaxMsgs -> (1 .. MaxMsgs) \ {m}] /\ m \in 1 .. MaxMsgs
  BY <1>1, <1>2, <1>3
<1>5. PICK x, y \in 1 .. MaxMsgs : x < y /\ f[x] = f[y]
  <2> HIDE DEF f
  <2> QED BY <1>1, <1>4, PagesRunOut
<1>6. PICK k : k = f[x] /\ k \in h[x].page /\ k \in Older(c, h[y].before)
  BY <1>2, <1>3, <1>5
<1>7. \A i, j \in 1 .. MaxMsgs : i < j =>
          \A a \in h[i].page, b \in Older(c, h[j].before) :
              message[a].createdAt # message[b].createdAt
  BY HistoryFacts
<1>8. QED BY <1>5, <1>6, <1>7

(* A client that follows the cursor gets a message once, unless a page     *)
(* left it out that has another of its instant.                            *)
LEMMA HistoryLists ==
    ASSUME TypeOK, NEW c, NEW limit \in Nat \ {0}, NEW h \in Histories(c, limit),
           NEW m \in Older(c, now + 1)
    PROVE  LET Tie == \E n \in DOMAIN h :
                   /\ m \notin h[n].page
                   /\ \E k \in h[n].page : message[k].createdAt = message[m].createdAt
           IN  Cardinality({n \in DOMAIN h : m \in h[n].page}) = IF Tie THEN 0 ELSE 1
<1> DEFINE N == MaxMsgs
           at(k) == message[k].createdAt
           O(n) == Older(c, h[n].before)
           P(n) == h[n].page
           Tie == \E n \in 1 .. N : m \notin P(n) /\ \E k \in P(n) : at(k) = at(m)
           lists == {n \in 1 .. N : m \in P(n)}
<1>1. N \in Nat /\ 1 \in 1 .. N /\ DOMAIN h = 1 .. N /\ m \in O(1)
  BY OlderFacts, HistoryFacts, ModelAssumption DEF Ids
<1>2. \A n \in 1 .. N : P(n) \subseteq O(n)
  BY HistoryFacts
<1>3. \A n \in 1 .. N : n + 1 <= N =>
          \A x : x \in O(n + 1) <=> x \in O(n) \ P(n) /\ \A k \in P(n) : at(k) # at(x)
  BY HistoryFacts
<1>4. \A i, j \in 1 .. N : i < j => \A k \in P(i), x \in O(j) : at(k) # at(x)
  BY HistoryFacts
<1>5. (\A n \in 1 .. N : m \in O(n)) => \E n \in 1 .. N : m \in P(n)
  BY <1>1, LastIsListed
<1> HIDE DEF O, P
<1>6. CASE Tie
  <2>1. PICK n \in 1 .. N : m \notin P(n) /\ \E k \in P(n) : at(k) = at(m)
    BY <1>6
  <2>2. PICK k \in P(n) : at(k) = at(m)
    BY <2>1
  <2>3. ASSUME NEW j \in 1 .. N, m \in P(j) PROVE FALSE
    <3>1. m \in O(j) /\ k \in O(n)
      BY <1>2, <2>3
    <3>2. j < n \/ j = n \/ n < j
      BY <1>1
    <3>3. QED BY <1>4, <2>1, <2>2, <2>3, <3>1, <3>2
  <2>4. lists = {}
    BY <2>3
  <2>5. QED BY <1>1, <1>6, <2>4, FS_EmptySet DEF P
<1>7. CASE ~Tie
  <2>1. PICK n \in 1 .. N : m \in P(n)
    <3>1. SUFFICES ASSUME \A n \in 1 .. N : m \notin P(n) PROVE FALSE
      OBVIOUS
    <3> DEFINE T == {n \in 1 .. N : m \in O(n)}
    <3>2. \A n \in 1 .. N : n \in T /\ n + 1 <= N => n + 1 \in T
      BY <1>1, <1>3, <1>7, <3>1
    <3>3. 1 \in T
      BY <1>1
    <3>4. 1 .. N \subseteq T
      <4> HIDE DEF T
      <4> QED BY <1>1, <3>2, <3>3, FromTheFirst
    <3>5. QED BY <1>5, <3>1, <3>4
  <2>2. ASSUME NEW j \in 1 .. N, m \in P(j) PROVE j = n
    <3>1. m \in O(j) /\ m \in O(n)
      BY <1>2, <2>1, <2>2
    <3>2. j < n \/ j = n \/ n < j
      BY <1>1
    <3>3. QED BY <1>4, <2>1, <2>2, <3>1, <3>2
  <2>3. lists = {n}
    BY <2>1, <2>2
  <2>4. Cardinality(lists) = 1
    BY <2>3, FS_Singleton
  <2>5. QED BY <1>1, <1>7, <2>4 DEF P
<1>8. QED BY <1>6, <1>7

(* The last page is not followed by another: as many pages with something  *)
(* left for later would be more than there are messages.                   *)
LEMMA HistoryEnds ==
    ASSUME TypeOK, NEW c, NEW limit \in Nat \ {0}, NEW h \in Histories(c, limit),
           1 <= MaxMsgs
    PROVE  Cardinality(Older(c, h[MaxMsgs].before)) <= limit
<1> DEFINE N == MaxMsgs
           last == Older(c, h[N].before)
<1>1. N \in Nat /\ N \in 1 .. N
  BY ModelAssumption
<1>2. IsFiniteSet(last) /\ Cardinality(last) \in Nat
  BY OlderFacts
<1>3. h[N].page \in Newest(last, limit) /\ h[N].page \subseteq last
  BY <1>1, HistoryFacts
<1> SUFFICES ASSUME ~(Cardinality(last) <= limit) PROVE FALSE
  OBVIOUS
<1>4. PICK m \in last : m \notin h[N].page
  <2>1. Cardinality(h[N].page) = limit
    BY <1>3 DEF Newest
  <2>2. h[N].page # last
    BY <1>2, <2>1
  <2>3. QED BY <1>3, <2>2
<1>5. \A i, j \in 1 .. N : i < j =>
          /\ Older(c, h[j].before) \subseteq Older(c, h[i].before)
          /\ \A a \in h[i].page, b \in Older(c, h[j].before) :
                message[a].createdAt # message[b].createdAt
  BY HistoryFacts
<1>6. ASSUME NEW n \in 1 .. N PROVE m \in Older(c, h[n].before) /\ m \notin h[n].page
  <2>1. n = N \/ n < N
    BY <1>1
  <2>2. QED BY <1>1, <1>4, <1>5, <2>1
<1>7. QED BY <1>6, LastIsListed

(* g runs through x, f[x], f[f[x]] and so on, N values in all. *)
Iterates(g, N, x, f) ==
    \A n \in 1 .. N : (n = 1 => g[n] = x) /\ (n # 1 => g[n] = f[g[n - 1]])

(* From every value of S, a function on S can be iterated. *)
LEMMA Recursion ==
    ASSUME NEW N \in Nat, NEW S, NEW x \in S, NEW f \in [S -> S]
    PROVE  \E g \in [1 .. N -> S] : Iterates(g, N, x, f)
<1> DEFINE Solves(g, k) == Iterates(g, k, x, f)
           T == {k \in 0 .. N : \E g \in [1 .. k -> S] : Solves(g, k)}
<1>1. 0 \in T
  <2>1. PICK g : g = [i \in 1 .. 0 |-> x]
    OBVIOUS
  <2>2. g \in [1 .. 0 -> S] /\ Solves(g, 0)
    BY <2>1 DEF Iterates
  <2>3. 0 \in 0 .. N
    OBVIOUS
  <2> HIDE DEF Solves
  <2>4. QED BY <2>2, <2>3
<1>2. ASSUME NEW k \in 0 .. N, k \in T, k + 1 <= N PROVE k + 1 \in T
  <2>1. PICK g \in [1 .. k -> S] : Solves(g, k)
    BY <1>2
  <2> DEFINE v == IF k = 0 THEN x ELSE f[g[k]]
             h == [n \in 1 .. k + 1 |-> IF n = k + 1 THEN v ELSE g[n]]
  <2>2. v \in S
    BY <2>1
  <2>3. h \in [1 .. k + 1 -> S]
    <3> HIDE DEF v
    <3> QED BY <2>1, <2>2
  <2>4. ASSUME NEW n \in 1 .. k + 1
        PROVE  (n = 1 => h[n] = x) /\ (n # 1 => h[n] = f[h[n - 1]])
    <3>1. CASE n = k + 1
      BY <3>1
    <3>2. CASE n # k + 1
      <4>1. n \in 1 .. k /\ h[n] = g[n]
            /\ (n # 1 => n - 1 \in 1 .. k + 1 /\ h[n - 1] = g[n - 1])
        BY <3>2
      <4>2. QED BY <2>1, <4>1 DEF Iterates
    <3>3. QED BY <3>1, <3>2
  <2>5. Solves(h, k + 1)
    <3> HIDE DEF h
    <3> QED BY <2>4 DEF Iterates
  <2>6. k + 1 \in 0 .. N
    BY <1>2
  <2>7. QED BY <2>3, <2>5, <2>6
<1>3. 0 .. N \subseteq T
  <2> HIDE DEF T
  <2> QED BY <1>1, <1>2, FromTheFirst
<1>4. N \in T
  BY <1>3
<1>5. QED BY <1>4

(* Of stored messages left to list, one is of the latest instant. *)
LEMMA Latest ==
    ASSUME TypeOK, NEW c, NEW t \in Nat, NEW rest, rest \subseteq Older(c, t), rest # {}
    PROVE  \E k \in rest : \A m \in rest : message[m].createdAt <= message[k].createdAt
<1> DEFINE T == {t - message[m].createdAt : m \in rest}
<1>1. \A m \in rest : message[m].createdAt \in Nat /\ message[m].createdAt < t
  BY OlderFacts
<1>2. T \subseteq Nat /\ T # {}
  BY <1>1
<1>3. PICK a \in T : \A b \in T : a <= b
  <2> HIDE DEF T
  <2> QED BY <1>2, Least
<1>4. PICK k \in rest : a = t - message[k].createdAt
  BY <1>3
<1>5. ASSUME NEW m \in rest PROVE message[m].createdAt <= message[k].createdAt
  <2>1. t - message[k].createdAt <= t - message[m].createdAt
    BY <1>3, <1>4
  <2>2. QED BY <1>1, <2>1
<1>6. QED BY <1>5

(* Taking the latest again and again gives a page. *)
LEMMA PageExists ==
    ASSUME TypeOK, NEW c, NEW t \in Nat, NEW limit \in Nat \ {0}
    PROVE  Newest(Older(c, t), limit) # {}
<1> DEFINE ms == Older(c, t)
           at(m) == message[m].createdAt
           Top(page) == \A m \in page, k \in ms \ page : at(k) <= at(m)
           T == {l \in 0 .. limit :
                    \E page \in SUBSET ms : Cardinality(page) = l /\ Top(page)}
<1>1. IsFiniteSet(ms) /\ Cardinality(ms) \in Nat /\ \A m \in ms : at(m) \in Nat
  BY OlderFacts
<1> SUFFICES ASSUME ~(Cardinality(ms) <= limit) PROVE Newest(ms, limit) # {}
  BY DEF Newest
<1>2. 0 \in T
  <2>1. {} \in SUBSET ms /\ Cardinality({}) = 0 /\ Top({}) /\ 0 \in 0 .. limit
    BY FS_EmptySet
  <2> HIDE DEF Top, ms
  <2>2. QED BY <2>1
<1>3. ASSUME NEW l \in 0 .. limit, l \in T, l + 1 <= limit PROVE l + 1 \in T
  <2>1. PICK page \in SUBSET ms : Cardinality(page) = l /\ Top(page)
    BY <1>3
  <2>2. ms \ page # {}
    <3>1. page # ms
      BY <1>1, <1>3, <2>1
    <3>2. QED BY <2>1, <3>1
  <2>3. PICK k \in ms \ page : \A m \in ms \ page : at(m) <= at(k)
    BY <2>2, Latest
  <2>4. IsFiniteSet(page)
    BY <1>1, FS_Subset
  <2>5. Cardinality(page \cup {k}) = l + 1
    BY <2>1, <2>3, <2>4, FS_AddElement
  <2>6. Top(page \cup {k}) /\ page \cup {k} \in SUBSET ms
    BY <2>1, <2>3
  <2>7. l + 1 \in 0 .. limit
    BY <1>3
  <2> HIDE DEF Top, ms
  <2>8. QED BY <2>5, <2>6, <2>7
<1>4. 0 .. limit \subseteq T
  <2> HIDE DEF T
  <2> QED BY <1>2, <1>3, FromTheFirst
<1>5. limit \in T
  BY <1>4
<1>6. PICK page \in SUBSET ms : Cardinality(page) = limit /\ Top(page)
  BY <1>5
<1>7. page \in Newest(ms, limit)
  BY <1>6 DEF Newest
<1>8. QED BY <1>7

(* Every request is answered, whatever cursor it carries. *)
LEMMA ResponseExists ==
    ASSUME TypeOK, NEW c, NEW limit \in Nat \ {0}, NEW t \in 0 .. now + 1
    PROVE  \E r \in Responses(c, limit) : r.before = t
<1>1. t \in Nat
  BY DEF TypeOK
<1>2. PICK page \in Newest(Older(c, t), limit) : TRUE
  BY <1>1, PageExists
<1>3. [before |-> t, page |-> page] \in Responses(c, limit)
  BY <1>2 DEF Responses
<1>4. QED BY <1>3

(* A client has a history to get, for any page size. *)
LEMMA HistoryExists ==
    ASSUME TypeOK, NEW c, NEW limit \in Nat \ {0}
    PROVE  Histories(c, limit) # {}
<1> DEFINE S == Responses(c, limit)
           Next1(r) == NextCursor(c, limit, r)
           f == [r \in S |-> CHOOSE q \in S : q.before = Next1(r)]
<1>1. MaxMsgs \in Nat /\ now \in Nat
  BY ModelAssumption DEF TypeOK
<1>2. PICK x \in S : x.before = now + 1
  BY <1>1, ResponseExists
<1>3. ASSUME NEW r \in S PROVE Next1(r) \in 0 .. now + 1
  <2> DEFINE ms == Older(c, r.before)
  <2>1. r.before \in 0 .. now + 1
    BY DEF Responses
  <2>2. /\ r.page \in Newest(ms, limit) /\ IsFiniteSet(ms) /\ Cardinality(ms) \in Nat
        /\ \A m \in ms : message[m].createdAt \in Nat /\ message[m].createdAt < r.before
    BY ResponseFacts, OlderFacts
  <2>3. CASE Cardinality(ms) <= limit
    BY <1>1, <2>3 DEF NextCursor
  <2>4. CASE ~(Cardinality(ms) <= limit)
    <3>1. r.page \subseteq ms /\ r.page # {}
      <4> HIDE DEF ms
      <4> QED BY <2>2, <2>4, NewestFacts
    <3>2. PICK o \in r.page : Oldest(r.page) = message[o].createdAt
      BY <2>2, <3>1, OldestFacts
    <3>3. Next1(r) = message[o].createdAt
      BY <2>4, <3>2 DEF NextCursor
    <3>4. message[o].createdAt \in Nat /\ message[o].createdAt < r.before
      BY <2>2, <3>1
    <3> HIDE DEF Next1
    <3>5. QED BY <1>1, <2>1, <3>3, <3>4
  <2>5. QED BY <2>3, <2>4
<1>4. ASSUME NEW r \in S PROVE f[r] \in S /\ f[r].before = Next1(r)
  <2>1. \E q \in S : q.before = Next1(r)
    BY <1>3, ResponseExists
  <2> HIDE DEF Next1, S
  <2>2. QED BY <2>1
<1>5. f \in [S -> S]
  BY <1>4
<1>6. \E h \in [1 .. MaxMsgs -> S] : Iterates(h, MaxMsgs, x, f)
  <2> HIDE DEF f, S
  <2> QED BY <1>1, <1>2, <1>5, Recursion
<1>7. PICK h \in [1 .. MaxMsgs -> S] :
          \A n \in 1 .. MaxMsgs : (n = 1 => h[n] = x) /\ (n # 1 => h[n] = f[h[n - 1]])
  <2> HIDE DEF f, S
  <2> QED BY <1>6 DEF Iterates
<1>8. ASSUME NEW n \in 1 .. MaxMsgs
      PROVE  h[n].before = IF n = 1 THEN now + 1 ELSE Next1(h[n - 1])
  <2>1. CASE n = 1
    BY <1>2, <1>7, <2>1
  <2>2. CASE n # 1
    <3>1. n - 1 \in 1 .. MaxMsgs
      BY <1>1, <2>2
    <3>2. h[n - 1] \in S /\ h[n] = f[h[n - 1]]
      BY <1>7, <2>2, <3>1
    <3> HIDE DEF Next1, S, f
    <3>3. QED BY <1>4, <2>2, <3>2
  <2>3. QED BY <2>1, <2>2
<1>9. h \in Histories(c, limit)
  BY <1>7, <1>8 DEF Histories
<1>10. QED BY <1>9

(* Whatever is stored, however many fit in a page, and whatever order the  *)
(* database gives to messages of one instant: there is always a page to    *)
(* give, no cursor leads back to where it came from, and by the end each   *)
(* message was listed once, but for those that a page left out with        *)
(* another of the same instant.                                            *)
THEOREM PagingTheorem == Spec => []PagingMissesOnlyTies
<1>1. ASSUME TypeOK, NEW c \in Conversations, NEW limit \in 1 .. MaxMsgs
      PROVE  /\ Histories(c, limit) # {}
             /\ \A h \in Histories(c, limit) :
                   Cardinality(Older(c, h[MaxMsgs].before)) <= limit
  <2>1. limit \in Nat \ {0} /\ 1 <= MaxMsgs
    BY ModelAssumption
  <2>2. QED BY <1>1, <2>1, HistoryExists, HistoryEnds
<1>2. ASSUME TypeOK, NEW c \in Conversations, NEW limit \in 1 .. MaxMsgs,
             NEW h \in Histories(c, limit), NEW m \in Older(c, now + 1)
      PROVE  LET Tie == \E n \in DOMAIN h :
                     /\ m \notin h[n].page
                     /\ \E k \in h[n].page : message[k].createdAt = message[m].createdAt
             IN  Cardinality({n \in DOMAIN h : m \in h[n].page}) = IF Tie THEN 0 ELSE 1
  <2>1. limit \in Nat \ {0}
    BY ModelAssumption
  <2>2. QED BY <1>2, <2>1, HistoryLists
<1>3. TypeOK => PagingMissesOnlyTies
  BY <1>1, <1>2 DEF PagingMissesOnlyTies
<1>4. QED BY <1>3, TypeCorrect, PTL
=============================================================================
