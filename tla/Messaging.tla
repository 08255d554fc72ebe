----------------------------- MODULE Messaging ------------------------------
(***************************************************************************)
(* The message pipeline: the message:send, message:delivered and           *)
(* message:read handlers of one server process over MongoDB.               *)
(*                                                                         *)
(* A handler runs in a slot.  Every await on a database call ends a step,  *)
(* and a call takes effect when the database applies it, so the handlers   *)
(* of all sockets interleave between calls.  Steps of a handler that only  *)
(* touch its own locals, or read what never changes (the members of a      *)
(* conversation, the fields of a message other than its status), are       *)
(* joined to the call next to them.                                        *)
(***************************************************************************)
EXTENDS RateBucket, Sequences, FiniteSets

CONSTANTS
    Users,          \* user ids
    Conversations,  \* conversation ids
    Members,        \* the members array of each conversation
    Slots,          \* bound: handlers in progress at once
    MaxMsgs,        \* bound: messages ever created
    MaxTime,        \* bound: the clock stops here
    MayFail         \* whether database calls fail and the server restarts

ASSUME ModelAssumption ==
    /\ Members \in [Conversations -> SUBSET Users]
    /\ MaxMsgs \in Nat
    /\ MaxTime \in Nat
    /\ MayFail \in BOOLEAN

VARIABLES
    now,            \* Date.now()
    buckets,        \* the rate limiter's map
    message,        \* documents Message.create has built, in order of _id
    status,         \* the status field in the database, "absent" if no row
    lastMessage,    \* the conversation's pointer in the database, 0 if unset
    task,           \* the handler in each slot, and where it stands
    shown,          \* the status a client with the conversation open displays
    acked,          \* messages announced and acknowledged to their sender
    precedes,       \* history: what was acked when a message's send began
    coveredBy,      \* history: users whose message:read covered a message
    reached         \* history: every status a message has had in the database

clientVars == <<shown, acked>>
history == <<precedes, coveredBy, reached>>
vars == <<now, buckets, message, status, lastMessage, task, shown, acked,
          precedes, coveredBy, reached>>

Ids == 1 .. MaxMsgs
Idle == [pc |-> "idle"]

Init ==
    /\ now = 0
    /\ buckets = [u \in Users |-> NoBucket]
    /\ message = <<>>
    /\ status = [m \in Ids |-> "absent"]
    /\ lastMessage = [c \in Conversations |-> 0]
    /\ task = [s \in Slots |-> Idle]
    /\ shown = [m \in Ids |-> "absent"]
    /\ acked = {}
    /\ precedes = [m \in Ids |-> {}]
    /\ coveredBy = [m \in Ids |-> {}]
    /\ reached = [m \in Ids |-> {}]

Goto(s, t) == task' = [task EXCEPT ![s] = t]

Stored == {m \in 1 .. Len(message) : status[m] # "absent"}

Conv(m) == message[m].conv

-----------------------------------------------------------------------------
(* message:send *)

(* Messages that exist or are being created stay within MaxMsgs. *)
RoomForOne ==
    Len(message) + Cardinality({s \in Slots : task[s].pc = "create"}) < MaxMsgs

(* The handler passes the rate limit and validation and asks for the       *)
(* conversation; the sender is a member, so findOne will return it.        *)
Send(s, u, c) ==
    /\ task[s] = Idle
    /\ RoomForOne
    /\ Allows(buckets[u], now)
    /\ u \in Members[c]
    /\ buckets' = [buckets EXCEPT ![u] = Charge(@, now)]
    /\ Goto(s, [pc |-> "create", user |-> u, conv |-> c, seen |-> acked])
    /\ UNCHANGED <<now, message, status, lastMessage, clientVars, history>>

(* A send that counts against the limit and is then rejected: the payload  *)
(* does not validate, or the sender is not a member (404).                 *)
SendRejected(u) ==
    /\ Allows(buckets[u], now)
    /\ buckets' = [buckets EXCEPT ![u] = Charge(@, now)]
    /\ UNCHANGED <<now, message, status, lastMessage, task, clientVars, history>>

(* A slip the runs catch: the pointer is saved before the message. *)
CreateLinked(s) ==
    LET t == task[s] IN
    /\ t.pc = "create"
    /\ Len(message) < MaxMsgs
    /\ message' = Append(message,
          [conv |-> t.conv, sender |-> t.user, createdAt |-> now])
    /\ lastMessage' = [lastMessage EXCEPT ![t.conv] = Len(message) + 1]
    /\ precedes' = [precedes EXCEPT ![Len(message) + 1] = t.seen]
    /\ Goto(s, [pc |-> "insert", msg |-> Len(message) + 1])
    /\ UNCHANGED <<now, buckets, status, clientVars, coveredBy, reached>>

(* Message.create stamps _id and createdAt and issues the insert. *)
Create(s) ==
    LET t == task[s] IN
    /\ t.pc = "create"
    /\ Len(message) < MaxMsgs
    /\ message' = Append(message,
          [conv |-> t.conv, sender |-> t.user, createdAt |-> now])
    /\ precedes' = [precedes EXCEPT ![Len(message) + 1] = t.seen]
    /\ Goto(s, [pc |-> "insert", msg |-> Len(message) + 1])
    /\ UNCHANGED <<now, buckets, status, lastMessage, clientVars,
                   coveredBy, reached>>

(* A slip the runs catch: conversation.save() is not awaited. *)
InsertUnlinked(s) ==
    LET m == task[s].msg IN
    /\ task[s].pc = "insert"
    /\ status' = [status EXCEPT ![m] = "sent"]
    /\ reached' = [reached EXCEPT ![m] = @ \cup {"sent"}]
    /\ Goto(s, [pc |-> "publish", msg |-> m])
    /\ UNCHANGED <<now, buckets, message, lastMessage, clientVars,
                   precedes, coveredBy>>

(* The database inserts the message; conversation.save() is issued. *)
Insert(s) ==
    LET m == task[s].msg IN
    /\ task[s].pc = "insert"
    /\ status' = [status EXCEPT ![m] = "sent"]
    /\ reached' = [reached EXCEPT ![m] = @ \cup {"sent"}]
    /\ Goto(s, [pc |-> "save", msg |-> m])
    /\ UNCHANGED <<now, buckets, message, lastMessage, clientVars,
                   precedes, coveredBy>>

(* A slip the runs catch: the handler returns before it announces. *)
SavePointerSilently(s) ==
    /\ task[s].pc = "save"
    /\ lastMessage' = [lastMessage EXCEPT ![Conv(task[s].msg)] = task[s].msg]
    /\ Goto(s, Idle)
    /\ UNCHANGED <<now, buckets, message, status, clientVars, history>>

(* The database applies conversation.save(): only lastMessage is written. *)
SavePointer(s) ==
    LET m == task[s].msg IN
    /\ task[s].pc = "save"
    /\ lastMessage' = [lastMessage EXCEPT ![Conv(m)] = m]
    /\ Goto(s, [pc |-> "publish", msg |-> m])
    /\ UNCHANGED <<now, buckets, message, status, clientVars, history>>

(* populate() returns; message:new goes to the room (onNewMessage appends  *)
(* it as built, with status 'sent') and the sender gets its ack.           *)
Publish(s) ==
    LET m == task[s].msg IN
    /\ task[s].pc = "publish"
    /\ shown' = [shown EXCEPT ![m] = "sent"]
    /\ acked' = acked \cup {m}
    /\ Goto(s, Idle)
    /\ UNCHANGED <<now, buckets, message, status, lastMessage, history>>

-----------------------------------------------------------------------------
(* message:delivered *)

(* A slip the runs catch: the receipt is saved whatever the status. *)
DeliveredFindBlind(s, u, m) ==
    /\ task[s] = Idle
    /\ m \in Stored
    /\ u \in Members[Conv(m)]
    /\ Goto(s, [pc |-> "deliver", msg |-> m, late |-> "read" \in reached[m]])
    /\ UNCHANGED <<now, buckets, message, status, lastMessage, clientVars, history>>

(* A slip the runs catch: the receipt is announced but never saved. *)
DeliveredFindUnsaved(s, u, m) ==
    /\ task[s] = Idle
    /\ m \in Stored
    /\ u \in Members[Conv(m)]
    /\ Goto(s, [pc |-> "delivered", msg |-> m])
    /\ UNCHANGED <<now, buckets, message, status, lastMessage, clientVars, history>>

(* findById and the membership check.  The status read here decides        *)
(* whether the receipt will be saved; either way it will be announced.     *)
DeliveredFind(s, u, m) ==
    /\ task[s] = Idle
    /\ m \in Stored
    /\ u \in Members[Conv(m)]
    /\ Goto(s, IF status[m] = "sent"
               THEN [pc |-> "deliver", msg |-> m, late |-> "read" \in reached[m]]
               ELSE [pc |-> "delivered", msg |-> m])
    /\ UNCHANGED <<now, buckets, message, status, lastMessage, clientVars, history>>

(* The database applies message.save(), whatever the status is by now. *)
DeliveredSave(s) ==
    LET m == task[s].msg IN
    /\ task[s].pc = "deliver"
    /\ status' = [status EXCEPT ![m] = "delivered"]
    /\ reached' = [reached EXCEPT ![m] = @ \cup {"delivered"}]
    /\ Goto(s, [pc |-> "delivered", msg |-> m])
    /\ UNCHANGED <<now, buckets, message, lastMessage, clientVars,
                   precedes, coveredBy>>

(* message:delivered goes to the room; onDelivered only upgrades 'sent'. *)
DeliveredEmit(s) ==
    LET m == task[s].msg IN
    /\ task[s].pc = "delivered"
    /\ shown' = [shown EXCEPT ![m] = IF @ = "sent" THEN "delivered" ELSE @]
    /\ Goto(s, Idle)
    /\ UNCHANGED <<now, buckets, message, status, lastMessage, acked, history>>

-----------------------------------------------------------------------------
(* message:read *)

Covered(m) ==
    {k \in Stored : Conv(k) = Conv(m) /\ message[k].createdAt <= message[m].createdAt}

(* A slip the runs catch: the sender's own messages are not left out. *)
ToMarkOwn(u, m) == {k \in Covered(m) : status[k] # "read"}

(* What Message.find selects: others' messages up to m, not yet read. *)
ToMark(u, m) ==
    {k \in Covered(m) : message[k].sender # u /\ status[k] # "read"}

(* The membership check and both finds; nothing to mark ends the handler. *)
ReadFind(s, u, m) ==
    /\ task[s] = Idle
    /\ m \in Stored
    /\ u \in Members[Conv(m)]
    /\ coveredBy' = [k \in Ids |-> IF k \in Covered(m) THEN coveredBy[k] \cup {u}
                                                       ELSE coveredBy[k]]
    /\ Goto(s, IF ToMark(u, m) = {} THEN Idle
               ELSE [pc |-> "mark", ids |-> ToMark(u, m)])
    /\ UNCHANGED <<now, buckets, message, status, lastMessage, clientVars,
                   precedes, reached>>

(* The database applies updateMany to the ids found. *)
ReadUpdate(s) ==
    LET ids == task[s].ids IN
    /\ task[s].pc = "mark"
    /\ status' = [m \in Ids |-> IF m \in ids THEN "read" ELSE status[m]]
    /\ reached' = [m \in Ids |-> IF m \in ids THEN reached[m] \cup {"read"}
                                              ELSE reached[m]]
    /\ Goto(s, [pc |-> "marked", ids |-> ids,
                changed |-> {m \in ids : status[m] # "read"}])
    /\ UNCHANGED <<now, buckets, message, lastMessage, clientVars,
                   precedes, coveredBy>>

(* message:read goes to the room; onRead marks the messages it displays. *)
ReadEmit(s) ==
    LET ids == task[s].ids IN
    /\ task[s].pc = "marked"
    /\ shown' = [m \in Ids |->
          IF m \in ids /\ shown[m] # "absent" THEN "read" ELSE shown[m]]
    /\ Goto(s, Idle)
    /\ UNCHANGED <<now, buckets, message, status, lastMessage, acked, history>>

-----------------------------------------------------------------------------
(* getMessageHistory *)

(* A slip the runs catch: the cursor's own instant is asked for again. *)
OlderOrSame(c, t) == {m \in Stored : Conv(m) = c /\ message[m].createdAt <= t}

(* What the query selects, before its limit. *)
Older(c, t) == {m \in Stored : Conv(m) = c /\ message[m].createdAt < t}

(* The pages the query may give: the newest ones, of one instant any. *)
Newest(ms, limit) ==
    IF Cardinality(ms) <= limit THEN {ms}
    ELSE {page \in SUBSET ms :
             /\ Cardinality(page) = limit
             /\ \A m \in page, k \in ms \ page :
                   message[k].createdAt <= message[m].createdAt}

(* createdAt of the last message of a page. *)
Oldest(page) ==
    CHOOSE t \in {message[m].createdAt : m \in page} :
        \A m \in page : t <= message[m].createdAt

(* A request for the messages before an instant, and a page it may get. *)
Responses(c, limit) ==
    UNION {{[before |-> t, page |-> page] : page \in Newest(Older(c, t), limit)} :
              t \in 0 .. now + 1}

(* nextCursor of a response; without hasMore there is none, and 0 asks for *)
(* nothing.                                                                *)
NextCursor(c, limit, r) ==
    IF Cardinality(Older(c, r.before)) <= limit THEN 0 ELSE Oldest(r.page)

(* What a client gets that follows nextCursor while there is hasMore; the  *)
(* first request has no cursor, and asks for everything up to now.         *)
Histories(c, limit) ==
    {h \in [1 .. MaxMsgs -> Responses(c, limit)] :
        \A n \in DOMAIN h :
            h[n].before = IF n = 1 THEN now + 1 ELSE NextCursor(c, limit, h[n - 1])}

-----------------------------------------------------------------------------

(* A database call rejects (before or after it took effect): the handler's *)
(* catch acknowledges a failure and nothing is undone.                     *)
Fail(s) ==
    /\ MayFail
    /\ task[s] # Idle
    /\ Goto(s, Idle)
    /\ UNCHANGED <<now, buckets, message, status, lastMessage, clientVars, history>>

(* The process restarts: handlers and buckets are gone, the database and   *)
(* what clients display are not.                                           *)
Restart ==
    /\ MayFail
    /\ task' = [s \in Slots |-> Idle]
    /\ buckets' = [u \in Users |-> NoBucket]
    /\ UNCHANGED <<now, message, status, lastMessage, clientVars, history>>

Tick ==
    /\ now < MaxTime
    /\ now' = now + 1
    /\ UNCHANGED <<buckets, message, status, lastMessage, task, clientVars, history>>

(* A call of a handler in progress returns. *)
Step(s) ==
    \/ Create(s) \/ Insert(s) \/ SavePointer(s) \/ Publish(s)
    \/ DeliveredSave(s) \/ DeliveredEmit(s)
    \/ ReadUpdate(s) \/ ReadEmit(s)

Next ==
    \/ \E s \in Slots : Step(s) \/ Fail(s)
    \/ \E s \in Slots, u \in Users, c \in Conversations : Send(s, u, c)
    \/ \E s \in Slots, u \in Users, m \in Stored :
          DeliveredFind(s, u, m) \/ ReadFind(s, u, m)
    \/ \E u \in Users : SendRejected(u)
    \/ Restart
    \/ Tick

Spec == Init /\ [][Next]_vars

(* Every call the driver has accepted is answered in the end. *)
FairSpec == Spec /\ \A s \in Slots : WF_vars(Step(s))

-----------------------------------------------------------------------------
(* Properties *)

DbStatus == {"sent", "delivered", "read"}

Task ==
    {Idle}
    \cup [pc : {"create"}, user : Users, conv : Conversations, seen : SUBSET Ids]
    \cup [pc : {"insert", "save", "publish", "delivered"}, msg : Ids]
    \cup [pc : {"deliver"}, msg : Ids, late : BOOLEAN]
    \cup [pc : {"mark"}, ids : SUBSET Ids]
    \cup [pc : {"marked"}, ids : SUBSET Ids, changed : SUBSET Ids]

Document == [conv : Conversations, sender : Users, createdAt : Nat]

(* Types, and the limit no bucket exceeds. *)
TypeOK ==
    /\ now \in Nat
    /\ buckets \in [Users -> Bucket]
    /\ \A u \in Users : buckets[u].count <= SendMax
    /\ message \in Seq(Document)
    /\ Len(message) <= MaxMsgs
    /\ status \in [Ids -> DbStatus \cup {"absent"}]
    /\ lastMessage \in [Conversations -> Ids \cup {0}]
    /\ task \in [Slots -> Task]
    /\ shown \in [Ids -> DbStatus \cup {"absent"}]
    /\ acked \in SUBSET Ids
    /\ precedes \in [Ids -> SUBSET Ids]
    /\ coveredBy \in [Ids -> SUBSET Users]
    /\ reached \in [Ids -> SUBSET DbStatus]

(* A message counts as read only if a member other than its sender asked   *)
(* for it: markMessagesRead never lets a sender read its own messages.     *)
ReadOnlyByOtherMembers ==
    \A m \in Stored : status[m] = "read" =>
        \E u \in coveredBy[m] \cap Members[Conv(m)] : u # message[m].sender

(* Concurrent sends may save their pointers in any order, but a message    *)
(* acknowledged before another's send began never ends up as lastMessage   *)
(* over that other once it is acknowledged too.                            *)
PointerSurvivesLaterSends ==
    \A m \in acked :
        /\ lastMessage[Conv(m)] # 0
        /\ lastMessage[Conv(m)] \notin precedes[m]

(* The conversation list populates lastMessage: the pointer never names a  *)
(* message of another conversation or one the database does not hold.      *)
PointerIsStored ==
    \A c \in Conversations : lastMessage[c] # 0 =>
        lastMessage[c] \in Stored /\ Conv(lastMessage[c]) = c

(* A client that follows nextCursor is told that there is no more after at *)
(* most as many pages as messages, and by then was given every stored      *)
(* message of the conversation once, whatever the page size, but for those *)
(* that did not fit in a page with another message of the same instant:    *)
(* they are never listed.                                                  *)
PagingMissesOnlyTies ==
    \A c \in Conversations, limit \in 1 .. MaxMsgs :
        /\ Histories(c, limit) # {}
        /\ \A h \in Histories(c, limit) :
              /\ Cardinality(Older(c, h[MaxMsgs].before)) <= limit
              /\ \A m \in Older(c, now + 1) :
                    LET Tie == \E n \in DOMAIN h :
                            /\ m \notin h[n].page
                            /\ \E k \in h[n].page :
                                  message[k].createdAt = message[m].createdAt
                    IN  Cardinality({n \in DOMAIN h : m \in h[n].page})
                            = IF Tie THEN 0 ELSE 1

(* The one way a read message stops being read: a message:delivered        *)
(* handler that looked at it before it was ever read saves afterwards.     *)
DowngradeOnlyByStaleReceipt ==
    [][\A m \in Ids : status[m] = "read" /\ status'[m] # "read" =>
          \E s \in Slots : /\ task[s].pc = "deliver" /\ task[s].msg = m
                           /\ task'[s].pc = "delivered"
                           /\ ~task[s].late]_vars

(* Clients only see what was durable first, and only forwards. *)
Promise == INSTANCE DurableBroadcast WITH Msgs <- Ids
ImplementsDurableBroadcast == Promise!Spec

(* Without failures a stored message is announced to its room. *)
StoredIsEventuallyShown ==
    \A m \in Ids : status[m] # "absent" ~> shown[m] # "absent"

-----------------------------------------------------------------------------
(* What docs and comments say and the code does not do *)

Quiet == \A s \in Slots : task[s] = Idle

(* message.service.ts:49, "does not downgrade an already-`read` message". *)
ReadIsNeverDowngraded ==
    [][\A m \in Ids : status[m] = "read" => status'[m] = "read"]_vars

(* APIDoc.md:692, message:read fires only if a status actually changed. *)
ReadBroadcastMeansChange ==
    \A s \in Slots : task[s].pc = "marked" => task[s].changed # {}

(* message.service.ts:10, lastMessage follows the most recent activity. *)
LastMessageIsNewest ==
    Quiet => \A m \in Stored : lastMessage[Conv(m)] # 0 =>
        message[lastMessage[Conv(m)]].createdAt >= message[m].createdAt

(* conversation.service.ts:119, the cursor serves infinite scroll.         *)
PagingMissesNothing ==
    \A c \in Conversations, limit \in 1 .. MaxMsgs : \A h \in Histories(c, limit) :
        UNION {h[n].page : n \in DOMAIN h} = Older(c, now + 1)

(* Plan.md:78, history and real-time delivery are always consistent. *)
HistoryMatchesBroadcast ==
    Quiet => \A m \in Stored : shown[m] # "absent"

(* receipt.handler.ts:23, every member's UI reflects the new status. *)
ReadReachesDisplay ==
    Quiet => \A m \in Stored : status[m] = "read" => shown[m] = "read"

(* unreadCounts of listConversations, for one conversation. *)
UnreadCount(u, c) ==
    Cardinality({m \in Stored : /\ Conv(m) = c
                                /\ message[m].sender # u
                                /\ status[m] # "read"})

(* conversation.service.ts:41, unreadCount counts others' messages "not    *)
(* yet marked `read` by the caller".                                       *)
UnreadCountsWhatCallerHasNotRead ==
    \A c \in Conversations : \A u \in Members[c] :
        UnreadCount(u, c) >=
            Cardinality({m \in Stored : /\ Conv(m) = c
                                        /\ message[m].sender # u
                                        /\ u \notin coveredBy[m]})
=============================================================================
