# Verification of the real-time chat

TLA+ models of the chat in this repository (an Express / Socket.io / MongoDB
server under `src/`, a React client under `frontend-ui/`), the TLC
configurations that check them, and TLAPS proofs about them. Paths below are
relative to the repository root; short names stand for
`src/sockets/handlers/*.handler.ts`, `src/services/*.service.ts` and
`frontend-ui/src/hooks/*.ts`.

    tlc -config Messaging.cfg MCMessaging.tla      # model-check
    tlapm MessagingProofs.tla                      # check the proofs

## 1. Inventory

One Node process serves every socket. JavaScript runs to completion between
awaits, so the unit of interleaving is the segment between two awaits, and
every await is a database call. The state that outlives a handler is MongoDB,
three pieces of process memory (rate-limit buckets, `activeConnections`,
Socket.io's rooms), and what each client holds, in memory and in localStorage.

| component | state | operations | talks to |
|---|---|---|---|
| message rate limiter (`middlewares/socketRateLimit`) | `buckets`: count and window start per user | `checkMessageRateLimit` | called by message:send |
| message pipeline (`message`, `receipt` handlers, `message.service`) | messages with one status field, `lastMessage` of a conversation | message:send, message:delivered, message:read | broadcasts to rooms, acks the sender |
| presence (`presence` handler and service, `sockets/index.ts`) | `activeConnections`, `users.status` | connect, disconnect, status updates | broadcasts to rooms |
| rooms and connections (`connection.handler`, `sockets/index.ts`, `lib/socket.ts`) | rooms of each socket | handshake, autoJoin, conversation:join / leave, drop, reconnect | every broadcast goes through them |
| typing (`typing.handler`, `useMessages`) | timer and `typingUsers` of each client | `notifyTyping`, the relays, the listeners | rooms |
| open thread (`useMessages`) | messages with their status, and loading flag of the client | open, history, message and receipt events | history query, rooms |
| conversation service (`conversation.service`) | conversation documents | create (1:1 reuse), list with unread counts, membership, history | called by REST and by the handlers |
| conversation list (`useConversations`) | the client's list | refresh, startConversation, message:new, presence events | REST, rooms |
| accounts and tokens (`auth.service`, `utils/jwt`, `auth.middleware`) | users, unique indexes; a token is only its claims and its expiry | signup (two database calls around a slow hash), login, me | REST, handshake |
| client session (`AuthContext`, `lib/socket`, `AuthPage`) | token, user and socket of each tab, the token in the localStorage all tabs share | restore, login, signup, logout, handshake, drop | accounts, socket |
| server lifecycle (`server.ts`) | the listening server | start, shutdown, unhandledRejection | all connections |
| user search, REST plumbing, Redis adapter | none of their own | queries, routing, validation | - |

What is hard, and which property watches it, is listed in `PROJECT.json` under
"hazards", each at its line. In short: status, pointer and receipt updates
that span several database calls; a connection that goes away while its
handler waits; joins that answer late and leaves that act at once; responses
and events that reach a client in any order; a shared debounce timer; and a
process that dies between two calls. For each component, correct means:

* limiter: the burst a fixed window can promise, no refusal without a burst;
* pipeline: what people see was durable first and only moves forwards,
  acknowledged sends are not lost from the conversation's preview, only other
  members mark a message read;
* presence: tracking is exact, updates start only at the first and last
  connection, and undisturbed updates leave everyone agreeing;
* rooms: members only, and the conversation that is open is always covered;
* typing: an indicator is only there while something will end it;
* thread: only the open conversation, nothing lost that the client was due,
  no receipt lost either, and a loading hint only while something is loading;
* conversations: a start gives what was asked for and reuses, a list names
  each of the user's conversations at most once, and its previews and statuses
  are current once it has heard everything;
* accounts: usernames and emails are unique and never change owner, tokens are
  of registered accounts, a conflict names a field that is taken;
* session: user, token, socket and storage of a tab agree, and restoring,
  starting and ending a session settle.

## 2. Modules

    RateBucket <- RateLimit                 (+ RateLimitProofs)
        ^-------- Messaging --implements--> DurableBroadcast   (+ MessagingProofs)
    Presence                                (+ PresenceProofs)
    Rooms                                   (+ RoomsProofs)
        ^-------- Typing                    (+ TypingProofs)
        ^-------- ChatClient                (+ ChatClientProofs)
    Conversations                           (+ ConversationsProofs)
    Accounts --implements--> UniqueRegistry
        ^-------- Session                   (+ SessionProofs)

`MC*.tla` only give constants their values.

**RateBucket / RateLimit.** A bucket and the three operators of
`checkMessageRateLimit` on it; `RateLimit` is the limiter alone, with a clock
and a history of the sends it accepted and refused. `RateLimit` covers one
life of the process; restarts, which empty the buckets, are in `Messaging`.

**Messaging.** A handler occupies a slot (`task[s]`) and moves from one
database call to the next: `Send, Create, Insert, SavePointer, Publish` for
message:send, `DeliveredFind, DeliveredSave, DeliveredEmit`, `ReadFind,
ReadUpdate, ReadEmit`. A step is one call as the database applies it plus the
segment of the handler next to it; calls that read what never changes
(members, a message's sender) are joined to their neighbour. `updateMany` is one
step. `Fail` ends any handler at any call, `Restart` loses all of them and the
buckets. `shown` is what a client displays that has the conversation open all
along; `precedes`, `coveredBy` and `reached` are history. `Histories` are what
`getMessageHistory` may answer a client that follows its cursor: each response
is the newest messages before the cursor up to the limit, where the database
orders messages of one instant as it likes, and the next cursor is the oldest
`createdAt` of the page while there is more.

**DurableBroadcast.** What the pipeline promises, without handlers: store,
record a receipt, announce, announce a receipt. `Messaging` implements it with
`reached` and `shown` mapped to themselves. What follows from it is stated
there: `DisplayedIsDurable` and `OnlyForward`.

**Presence.** A socket is new, joining (autoJoin awaited), open, failed,
orphan (gone while joining), ghost (an orphan that was counted afterwards) or
closed. A status update is a write (`writing`), then a room query and broadcast
(`casting`); updates overtake each other freely. `disturbed` records that a
user's updates overlapped, failed or were cut off.

**Rooms.** One connection per client at a time. Client packets arrive in
order, so `Open` (the effect of `useMessages`: leave the old room, ask for the
new) is one step as far as leaving goes, while `JoinAnswered` and `AutoJoined`
answer in any order. Packets sent while down are buffered by socket.io-client.
`Shutdown` and `Exit` are `server.ts`, which waits for connections that it
never closes; something outside starts the process again.

**Typing** extends Rooms with `notifyTyping`'s timer, typing:start and :stop
on their way through the membership query, and `typingUsers`. `StopLost` is a
:stop emitted as the transport goes.

**ChatClient** extends Rooms with messages and their receipts, history
requests, and the thread. Effects of `useMessages` are numbered by `opens`;
`cancelled` is a request whose number is not the last. The server stores,
records and announces in any order that `Messaging` allows (`Record` and
`AnnounceReceipt` are what its handlers do to the outside; which of two
receipts is the last in the database is left open, since a stale
message:delivered overwrites read). A thread is a sequence of messages with the
status displayed, as `onNewMessage`, `onDelivered` and `onRead` leave it. There
are fewer messages than a page holds. `sendMessage` and `markRead` change
nothing in the client: what they ask of the server is `Store` and `Record`.

**Conversations.** `createConversation` as two calls, `listConversations`,
and the list of `useConversations` under its fetch, starts and message:new.
The response to a start is not populated, so the entry it puts on the list has
no preview (`last = 0`) until a message or a reload; its members are bare ids,
which is why the UI calls it "Unknown user" meanwhile. The UI starts 1:1
conversations; groups and a conversation with oneself are open to the REST
interface and are in the model. `updatedAt` is stamped with `Now`, which no two
changes share: updates of two conversations in the same millisecond, whose
order the database may choose, are left out. `Pages` are the sequences that
`sort({ updatedAt: -1 })` allows. A list that was answered holds the status of
each member; `updatePresence` replaces it in every conversation of that member.
News is a message that was saved or a status that was written; `unsent` is the
news whose handler has yet to announce it. Handlers overlap: several messages
of one conversation and several updates of one user may be unsent at once, and
are announced in any order (`Announce`, `StatusAnnounced`) or, when what the
handler awaits after the save fails, never (`Unannounced`). Nothing ties a
status to a connection here: `Presence` says when one is written. A client may
or may not be in the room (`Rooms` says when), so who hears an announcement is
a choice among the clients that display a list. `missed` is history, per
client: what it did not hear, or heard between the database's answer to its
list request and the response, which overwrites it; the next news of the same conversation or user that reaches the
client mends it. Message numbers follow the order in which pointers are saved.

**Accounts.** The three calls of the REST interface a session needs. A signup
looks for an existing account, hashes, and then creates: other calls come in
between (`hashing`), and the unique indexes have the last word. Emails are
typed in two cases and stored in lower case. An answer is in the hands of the
network (`reply`) until the tab takes it, and `CallFails` loses requests and
answers. `now` is a clock that tokens expire by.

**UniqueRegistry.** What accounts promise without calls, hashes or failures:
register an account whose username and email are free, issue tokens for
registered accounts. `Accounts`, as `Session` uses it, implements it with
the accounts as they are and the tokens anybody holds.

**Session** extends Accounts with `AuthContext` in every tab of one browser:
`Reload` (mount and restoreSession), `Submit`, `PersistSession`, `Logout`, and
the socket with the token it was opened with, whose handshake is decided
separately. `foreign` is history: the tabs that have not seen the last write to
the storage they share. Tabs never close in the model, so where a property says
"some tab's token" the tab is one that is open or was closed since.

### Abstractions common to all

Texts, names, emails, acks without effect and logging are left out. Members of
a conversation never change in this code, so `Members` is a constant (in
`Conversations` they are what a document was created with). Tokens expire in
`Session` only. The clock of the process is monotone. Limits that the source
itself documents (several instances of the server, conversations created after
a socket connected not being joined automatically) are taken as its
specification and not reported.

## 3. Runs

Times are for two workers. Each property's mutant is in `PROJECT.json`; its
operator stands before the definition it replaces, under "a slip the runs
catch".

| run | states | what it shows |
|---|---|---|
| RateLimit | 707,000, 10 s | two users, six instants, five sends each: `BurstBound`: 2 * SendMax accepted sends span a whole window (a fixed window cannot promise SendMax per window). `RefusedOnlyAfterBurst`: a refusal follows SendMax accepted sends less than a window old |
| Messaging | 433,000, 1.7 min | two handlers, two messages, two instants, no failures: `ReadOnlyByOtherMembers`; `PagingMissesOnlyTies`, for every page size and every order of ties: following the cursor comes to an end and lists each message once, but for ties across a page edge; `DowngradeOnlyByStaleReceipt`, the only way read is lost; `StoredIsEventuallyShown` |
| MessagingFailures | 921,000, 1 min | the same with failing calls and restarts: `TypeOK`, `PointerSurvivesLaterSends`, `PointerIsStored`, `ImplementsDurableBroadcast` |
| Presence | 108,000, 1 min | two tabs of one user and one of another, failures, restarts: `TrackingIsExact`, `PresenceConverges`, `OpenTabIsAnnounced`, and its counterpart `GoneUserIsAnnounced` |
| Rooms | 8,000, 5 s | one client, two conversations of its own and a foreign one, four opens: `RoomsAreMembersOnly`, `OpenIsCovered`, `OpenIsJoined` |
| Typing | 2,039,000, 1.5 min | one client types, both switch between two conversations, relays fail: `IndicatorIsBacked` |
| TypingLiveness | 22,000, 15 s | `IndicatorEnds` |
| ChatClient | 3,370,000, 2.5 min | three opens, one message with both receipts, failing requests, drops: `ThreadIsOfView`, `DueIsShown`, `ReadIsShown`, `LoadingIsBacked` |
| Conversations | 3,996,000, 2.5 min | two clients that start conversations, two starts and documents; of the one that displays the list, two pieces of news (messages of one conversation or of both, updates of the other user, or one of each) that overlap and come in any order, failing requests and handlers: `TypeOK`, `ListIsMine`, `StartGivesTheAsked`, `OneToOneIsReused`, `ListIsCurrent`, `StatusIsCurrent` |
| Session | 393,000, 1.7 min | two tabs, forms of two people and an email in the other case, late and lost answers, expiry, drops: `SessionAgrees`, `StorageAgrees`, `ConflictNamesField`, `IsRegistry`, `SessionSettles` |
| MessagingDowngrade | violation | `ReadIsNeverDowngraded`: a stale message:delivered puts read back to delivered |
| PresenceGhost | violation | `TrackedSocketsAreConnected`: a socket that disconnects during autoJoin is tracked for good |

**Bounds.** Every hazard listed needs at most two handlers, updates or joins in
flight, so two slots, two tabs and two messages let it happen; a third open in
ChatClient and a fourth in Rooms allow A, B, A with an answer of the first A
outstanding. ChatClient has one message, of either conversation: no action
relates two messages of a thread, and its theorems hold for any number.
Conversations needs two clients for racing starts, and two pieces of news
(`MaxNews`) to announce in the wrong order. A list depends on what its own
client asks and hears and on the server, so one of the two displays one
(`Mounted`) and the other starts conversations as the REST interface allows.
`Movers` bounds whose status is updated; users are offline when they sign up.
Tokens of Session live one instant of three, so one can expire while another is new.
Two messages of one sender need the second instant of `Messaging` (window 2) or
the restart of `MessagingFailures`. In Rooms one socket is enough: sockets
share only `closing`. The clock, the number of messages, opens, strokes and
starts are bounded by guards named `Max...`; the theorems hold for every value
of those bounds. `SlotSymmetry` permutes only model values that no action
or property tells apart, in a run without liveness.

Deadlock is not checked where the bounds let the system stop (all but Rooms
and the Typing runs).

**Fairness.** Weak fairness on what the environment owes: the database answers
every call (or rejects it), timers fire, socket.io-client reconnects while the
server accepts, the process exits when nothing keeps it. In Session, requests
are answered or fail, answers that arrived are taken, and handshakes are
decided. Nothing is assumed of users: they may never open, type, send, sign in
or close. ChatClient states no fairness: `LoadingIsBacked` ties the loading
hint to a request, and requests end. Liveness of the pipeline is checked
without failures, since a failed call is never retried by the code.

### Where documents and code part

The two violation runs are findings in `PROJECT.json`. Further statements of
documents that the code does not keep are definitions at the end of their
modules ("What docs and comments say and the code does not do"), two of them
with an operator of their own (`Messaging!UnreadCount`, `Conversations!Label`).
TLC violates each when checked on its module's instance, but no run is kept:

| definition | the statement | what happens |
|---|---|---|
| RateLimit!SlidingWindow | socketRateLimit.middleware.ts:28 | twice N across a window's edge |
| Messaging!ReadBroadcastMeansChange | APIDoc.md:692 | message:read is broadcast although another handler had changed the status first |
| Messaging!LastMessageIsNewest | message.service.ts:10 | two sends save the pointer in the other order |
| Messaging!HistoryMatchesBroadcast | Plan.md:78 | inserted, then a call fails: stored but never announced |
| Messaging!ReadReachesDisplay | receipt.handler.ts:23 | the handler fails after updateMany |
| Messaging!UnreadCountsWhatCallerHasNotRead | conversation.service.ts:41 | in a group, one member's read clears the count of all |
| Presence!OnlineWhileTracked | presence.service.ts:7 | offline of an old tab overtakes online of a new one |
| Presence!OfflineWithoutConnection | APIDoc.md:371 | a ghost, or a crash, leaves the user online |
| Presence!SecondTabIsQuiet | APIDoc.md:757 | a tab that closes before it is counted passes for the last one, although another is still joining: an offline update starts |
| Presence!ConnectionIsTracked | presence.handler.ts:34 | autoJoin rejects and the socket is never counted |
| Rooms!LeftRoomStaysLeft | APIDoc.md:474 | a join answered late undoes the leave |
| Rooms!ListStaysLive | useConversations.ts:1 | opening another conversation leaves the room the list listens to |
| Rooms!ShutdownCompletes | Plan.md:16 | server.close waits for websockets nobody closes |
| Typing!OwnTypingIsNotShown | typing.handler.ts:14 | a second tab of the same user shows it |
| Typing!StopFollowsStart | APIDoc.md:751 | typing in another conversation replaces the timer |
| Typing!FailureIsSilent | Plan.md:93 | an unhandled rejection shuts the server down |
| Messaging!PagingMissesNothing | conversation.service.ts:119 | messages of one millisecond across the edge of a page are never listed |
| ChatClient!ThreadMissesNothing | useMessages.ts:18 | a message between the history query and the join, or during a drop, never reaches the thread |
| ChatClient!ReadReachesThread | receipt.handler.ts:23 | the page was read before the receipt and arrives after its announcement |
| ChatClient!ThreadHasNoDuplicates | Plan.md:78 | a message in the page and announced after it |
| Conversations!OneConversationPerPair | conversation.service.ts:8 | both members start at once |
| Conversations!PreviewIsNewest | useConversations.ts:2 | two messages are broadcast in the other order than their pointers were saved |
| Conversations!StartedStaysListed | useConversations.ts:78 | a list response that was on its way drops it |
| Conversations!ListedIsNamed | types/index.ts:32 | the answer to a start has bare member ids: no name and no status until a reload |
| Accounts!ConflictIsNamed | auth.service.ts:22 | an email typed in another case is reported as the username |
| Accounts!DuplicateIsConflict | APIDoc.md:116 | the loser of two signups gets the 500 of the unique index |

Without a model: user.service.ts:4 says that no search term falls back to the
most recently active users; the query sorts by username.

## 4. Theorems

Proved by TLAPS for every value of the constants allowed by the named
assumptions (`RateAssumption`, `ModelAssumption`, `PresenceAssumption`,
`RoomsAssumption`, `ChatAssumption`, ...), that is, for any number of users,
sockets, slots, messages, and any limit and window.

* **RateLimitProofs**: `TypeCorrect`, `BurstsAreBounded`,
  `RefusalsAreJustified`. The invariant ties a bucket to the history: its count
  is the number of accepted sends since windowStart, and those before it are
  over.
* **MessagingProofs**: `TypeCorrect`, `ReadersTheorem`, `PointerTheorem`,
  `StoredPointerTheorem`, `DowngradeTheorem`, and `DurabilityTheorem`, the refinement of
  `DurableBroadcast`. The invariant `IInv` adds to the checked ones what a
  handler in progress knows (`TaskHolds`: a handler about to insert holds an id
  whose row is absent, one about to save the pointer a stored one, ...), that
  no two handlers own one message (`Distinct`), and what a stored message has
  behind it (`MessageHolds`, `PointerHolds`). `PointerSurvivesLaterSends` needs
  it: what a send's `precedes` holds was acknowledged before, hence older.
  `DisplayTheorem` and `ForwardTheorem` are what `DurableBroadcast` promises,
  carried back along the refinement: no handler, however it overlaps another or
  dies, makes a client display what was never durable, or take a status back,
  although `DowngradeOnlyByStaleReceipt` says that the database does.
  `PagingTheorem` needs only `TypeOK`, and says of every state, page size and
  order of ties that a history ends and what it lists. Its argument:
  every cursor is less than the one before (`NextRequest`), so MaxMsgs requests
  reach the end (`PagesRunOut`); a message is in at most one page, as a page
  lies between two cursors; and the last request that still covers a message
  lists it (`LastIsListed`), unless its instant is that of the cursor.
  Induction over the requests is done without an induction theorem: `Least`,
  a least element from the well-foundedness of the finite subsets of an
  interval, and `FromTheFirst`, which it gives.
* **PresenceProofs**: `TypeCorrect`, `TrackingTheorem`, `ConvergenceTheorem`. The invariant `Calm` says of an undisturbed user that
  it is settled, or has exactly one update in the database call or on its way
  to the rooms, and that this one agrees with `active`.
* **RoomsProofs**: `RoomsTypeCorrect`, `MembersTheorem` and `CoverageTheorem`,
  by induction over the rooms, joins in flight and failed joins of each client.
* **TypingProofs**: `TypingUsesRooms` (every behaviour of Typing is one of
  Rooms, so the theorems above carry over), `TypingTypeCorrect` and
  `IndicatorTheorem`.
* **ChatClientProofs**: `ChatUsesRooms`, `ChatTypeCorrect`, `ThreadTheorem`,
  `DueTheorem`, `ReadTheorem` and `LoadingTheorem`, all from one invariant
  `CInv`, said of each client: at most one request is current, it is for the
  open conversation, and nothing is due before it is answered (`LoadHolds`);
  threads and channels hold stored messages; what is due is displayed or has
  its message:new in the channel (`DueHolds`); what is due as read is displayed
  so or has its message:read in the channel, behind the message:new if the
  thread lacks the message (`ReadHolds`). The last is what makes a receipt that
  arrives find its message.
* **ConversationsProofs**: `AnswerTheorem` and `ReuseTheorem`, whose invariant
  `CInv` says what a start in progress has learnt: once findOne returned
  nothing, no conversation answered before the start began has its members.
  `ListTypeTheorem`, `MineTheorem`, `CurrentTheorem` and `StatusTheorem` come
  from `IInv`, which adds the types and, of each client, `ListHolds`. None of
  the last three is inductive: a list is current only because whatever it lacks
  is still on its way. So `ListHolds` says of each entry, of the list and of
  a page on its way alike, that it is what the database has or last announced,
  or that an event about it is in the channel or has yet to be announced, or
  that the client missed one; and of the last event about a conversation or a
  user, that it tells what was announced last. No two pieces of news need be
  apart for this: the theorems hold for sends and updates that overlap.
* **SessionProofs**: `TypeCorrect`, `SessionTheorem`, `StorageTheorem`,
  `ConflictTheorem`, `RegistryTheorem` (the refinement of `UniqueRegistry`) and
  `PromiseTheorem` (what UniqueRegistry promises, and therefore the code). The
  invariant says of every token in a tab, a socket, the storage or an answer on
  its way that it names a registered account, and of a signup between its
  two calls what it is still free to create.

Every invariant and action property that a passing run checks is a theorem.
Only model-checked: liveness (`OpenTabIsAnnounced`,
`GoneUserIsAnnounced`, `OpenIsJoined`, `StoredIsEventuallyShown`, `IndicatorEnds`, `SessionSettles`), and with it
fairness and ENABLED, which the provers do not reach. What the two violation
runs and the definitions of the table above show is a counterexample each.

## 5. Not modelled, and the plan

Not modelled at all: user search (one query; its picker has one local race,
listed as a hazard), routing and error formatting (stateless; the limiter of
the auth routes is express-rate-limit's), the Redis adapter (off by default),
the start-up order and the database connection of the server.

Left for later:

1. a composition of Messaging and Rooms, in which a broadcast reaches exactly
   the clients that are in the room at that moment and a client's markRead
   waits for what its thread displays;
2. groups with more than one reader, whose unread counts the code shares.
