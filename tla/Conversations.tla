--------------------------- MODULE Conversations ----------------------------
(***************************************************************************)
(* Starting and listing conversations: createConversation and              *)
(* listConversations over MongoDB, and the list that useConversations      *)
(* keeps in each client.                                                   *)
(*                                                                         *)
(* The list is fetched once, when the client mounts.  Until the response   *)
(* is there the user may already start conversations, and message:new,     *)
(* user:online and user:offline events arrive.  Messages and updates of a  *)
(* user's status are saved by one handler each, and announced by it later: *)
(* several overlap and are announced in any order, or never.  Who hears    *)
(* them are whichever clients happen to be in the rooms (Rooms says which).*)
(* A user may be online with clients that are not in the model.            *)
(***************************************************************************)
EXTENDS Naturals, SequencesExt

CONSTANTS
    Users,      \* user ids
    Clients,    \* clients that start conversations
    Mounted,    \* those that display the list; the others only use REST
    UserOf,     \* the user signed in on each client
    Movers,     \* bound: users whose status is ever updated
    MaxConvs,   \* bound: conversations ever created
    MaxStarts,  \* bound: starts of all clients together
    MaxNews,    \* bound: messages and updates of status of all together
    MayFail     \* whether requests and handlers fail

ASSUME ConversationsAssumption ==
    /\ UserOf \in [Clients -> Users]
    /\ Mounted \subseteq Clients /\ Movers \subseteq Users
    /\ MaxConvs \in Nat /\ MaxStarts \in Nat /\ MaxNews \in Nat
    /\ MayFail \in BOOLEAN
    /\ Users \cap 1 .. MaxConvs = {}   \* ids of different collections

VARIABLES
    convs,      \* conversation documents, in order of _id
    updatedAt,  \* of each conversation document, by its _id
    last,       \* lastMessage of each conversation, by its number in it
    announced,  \* the message of each conversation that was announced last
    online,     \* users whose status in the database is online
    told,       \* users last announced as online
    unsent,     \* news that is saved, and that its handler has yet to announce
    news,       \* messages and updates of status so far, for the bound
    start,      \* the POST /conversations in progress of each client
    starts,     \* how many were begun, for the bound
    listing,    \* the GET /conversations of each client
    events,     \* message:new and presence events on their way to each client
    list,       \* conversations: the list each client displays, or was told of
    answered,   \* history: conversations some client was told of by a start
    known,      \* history: what was answered when a conversation's start began
    missed      \* history: conversations and users whose last news the list lacks

convVars == <<convs, updatedAt, last, announced>>
statusVars == <<online, told>>
serverVars == <<convVars, statusVars, unsent, news>>
clientVars == <<listing, events, list>>
vars == <<serverVars, start, starts, clientVars, answered, known, missed>>

Ids == 1 .. MaxConvs
None == [pc |-> "none"]
Kinds == {"1:1", "group"}

Init ==
    /\ convs = <<>>
    /\ updatedAt = [k \in Ids |-> 0]
    /\ last = [k \in Ids |-> 0]
    /\ announced = [k \in Ids |-> 0]
    /\ online = {} /\ told = {}
    /\ unsent = {}
    /\ news = 0
    /\ start = [c \in Clients |-> None]
    /\ starts = 0
    /\ listing = [c \in Clients |-> IF c \in Mounted THEN [pc |-> "asked"] ELSE None]
    /\ events = [c \in Clients |-> <<>>]
    /\ list = [c \in Clients |-> <<>>]
    /\ answered = {}
    /\ known = [k \in Ids |-> {}]
    /\ missed = [c \in Clients |-> {}]

Set(f, c, x) == [f EXCEPT ![c] = x]

(* The instant of a change: no two conversations change in the same one. *)
Now == Len(convs) + news + 1

Mine(c) == {k \in DOMAIN convs : UserOf[c] \in convs[k].members}

Listed(c) == {e.conv : e \in ToSet(list[c])}

-----------------------------------------------------------------------------
(* createConversation *)

(* The client asks for a conversation with another user, or, as the REST   *)
(* interface lets it, with its own; its members end up without repetition. *)
Start(c, kind, others) ==
    /\ start[c] = None
    /\ starts < MaxStarts
    /\ starts' = starts + 1
    /\ start' = Set(start, c,
          [pc |-> IF kind = "1:1" THEN "find" ELSE "create", kind |-> kind,
           members |-> {UserOf[c]} \cup others, known |-> answered])
    /\ UNCHANGED <<serverVars, clientVars, answered, known, missed>>

(* Slips the runs catch: $size is left out; $size is always two. *)
MatchesAll(k, ms) == convs[k].kind = "1:1" /\ ms \subseteq convs[k].members
MatchesPair(k, ms) ==
    convs[k].kind = "1:1" /\ convs[k].members = ms /\ \E u, v \in ms : u # v

(* The filter of findOne: a 1:1 conversation of exactly these members. *)
Matches(k, ms) == convs[k].kind = "1:1" /\ convs[k].members = ms

(* The database answers findOne; which of several matches is its choice. *)
Find(c) ==
    LET found == {k \in DOMAIN convs : Matches(k, start[c].members)} IN
    /\ start[c].pc = "find"
    /\ IF found = {}
       THEN start' = Set(start, c, [start[c] EXCEPT !.pc = "create"])
       ELSE \E k \in found : start' = Set(start, c,
               [pc |-> "answer", kind |-> "1:1", members |-> start[c].members,
                conv |-> k])
    /\ UNCHANGED <<serverVars, starts, clientVars, answered, known, missed>>

(* The database inserts the document. *)
Create(c) ==
    LET t == start[c] IN
    /\ t.pc = "create"
    /\ Len(convs) < MaxConvs
    /\ convs' = Append(convs, [kind |-> t.kind, members |-> t.members])
    /\ updatedAt' = [updatedAt EXCEPT ![Len(convs) + 1] = Now]
    /\ known' = [known EXCEPT ![Len(convs) + 1] = t.known]
    /\ start' = Set(start, c, [pc |-> "answer", kind |-> t.kind,
                               members |-> t.members, conv |-> Len(convs) + 1])
    /\ UNCHANGED <<last, announced, statusVars, unsent, news, starts, clientVars,
                   answered, missed>>

(* The response populates neither lastMessage nor members: no preview is   *)
(* shown, and nobody in it is recognised.                                  *)
Bare(k) == [conv |-> k, last |-> 0, members |-> {}, online |-> {}]

(* A slip the runs catch: the conversation is put in front unasked. *)
StartedBlind(c, k) == <<Bare(k)>> \o list[c]

(* The list after startConversation: put in front unless it is listed. *)
Started(c, k) == IF k \in Listed(c) THEN list[c] ELSE <<Bare(k)>> \o list[c]

(* The response arrives. *)
StartAnswered(c) ==
    LET k == start[c].conv IN
    /\ start[c].pc = "answer"
    /\ start' = Set(start, c, None)
    /\ list' = Set(list, c, Started(c, k))
    /\ answered' = answered \cup {k}
    /\ missed' = IF k \in Listed(c) \/ last[k] = 0 THEN missed
                 ELSE Set(missed, c, missed[c] \cup {k})
    /\ UNCHANGED <<serverVars, starts, listing, events, known>>

(* The request fails, on whatever side of the database call. *)
StartFails(c) ==
    /\ MayFail
    /\ start[c] # None
    /\ start' = Set(start, c, None)
    /\ UNCHANGED <<serverVars, starts, clientVars, answered, known, missed>>

-----------------------------------------------------------------------------
(* listConversations and refresh *)

(* The orders sort({ updatedAt: -1 }) may give. *)
ByRecency(ks) ==
    {order \in SetToSeqs(ks) :
        \A i, j \in DOMAIN order : i < j => updatedAt[order[i]] >= updatedAt[order[j]]}

(* A conversation with its lastMessage and its members populated. *)
Populated(k) ==
    [conv |-> k, last |-> last[k], members |-> convs[k].members,
     online |-> convs[k].members \cap online]

Pages(c) ==
    {[i \in DOMAIN order |-> Populated(order[i])] : order \in ByRecency(Mine(c))}

(* The database answers the find, sorted by updatedAt. *)
ListRead(c) ==
    /\ listing[c].pc = "asked"
    /\ \E page \in Pages(c) : listing' = Set(listing, c, [pc |-> "read", page |-> page])
    /\ UNCHANGED <<serverVars, start, starts, events, list, answered, known, missed>>

(* The response arrives and replaces the list. *)
ListArrives(c) ==
    /\ listing[c].pc = "read"
    /\ listing' = Set(listing, c, None)
    /\ list' = Set(list, c, listing[c].page)
    /\ UNCHANGED <<serverVars, start, starts, events, answered, known, missed>>

(* The request fails: the list stays as it is, and is not asked for again. *)
ListFails(c) ==
    /\ MayFail
    /\ listing[c] # None
    /\ listing' = Set(listing, c, None)
    /\ UNCHANGED <<serverVars, start, starts, events, list, answered, known, missed>>

-----------------------------------------------------------------------------
(* message:new, user:online, user:offline *)

(* What is new about a conversation, or about a user. *)
About(e) == IF e.kind = "message" THEN e.conv ELSE e.user

(* The handler of e sends it to the clients in `room`, and is done.  The   *)
(* others lack it, until something newer about the same reaches them.      *)
Broadcast(room, e) ==
    /\ e \in unsent
    /\ unsent' = unsent \ {e}
    /\ events' = [c \in Clients |-> IF c \in room THEN Append(events[c], e) ELSE events[c]]
    /\ missed' = [c \in Clients |-> IF c \in room THEN missed[c] \ {About(e)}
                                   ELSE missed[c] \cup {About(e)}]

(* createMessage has saved a message and the conversation's pointer.       *)
(* Messages are numbered by these saves.                                   *)
Save(k) ==
    /\ news < MaxNews
    /\ news' = news + 1
    /\ last' = [last EXCEPT ![k] = @ + 1]
    /\ updatedAt' = [updatedAt EXCEPT ![k] = Now]
    /\ unsent' = unsent \cup {[kind |-> "message", conv |-> k, last |-> last[k] + 1]}
    /\ UNCHANGED <<convs, announced, statusVars, start, starts, clientVars,
                   answered, known, missed>>

(* It is announced to the conversation's room. *)
Announce(e, room) ==
    /\ e.kind = "message"
    /\ \A c \in room : e.conv \in Mine(c)
    /\ Broadcast(room, e)
    /\ announced' = [announced EXCEPT ![e.conv] = e.last]
    /\ UNCHANGED <<convs, updatedAt, last, statusVars, news, start, starts, listing,
                   list, answered, known>>

StatusIn(us, u, isOnline) == IF isOnline THEN us \cup {u} ELSE us \ {u}

(* setUserOnline or setUserOffline is applied, even to a user whose status *)
(* it already is; Presence says when.  No two are of the same instant.     *)
StatusSet(u, isOnline) ==
    /\ news < MaxNews
    /\ news' = news + 1
    /\ online' = StatusIn(online, u, isOnline)
    /\ unsent' = unsent \cup {[kind |-> "presence", user |-> u, online |-> isOnline,
                               at |-> news + 1]}
    /\ UNCHANGED <<convVars, told, start, starts, clientVars, answered, known, missed>>

(* It is announced to the rooms of all conversations of the user, where    *)
(* `room` are; a client in several of them gets the same event again.      *)
StatusAnnounced(e, room) ==
    /\ e.kind = "presence"
    /\ \A c \in room : \E k \in Mine(c) : e.user \in convs[k].members
    /\ Broadcast(room, e)
    /\ told' = StatusIn(told, e.user, e.online)
    /\ UNCHANGED <<convVars, online, news, start, starts, listing, list, answered, known>>

(* What comes between the save and the announcement, populate or the query *)
(* for the rooms, fails: nobody hears of it.                               *)
Unannounced(e) ==
    /\ MayFail
    /\ e \in unsent
    /\ unsent' = unsent \ {e}
    /\ missed' = [c \in Clients |-> missed[c] \cup {About(e)}]
    /\ UNCHANGED <<convVars, statusVars, news, start, starts, clientVars, answered, known>>

(* findIndex, and moving the entry it found to the front. *)
IndexOf(c, k) == SelectInSeq(list[c], LAMBDA e : e.conv = k)
ToFront(c, i, n) == <<[list[c][i] EXCEPT !.last = n]>> \o RemoveAt(list[c], i)

(* Slips the runs catch: a conversation in front is taken to be up to      *)
(* date; findIndex's -1 is used as an index.                               *)
BumpedUnlessFirst(c, m) ==
    LET i == IndexOf(c, m.conv) IN
    IF i \in {0, 1} THEN list[c] ELSE ToFront(c, i, m.last)
BumpedUnguarded(c, m) ==
    LET i == IndexOf(c, m.conv) IN
    IF i = 0 THEN <<[Bare(0) EXCEPT !.last = m.last]>> \o list[c] ELSE ToFront(c, i, m.last)

(* bumpConversationWithMessage: a listed conversation moves to the front.  *)
Bumped(c, m) ==
    LET i == IndexOf(c, m.conv) IN
    IF i = 0 THEN list[c] ELSE ToFront(c, i, m.last)

WithStatus(e, p) ==
    IF p.user \in e.members
    THEN [e EXCEPT !.online = IF p.online THEN @ \cup {p.user} ELSE @ \ {p.user}]
    ELSE e

(* A slip the runs catch: only the conversation in front is updated. *)
PresentInFront(c, p) ==
    [i \in DOMAIN list[c] |-> IF i = 1 THEN WithStatus(list[c][i], p) ELSE list[c][i]]

(* updatePresence: the user's status in every conversation that lists it. *)
Present(c, p) == [i \in DOMAIN list[c] |-> WithStatus(list[c][i], p)]

Took(c) == /\ events' = Set(events, c, Tail(events[c]))
           /\ UNCHANGED <<serverVars, start, starts, listing, answered, known>>

(* News that comes after the list was read and before it is there is       *)
(* overwritten by it.                                                      *)
Receive(c) ==
    LET m == Head(events[c]) IN
    /\ events[c] # <<>>
    /\ m.kind = "message"
    /\ Took(c)
    /\ list' = Set(list, c, Bumped(c, m))
    /\ missed' = IF listing[c].pc = "read" THEN Set(missed, c, missed[c] \cup {m.conv})
                 ELSE missed

ReceivePresence(c) ==
    LET p == Head(events[c]) IN
    /\ events[c] # <<>>
    /\ p.kind = "presence"
    /\ Took(c)
    /\ list' = Set(list, c, Present(c, p))
    /\ missed' = IF listing[c].pc = "read" THEN Set(missed, c, missed[c] \cup {p.user})
                 ELSE missed

-----------------------------------------------------------------------------

Next ==
    \/ \E c \in Clients, kind \in Kinds, o \in Users : Start(c, kind, {o})
    \/ \E c \in Clients : Find(c) \/ Create(c) \/ StartAnswered(c) \/ StartFails(c)
    \/ \E c \in Clients : ListRead(c) \/ ListArrives(c) \/ ListFails(c)
    \/ \E k \in DOMAIN convs : Save(k)
    \/ \E u \in Movers, isOnline \in BOOLEAN : StatusSet(u, isOnline)
    \/ \E e \in unsent, room \in SUBSET Mounted : Announce(e, room) \/ StatusAnnounced(e, room)
    \/ \E e \in unsent : Unannounced(e)
    \/ \E c \in Clients : Receive(c) \/ ReceivePresence(c)

Spec == Init /\ [][Next]_vars

-----------------------------------------------------------------------------
(* Properties *)

Entry == [conv : DOMAIN convs, last : 0 .. MaxNews,
          members : SUBSET Users, online : SUBSET Users]
Event == [kind : {"message"}, conv : DOMAIN convs, last : 0 .. MaxNews]
    \cup [kind : {"presence"}, user : Users, online : BOOLEAN, at : 0 .. MaxNews]

(* Types; whatever a client lists is a conversation that exists. *)
TypeOK ==
    /\ convs \in Seq([kind : Kinds, members : SUBSET Users]) /\ Len(convs) <= MaxConvs
    /\ updatedAt \in [Ids -> Nat]
    /\ last \in [Ids -> 0 .. MaxNews]
    /\ announced \in [Ids -> 0 .. MaxNews]
    /\ online \subseteq Users /\ told \subseteq Users
    /\ unsent \subseteq Event /\ news \in 0 .. MaxNews
    /\ starts \in 0 .. MaxStarts
    /\ \A c \in Clients :
          /\ start[c].pc \in {"none", "find", "create", "answer"}
          /\ listing[c].pc \in {"none", "asked", "read"}
          /\ events[c] \in Seq(Event)
          /\ list[c] \in Seq(Entry)
    /\ answered \subseteq DOMAIN convs
    /\ known \in [Ids -> SUBSET Ids]
    /\ missed \in [Clients -> SUBSET (Ids \cup Users)]

(* However starts, the list response and events interleave, a client lists *)
(* each conversation once, and only conversations of its user.             *)
ListIsMine ==
    \A c \in Clients :
        /\ Listed(c) \subseteq Mine(c)
        /\ Cardinality(Listed(c)) = Len(list[c])

(* What createConversation answers is what was asked for: nobody is led    *)
(* into a conversation with other members, or into a group.                *)
StartGivesTheAsked ==
    \A c \in Clients : start[c].pc = "answer" =>
        convs[start[c].conv] = [kind |-> start[c].kind, members |-> start[c].members]

(* createConversation reuses: a second 1:1 conversation of the same        *)
(* members only comes from a start that began before any client had been   *)
(* told of the first.                                                      *)
OneToOneIsReused ==
    \A j \in DOMAIN convs : \A i \in known[j] :
        ~(convs[i].kind = "1:1" /\ convs[j] = convs[i])

(* However sends overlap and in whatever order they are announced, once    *)
(* all are, and the client has heard everything, its list shows of each    *)
(* conversation the message announced last, or the last one.  Not so after *)
(* an announcement that failed, that the client's socket was not in the    *)
(* room for, or that the list response overwrote: until the next one that  *)
(* reaches it, which mends it.                                             *)
ListIsCurrent ==
    \A c \in Clients : listing[c] = None /\ events[c] = <<>> =>
        \A e \in ToSet(list[c]) :
            \/ e.last = announced[e.conv]
            \/ e.last = last[e.conv]
            \/ \E n \in unsent : n.kind = "message" /\ n.conv = e.conv
            \/ e.conv \in missed[c]

(* Likewise the status of each member, in every conversation the list has  *)
(* the member of: it is the one announced last, or the database's, however *)
(* updates overlap.                                                        *)
StatusIsCurrent ==
    \A c \in Clients : listing[c] = None /\ events[c] = <<>> =>
        \A e \in ToSet(list[c]) : \A u \in e.members :
            \/ u \in e.online <=> u \in told
            \/ u \in e.online <=> u \in online
            \/ \E n \in unsent : n.kind = "presence" /\ n.user = u
            \/ u \in missed[c]

-----------------------------------------------------------------------------
(* What docs and comments say and the code does not do *)

(* conversation.service.ts:8, a 1:1 conversation is created idempotently. *)
OneConversationPerPair ==
    \A i, j \in DOMAIN convs : convs[i].kind = "1:1" /\ convs[i] = convs[j] => i = j

(* useConversations.ts:2, the list is kept live-updated for new messages:  *)
(* once all are announced and heard, it shows the last one.                *)
PreviewIsNewest ==
    \A c \in Clients : listing[c] = None /\ events[c] = <<>> /\ unsent = {} =>
        \A e \in ToSet(list[c]) : e.last = last[e.conv] \/ e.conv \in missed[c]

(* getConversationLabel of the conversation list. *)
Label(c, e) ==
    CASE convs[e.conv].kind = "group" -> "group"
      [] convs[e.conv].kind = "1:1" /\ e.members \subseteq {UserOf[c]} -> "Unknown user"
      [] OTHER -> CHOOSE u \in e.members : u # UserOf[c]

(* types/index.ts:32, "members: User[]", of every conversation the client  *)
(* has: it calls a 1:1 conversation by the other member's name.            *)
ListedIsNamed ==
    \A c \in Clients : \A e \in ToSet(list[c]) :
        convs[e.conv].kind = "1:1" =>
            \A u \in convs[e.conv].members \ {UserOf[c]} : Label(c, e) = u

(* useConversations.ts:78, a conversation started is on the list: it is    *)
(* not lost to a list response that was on its way.                        *)
StartedStaysListed ==
    [][\A c \in Clients : Listed(c) \subseteq Listed(c)']_vars
=============================================================================
