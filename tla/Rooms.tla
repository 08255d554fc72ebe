------------------------------- MODULE Rooms --------------------------------
(***************************************************************************)
(* Connections and Socket.io rooms: which sockets a conversation's events  *)
(* reach.  On the server, the connection handler of sockets/index.ts, the  *)
(* conversation:join and conversation:leave handlers and the shutdown of   *)
(* server.ts; on the client, the effect of useMessages that leaves one     *)
(* room and joins another when the user opens a conversation.              *)
(*                                                                         *)
(* Socket.io delivers a client's packets in order, and :leave takes effect *)
(* as it arrives; :join and the automatic join on connect first ask the    *)
(* database who is a member, and answer in any order.                      *)
(***************************************************************************)
EXTENDS Naturals, FiniteSets

CONSTANTS
    Users,          \* user ids
    Sockets,        \* clients: a tab, with one connection at a time
    UserOf,         \* the user signed in on each client
    Conversations,  \* conversation ids
    Members,        \* the members array of each conversation
    None,           \* no conversation
    MaxOpens,       \* bound: conversations opened, and extra joins, by client
    MayFail         \* whether membership queries reject

ASSUME RoomsAssumption ==
    /\ UserOf \in [Sockets -> Users]
    /\ Members \in [Conversations -> SUBSET Users]
    /\ None \notin Conversations
    /\ MaxOpens \in [Sockets -> Nat]
    /\ MayFail \in BOOLEAN

VARIABLES
    phase,      \* down: no connection.  joining: autoJoin awaited.  up: over
    view,       \* the conversation open in the client
    rooms,      \* socket.rooms on the server
    joins,      \* conversation:join emitted and not answered yet, counted
    opens,      \* how often the client opened or joined, for the bound
    closing,    \* server.close was called: no new connections
    left,       \* history: conversations left and not joined again since
    failed      \* history: joins of this connection that rejected

roomVars == <<phase, view, rooms, joins, opens, closing, left, failed>>

Mine(s) == {c \in Conversations : UserOf[s] \in Members[c]}

NoJoins == [c \in Conversations |-> 0]

RoomsInit ==
    /\ phase = [s \in Sockets |-> "down"]
    /\ view = [s \in Sockets |-> None]
    /\ rooms = [s \in Sockets |-> {}]
    /\ joins = [s \in Sockets |-> NoJoins]
    /\ opens = [s \in Sockets |-> 0]
    /\ closing = FALSE
    /\ left = [s \in Sockets |-> {}]
    /\ failed = [s \in Sockets |-> {}]

Set(f, s, x) == [f EXCEPT ![s] = x]

-----------------------------------------------------------------------------
(* The connection *)

(* The handshake succeeds, first or after a drop; packets the client has   *)
(* buffered meanwhile arrive, and autoJoinConversationRooms asks its query. *)
Connect(s) ==
    /\ phase[s] = "down"
    /\ ~closing
    /\ phase' = Set(phase, s, "joining")
    /\ UNCHANGED <<view, rooms, joins, opens, closing, left, failed>>

(* autoJoinConversationRooms joins every conversation the query returned. *)
AutoJoined(s) ==
    /\ phase[s] = "joining"
    /\ phase' = Set(phase, s, "up")
    /\ rooms' = Set(rooms, s, rooms[s] \cup Mine(s))
    /\ UNCHANGED <<view, joins, opens, closing, left, failed>>

(* The query rejects; the error is logged and the connection stays. *)
AutoJoinFails(s) ==
    /\ MayFail
    /\ phase[s] = "joining"
    /\ phase' = Set(phase, s, "up")
    /\ failed' = Set(failed, s, Mine(s))
    /\ UNCHANGED <<view, rooms, joins, opens, closing, left>>

(* The connection is lost: its rooms go, its handlers in progress join a   *)
(* socket that is gone.  The client keeps its view and will reconnect.     *)
Drop(s) ==
    /\ phase[s] # "down"
    /\ phase' = Set(phase, s, "down")
    /\ rooms' = Set(rooms, s, {})
    /\ joins' = Set(joins, s, NoJoins)
    /\ left' = Set(left, s, {})
    /\ failed' = Set(failed, s, {})
    /\ UNCHANGED <<view, opens, closing>>

-----------------------------------------------------------------------------
(* Joining and leaving *)

Asked(s, c) == [joins EXCEPT ![s][c] = @ + 1]

(* A slip the runs catch: the effect runs its cleanup for no conversation. *)
LeavingNull(s) == {view[s]}

(* What the cleanup leaves: with no conversation open there is none. *)
Leaving(s) == {view[s]} \ {None}

(* A slip the runs catch: a conversation opened before is not joined again. *)
OpenOnce(s, c) ==
    /\ view[s] # c
    /\ c \in Mine(s)
    /\ opens[s] < MaxOpens[s]
    /\ opens' = Set(opens, s, opens[s] + 1)
    /\ view' = Set(view, s, c)
    /\ rooms' = Set(rooms, s, rooms[s] \ Leaving(s))
    /\ joins' = IF c \in left[s] THEN joins ELSE Asked(s, c)
    /\ left' = Set(left, s, (left[s] \cup Leaving(s)) \ {c})
    /\ UNCHANGED <<phase, closing, failed>>

(* The user opens another conversation: the effect's cleanup emits :leave  *)
(* for the old one (at once), then the effect emits :join for the new one. *)
Open(s, c) ==
    /\ view[s] # c
    /\ c \in Mine(s)
    /\ opens[s] < MaxOpens[s]
    /\ opens' = Set(opens, s, opens[s] + 1)
    /\ view' = Set(view, s, c)
    /\ rooms' = Set(rooms, s, rooms[s] \ Leaving(s))
    /\ joins' = Asked(s, c)
    /\ left' = Set(left, s, (left[s] \cup Leaving(s)) \ {c})
    /\ UNCHANGED <<phase, closing, failed>>

(* Any client may ask for any room, a member of it or not. *)
AskJoin(s, c) ==
    /\ phase[s] # "down"
    /\ opens[s] < MaxOpens[s]
    /\ opens' = Set(opens, s, opens[s] + 1)
    /\ joins' = Asked(s, c)
    /\ left' = Set(left, s, left[s] \ {c})
    /\ UNCHANGED <<phase, view, rooms, closing, failed>>

(* A slip the runs catch: the result of the check is not awaited, and a    *)
(* promise is always true.                                                 *)
MayJoinUnawaited(s, c) == TRUE

(* isConversationMember, as conversation:join uses it *)
MayJoin(s, c) == c \in Mine(s)

(* The membership query answers: a member joins, anyone else is refused. *)
JoinAnswered(s, c) ==
    /\ phase[s] # "down"
    /\ joins[s][c] > 0
    /\ joins' = [joins EXCEPT ![s][c] = @ - 1]
    /\ rooms' = Set(rooms, s, rooms[s] \cup (IF MayJoin(s, c) THEN {c} ELSE {}))
    /\ UNCHANGED <<phase, view, opens, closing, left, failed>>

(* The query rejects: the handler acknowledges a failure, and the client,  *)
(* which passes no callback, never learns.                                 *)
JoinFails(s, c) ==
    /\ MayFail
    /\ phase[s] # "down"
    /\ joins[s][c] > 0
    /\ joins' = [joins EXCEPT ![s][c] = @ - 1]
    /\ failed' = Set(failed, s, failed[s] \cup {c})
    /\ UNCHANGED <<phase, view, rooms, opens, closing, left>>

-----------------------------------------------------------------------------
(* Shutdown *)

(* SIGINT, SIGTERM or an unhandled rejection: server.close refuses new     *)
(* connections and waits for the ones there are.                           *)
Shutdown ==
    /\ ~closing
    /\ closing' = TRUE
    /\ UNCHANGED <<phase, view, rooms, joins, opens, left, failed>>

(* The last connection is gone: the process exits and is started again. *)
Exit ==
    /\ closing
    /\ \A s \in Sockets : phase[s] = "down"
    /\ closing' = FALSE
    /\ UNCHANGED <<phase, view, rooms, joins, opens, left, failed>>

-----------------------------------------------------------------------------

(* The server answers what it was asked. *)
Answer(s) ==
    \/ AutoJoined(s) \/ AutoJoinFails(s)
    \/ \E c \in Conversations : JoinAnswered(s, c) \/ JoinFails(s, c)

RoomsNext ==
    \/ \E s \in Sockets : Connect(s) \/ Drop(s) \/ Answer(s)
    \/ \E s \in Sockets, c \in Conversations : Open(s, c) \/ AskJoin(s, c)
    \/ Shutdown
    \/ Exit

RoomsSpec == RoomsInit /\ [][RoomsNext]_roomVars

(* The database answers every query; the process exits when it can, and    *)
(* socket.io-client reconnects as long as the server lets it.              *)
FairRooms ==
    /\ RoomsSpec
    /\ \A s \in Sockets :
          /\ WF_roomVars(AutoJoined(s) \/ AutoJoinFails(s))
          /\ WF_roomVars(Connect(s))
          /\ \A c \in Conversations :
                WF_roomVars(JoinAnswered(s, c) \/ JoinFails(s, c))
    /\ WF_roomVars(Exit)

-----------------------------------------------------------------------------
(* Properties *)

(* Types of the connections and rooms. *)
RoomsTypeOK ==
    /\ phase \in [Sockets -> {"down", "joining", "up"}]
    /\ view \in [Sockets -> Conversations \cup {None}]
    /\ rooms \in [Sockets -> SUBSET Conversations]
    /\ joins \in [Sockets -> [Conversations -> Nat]]
    /\ opens \in [Sockets -> Nat]
    /\ closing \in BOOLEAN
    /\ left \in [Sockets -> SUBSET Conversations]
    /\ failed \in [Sockets -> SUBSET Conversations]

(* conversation:join and autoJoin put a socket only in rooms of its user's *)
(* conversations, so a broadcast never reaches anyone but members.         *)
RoomsAreMembersOnly == \A s \in Sockets : rooms[s] \subseteq Mine(s)

(* The conversation a client has open is in its rooms, or a join that will *)
(* put it there is on the way, or one rejected: leaving, opening again,    *)
(* autoJoin and reconnecting never cancel each other out.                  *)
OpenIsCovered ==
    \A s \in Sockets : phase[s] = "up" /\ view[s] # None =>
        \/ view[s] \in rooms[s]
        \/ joins[s][view[s]] > 0
        \/ view[s] \in failed[s]

(* A client that stays connected gets into the room of the conversation it *)
(* has open, unless the query of a join rejects.                           *)
OpenIsJoined ==
    \A s \in Sockets, c \in Conversations :
        view[s] = c /\ phase[s] # "down" ~>
            c \in rooms[s] \cup failed[s] \/ view[s] # c \/ phase[s] = "down"

-----------------------------------------------------------------------------
(* What docs and comments say and the code does not do *)

(* APIDoc.md:474, :leave "removes the calling socket from the room".       *)
LeftRoomStaysLeft == \A s \in Sockets : rooms[s] \cap left[s] = {}

(* useConversations.ts:2, the list is "kept live-updated for new messages  *)
(* / presence changes", which reach the rooms of its conversations.        *)
ListStaysLive ==
    \A s \in Sockets : phase[s] = "up" /\ joins[s] = NoJoins => rooms[s] = Mine(s)

(* Plan.md:16, "graceful shutdown": a shutdown that began completes.       *)
ShutdownCompletes == closing ~> ~closing
=============================================================================
