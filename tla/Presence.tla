------------------------------ MODULE Presence ------------------------------
(***************************************************************************)
(* Connection tracking and online/offline status of one server process:    *)
(* presence.service.ts and presence.handler.ts as the connection handler   *)
(* of sockets/index.ts drives them.                                        *)
(*                                                                         *)
(* A connection first waits for autoJoinConversationRooms, then is counted *)
(* in activeConnections.  The first and the last connection of a user each *)
(* start a status update: a write to the user's document, then a query for *)
(* the rooms, then the broadcast.  Updates started one after the other may *)
(* reach the database, and their broadcasts the rooms, in any order.       *)
(***************************************************************************)
EXTENDS Naturals, FiniteSets

CONSTANTS
    Users,      \* user ids
    Sockets,    \* socket ids; each connects at most once
    UserOf,     \* the authenticated user of each socket
    MayFail,    \* whether database calls reject
    MayCrash    \* whether the server process restarts

ASSUME PresenceAssumption ==
    /\ UserOf \in [Sockets -> Users]
    /\ MayFail \in BOOLEAN
    /\ MayCrash \in BOOLEAN

VARIABLES
    phase,      \* where each socket stands, see Phases
    active,     \* activeConnections: the tracked sockets of each user
    writing,    \* updates <<socket, status>> issued, not yet in the database
    casting,    \* updates in the database, not yet broadcast
    status,     \* users.status in the database
    announced,  \* the last status the members of u's rooms were sent
    disturbed   \* history: updates of u overlapped, failed or were cut off

vars == <<phase, active, writing, casting, status, announced, disturbed>>

(* new: not connected yet.  joining: connected, autoJoin awaited.          *)
(* open: connected and tracked.  failed: connected, autoJoin rejected, so  *)
(* never tracked.  orphan: disconnected while autoJoin was awaited.        *)
(* ghost: an orphan that was tracked afterwards.  closed: disconnected.    *)
Phases == {"new", "joining", "open", "failed", "orphan", "ghost", "closed"}

Connected == {s \in Sockets : phase[s] \in {"joining", "open", "failed"}}

Init ==
    /\ phase = [s \in Sockets |-> "new"]
    /\ active = [u \in Users |-> {}]
    /\ writing = {}
    /\ casting = {}
    /\ status = [u \in Users |-> "offline"]
    /\ announced = [u \in Users |-> "offline"]
    /\ disturbed = [u \in Users |-> FALSE]

Pending(u) == {p \in writing \cup casting : UserOf[p[1]] = u}

SetPhase(s, p) == phase' = [phase EXCEPT ![s] = p]

(* setUserOnline / setUserOffline is called on behalf of socket s. *)
StartUpdate(s, st) ==
    /\ writing' = writing \cup {<<s, st>>}
    /\ disturbed' = [disturbed EXCEPT ![UserOf[s]] = Pending(UserOf[s]) # {}]

NoUpdate == UNCHANGED <<writing, disturbed>>

-----------------------------------------------------------------------------

(* The handshake is authenticated and the connection handler starts. *)
Connect(s) ==
    /\ phase[s] = "new"
    /\ SetPhase(s, "joining")
    /\ UNCHANGED <<active, writing, casting, status, announced, disturbed>>

(* A slip the runs catch: the size is compared with one before the add. *)
IsFirstByOne(u) == Cardinality(active[u]) = 1

(* addConnection is true for the user's first connection ... *)
IsFirst(u) == active[u] = {}

(* A slip the runs catch: the user's id is added, not the socket's. *)
TrackedByUser(u, s) == active[u] \cup {u}

(* ... and leaves this behind. *)
Tracked(u, s) == active[u] \cup {s}

(* autoJoin's query answers; the rooms are joined (a no-op on a socket     *)
(* that is gone) and handleUserConnect counts the socket, gone or not.     *)
AutoJoined(s) ==
    LET u == UserOf[s] IN
    /\ phase[s] \in {"joining", "orphan"}
    /\ SetPhase(s, IF phase[s] = "joining" THEN "open" ELSE "ghost")
    /\ active' = [active EXCEPT ![u] = Tracked(u, s)]
    /\ IF IsFirst(u) THEN StartUpdate(s, "online") ELSE NoUpdate
    /\ UNCHANGED <<casting, status, announced>>

(* autoJoin's query rejects: logged, and handleUserConnect never runs. *)
AutoJoinFails(s) ==
    /\ MayFail
    /\ phase[s] \in {"joining", "orphan"}
    /\ SetPhase(s, IF phase[s] = "joining" THEN "failed" ELSE "closed")
    /\ UNCHANGED <<active, writing, casting, status, announced, disturbed>>

(* A slip the runs catch: the socket is never deleted from the set. *)
RemainingAll(u, s) == active[u]

(* removeConnection leaves this behind ... *)
Remaining(u, s) == active[u] \ {s}

(* Slips the runs catch: what is left is compared with one; the size is    *)
(* compared before the delete.                                             *)
IsLastByOne(u, s) == Cardinality(Remaining(u, s)) <= 1
IsLastBefore(u, s) == active[u] = {}

(* ... and is true if nothing is left, even if there was no entry at all. *)
IsLast(u, s) == Remaining(u, s) = {}

(* The transport closes, for whatever reason, and 'disconnect' fires. *)
Disconnect(s) ==
    LET u == UserOf[s] IN
    /\ s \in Connected
    /\ SetPhase(s, IF phase[s] = "joining" THEN "orphan" ELSE "closed")
    /\ active' = [active EXCEPT ![u] = Remaining(u, s)]
    /\ IF IsLast(u, s) THEN StartUpdate(s, "offline") ELSE NoUpdate
    /\ UNCHANGED <<casting, status, announced>>

(* The database applies findByIdAndUpdate. *)
ApplyStatus(s, st) ==
    /\ <<s, st>> \in writing
    /\ writing' = writing \ {<<s, st>>}
    /\ casting' = casting \cup {<<s, st>>}
    /\ status' = [status EXCEPT ![UserOf[s]] = st]
    /\ UNCHANGED <<phase, active, announced, disturbed>>

(* getUserConversationRoomIds answers and the rooms get the event. *)
Announce(s, st) ==
    /\ <<s, st>> \in casting
    /\ casting' = casting \ {<<s, st>>}
    /\ announced' = [announced EXCEPT ![UserOf[s]] = st]
    /\ UNCHANGED <<phase, active, writing, status, disturbed>>

(* One of the two calls of an update rejects: logged, never retried. *)
FailUpdate(s, st) ==
    /\ MayFail
    /\ <<s, st>> \in writing \cup casting
    /\ writing' = writing \ {<<s, st>>}
    /\ casting' = casting \ {<<s, st>>}
    /\ disturbed' = [disturbed EXCEPT ![UserOf[s]] = TRUE]
    /\ UNCHANGED <<phase, active, status, announced>>

(* The process dies and comes back: its memory is gone, every transport is *)
(* closed, and no 'disconnect' handler runs.                               *)
Restart ==
    /\ MayCrash
    /\ phase' = [s \in Sockets |-> IF phase[s] = "new" THEN "new" ELSE "closed"]
    /\ active' = [u \in Users |-> {}]
    /\ writing' = {}
    /\ casting' = {}
    /\ disturbed' = [u \in Users |-> TRUE]
    /\ UNCHANGED <<status, announced>>

Next ==
    \/ \E s \in Sockets :
          \/ Connect(s) \/ AutoJoined(s) \/ AutoJoinFails(s) \/ Disconnect(s)
          \/ \E st \in {"online", "offline"} :
                ApplyStatus(s, st) \/ Announce(s, st) \/ FailUpdate(s, st)
    \/ Restart

Spec == Init /\ [][Next]_vars

(* The database answers every query in the end. *)
FairSpec ==
    /\ Spec
    /\ \A s \in Sockets :
          /\ WF_vars(AutoJoined(s))
          /\ \A st \in {"online", "offline"} :
                WF_vars(ApplyStatus(s, st)) /\ WF_vars(Announce(s, st))

-----------------------------------------------------------------------------
(* Properties *)

Status == {"online", "offline"}

(* Types: among them, that only sockets are ever tracked. *)
TypeOK ==
    /\ phase \in [Sockets -> Phases]
    /\ active \in [Users -> SUBSET Sockets]
    /\ writing \subseteq Sockets \X Status
    /\ casting \subseteq Sockets \X Status
    /\ status \in [Users -> Status]
    /\ announced \in [Users -> Status]
    /\ disturbed \in [Users -> BOOLEAN]

Desired(u) == IF active[u] = {} THEN "offline" ELSE "online"

(* activeConnections holds a user's open sockets, and beyond them only     *)
(* sockets that disconnected before autoJoin had answered.                 *)
TrackingIsExact ==
    \A u \in Users :
        active[u] = {s \in Sockets : UserOf[s] = u /\ phase[s] \in {"open", "ghost"}}

(* Whatever came before, overlaps, failures and restarts included: an      *)
(* update that starts when none of the user's is under way, and that       *)
(* neither fails nor is overtaken or cut off, leaves the database and the  *)
(* rooms in agreement with activeConnections.                              *)
PresenceConverges ==
    \A u \in Users : ~disturbed[u] /\ Pending(u) = {} =>
        status[u] = Desired(u) /\ announced[u] = Desired(u)

(* A tab that stays open is announced as online, unless autoJoin rejects   *)
(* or its user's updates collide or fail on the way.                       *)
OpenTabIsAnnounced ==
    \A s \in Sockets :
        LET u == UserOf[s] IN
        phase[s] = "joining" ~>
            announced[u] = "online" \/ disturbed[u] \/ phase[s] \notin {"joining", "open"}

Gone(u) == \A s \in Sockets : UserOf[s] = u => phase[s] \in {"new", "closed"}

(* A user who has closed every tab, counted or not and in whatever order,  *)
(* is announced as offline, unless a tab is opened again or the user's     *)
(* updates collide or fail on the way.                                     *)
GoneUserIsAnnounced ==
    \A u \in Users :
        Gone(u) ~> announced[u] = "offline" \/ disturbed[u] \/ ~Gone(u)

-----------------------------------------------------------------------------
(* What docs and comments say and the code does not do *)

(* APIDoc.md:757, closing one of several open tabs does not trigger        *)
(* user:offline.                                                           *)
SecondTabIsQuiet ==
    [][\A s \in Sockets : <<s, "offline">> \in writing' \ writing =>
          \A t \in Connected' : UserOf[t] # UserOf[s]]_vars

(* presence.service.ts:5, activeConnections counts active connections. *)
TrackedSocketsAreConnected ==
    \A u \in Users : active[u] \subseteq Connected

(* presence.service.ts:7, status only flips to offline once the last       *)
(* active connection closes.                                               *)
OnlineWhileTracked ==
    \A s \in Sockets : phase[s] = "open" /\ Pending(UserOf[s]) = {} =>
        status[UserOf[s]] = "online"

(* APIDoc.md:371, status is updated automatically on connect/disconnect:   *)
(* a user none of whose sockets is or was left connected is offline.       *)
OfflineWithoutConnection ==
    \A u \in Users :
        Pending(u) = {} /\ Gone(u) => status[u] = "offline"

(* presence.handler.ts:34, a connection is tracked on every connect. *)
ConnectionIsTracked ==
    \A s \in Connected : phase[s] # "joining" => s \in active[UserOf[s]]
=============================================================================
