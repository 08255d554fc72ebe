--------------------------- MODULE PresenceProofs ---------------------------
(***************************************************************************)
(* Tracking is exact and undisturbed users converge, for any number of     *)
(* users and sockets, with failures and restarts.                          *)
(***************************************************************************)
EXTENDS Presence, TLAPS

Mine(S, u) == {p \in S : UserOf[p[1]] = u}

(* Where an undisturbed user can stand: nothing under way and all agree,   *)
(* or exactly one update under way, to the status tracking calls for.      *)
Settled(u) ==
    /\ Mine(writing, u) = {} /\ Mine(casting, u) = {}
    /\ status[u] = Desired(u) /\ announced[u] = Desired(u)

Writing(u) ==
    \E p \in writing : /\ Mine(writing, u) = {p} /\ Mine(casting, u) = {}
                       /\ p[2] = Desired(u)

Casting(u) ==
    \E p \in casting : /\ Mine(casting, u) = {p} /\ Mine(writing, u) = {}
                       /\ p[2] = Desired(u) /\ status[u] = Desired(u)

Calm == \A u \in Users : ~disturbed[u] => Settled(u) \/ Writing(u) \/ Casting(u)

IInv == TypeOK /\ TrackingIsExact /\ Calm

-----------------------------------------------------------------------------

(* The pending updates of a user are those issued and those to be          *)
(* broadcast.                                                              *)
LEMMA PendingIsMine ==
    \A u : Pending(u) = Mine(writing, u) \cup Mine(casting, u)
BY DEF Pending, Mine

(* Steps that leave a user's slice of the state alone leave it calm. *)
LEMMA CalmIsLocal ==
    ASSUME NEW u \in Users,
           Mine(writing', u) = Mine(writing, u),
           Mine(casting', u) = Mine(casting, u),
           active'[u] = active[u], status'[u] = status[u],
           announced'[u] = announced[u],
           Settled(u) \/ Writing(u) \/ Casting(u)
    PROVE  (Settled(u) \/ Writing(u) \/ Casting(u))'
<1>1. Desired(u)' = Desired(u)
  BY DEF Desired
<1>2. CASE Settled(u)
  BY <1>1, <1>2 DEF Settled
<1>3. CASE Writing(u)
  <2>1. PICK p \in writing : /\ Mine(writing, u) = {p} /\ Mine(casting, u) = {}
                             /\ p[2] = Desired(u)
    BY <1>3 DEF Writing
  <2>2. p \in writing'
    BY <2>1 DEF Mine
  <2>3. QED BY <1>1, <2>1, <2>2 DEF Writing
<1>4. CASE Casting(u)
  <2>1. PICK p \in casting : /\ Mine(casting, u) = {p} /\ Mine(writing, u) = {}
                             /\ p[2] = Desired(u) /\ status[u] = Desired(u)
    BY <1>4 DEF Casting
  <2>2. p \in casting'
    BY <2>1 DEF Mine
  <2>3. QED BY <1>1, <2>1, <2>2 DEF Casting
<1>5. QED BY <1>2, <1>3, <1>4

(* An update that starts alone, to what tracking calls for, keeps u calm.  *)
LEMMA StartKeepsCalm ==
    ASSUME TypeOK, Calm, NEW s \in Sockets, NEW st \in Status,
           StartUpdate(s, st),
           \A v \in Users : v # UserOf[s] => active'[v] = active[v],
           st = Desired(UserOf[s])',
           UNCHANGED <<casting, status, announced>>
    PROVE  Calm'
<1> DEFINE u == UserOf[s]
           p == <<s, st>>
<1>1. u \in Users
  BY PresenceAssumption
<1>2. ASSUME NEW v \in Users, ~disturbed'[v]
      PROVE  (Settled(v) \/ Writing(v) \/ Casting(v))'
  <2>1. CASE v = u
    <3>1. Mine(writing, u) = {} /\ Mine(casting, u) = {}
      BY <1>1, <1>2, <2>1, PendingIsMine DEF StartUpdate, TypeOK
    <3>2. writing' = writing \cup {p} /\ p[1] = s /\ p[2] = st
      BY DEF StartUpdate
    <3>3. Mine(writing', u) = {p} /\ Mine(casting', u) = {} /\ p \in writing'
      BY <3>1, <3>2 DEF Mine
    <3>4. Writing(u)'
      BY <3>2, <3>3 DEF Writing
    <3>5. QED BY <2>1, <3>4
  <2>2. CASE v # u
    <3>1. disturbed'[v] = disturbed[v]
      BY <2>2 DEF StartUpdate, TypeOK
    <3>2. writing' = writing \cup {p} /\ p[1] = s
      BY DEF StartUpdate
    <3>3. Mine(writing', v) = Mine(writing, v)
      BY <2>2, <3>2 DEF Mine
    <3>4. Mine(casting', v) = Mine(casting, v)
      OBVIOUS
    <3>5. QED BY <1>2, <2>2, <3>1, <3>3, <3>4, CalmIsLocal DEF Calm
  <2>3. QED BY <2>1, <2>2
<1>3. QED BY <1>2 DEF Calm

(* A step that starts, moves and ends no update and does not change what   *)
(* tracking calls for keeps everyone calm.                                 *)
LEMMA QuietKeepsCalm ==
    ASSUME Calm, UNCHANGED <<writing, casting, status, announced, disturbed>>,
           \A u \in Users : Desired(u)' = Desired(u)
    PROVE  Calm'
BY DEF Calm, Settled, Writing, Casting, Mine

-----------------------------------------------------------------------------

(* With nobody connected, every user is settled offline. *)
LEMMA InitIInv == Init => IInv
BY PresenceAssumption
DEF Init, IInv, TypeOK, Phases, Status, TrackingIsExact, Calm, Settled, Mine, Desired

(* handleUserConnect: counting a socket, and the online update of a first  *)
(* one.                                                                    *)
LEMMA AutoJoinedKeeps ==
    ASSUME IInv, NEW s \in Sockets, AutoJoined(s)
    PROVE  IInv'
<1> DEFINE u == UserOf[s]
<1>1. u \in Users
  BY PresenceAssumption
<1>2. /\ phase[s] \in {"joining", "orphan"}
      /\ phase' = [phase EXCEPT ![s] = IF phase[s] = "joining" THEN "open" ELSE "ghost"]
      /\ active' = [active EXCEPT ![u] = @ \cup {s}]
      /\ UNCHANGED <<casting, status, announced>>
  BY DEF AutoJoined, SetPhase, Tracked
<1>3. /\ active'[u] = active[u] \cup {s}
      /\ \A v \in Users : v # u => active'[v] = active[v]
  BY <1>1, <1>2 DEF IInv, TypeOK
<1>4. /\ active[u] = {} => StartUpdate(s, "online")
      /\ active[u] # {} => UNCHANGED <<writing, disturbed>>
  BY DEF AutoJoined, IsFirst, NoUpdate
<1>5. TypeOK'
  <2>1. phase' \in [Sockets -> Phases] /\ active' \in [Users -> SUBSET Sockets]
    BY <1>2 DEF IInv, TypeOK, Phases
  <2>2. writing' \subseteq Sockets \X Status /\ disturbed' \in [Users -> BOOLEAN]
    <3>1. CASE active[u] = {}
      <4>1. /\ writing' = writing \cup {<<s, "online">>}
            /\ disturbed' = [disturbed EXCEPT ![u] = Pending(u) # {}]
        BY <1>4, <3>1 DEF StartUpdate
      <4>2. (Pending(u) # {}) \in BOOLEAN
        OBVIOUS
      <4> HIDE DEF u
      <4>3. disturbed' \in [Users -> BOOLEAN]
        BY <4>1, <4>2 DEF IInv, TypeOK
      <4>4. QED BY <4>1, <4>3 DEF IInv, TypeOK, Status
    <3>2. CASE active[u] # {}
      BY <1>4, <3>2 DEF IInv, TypeOK
    <3>3. QED BY <3>1, <3>2
  <2>3. QED BY <1>2, <2>1, <2>2 DEF IInv, TypeOK
<1>6. TrackingIsExact'
  <2>1. ASSUME NEW v \in Users
        PROVE  active'[v] = {t \in Sockets :
                                UserOf[t] = v /\ phase'[t] \in {"open", "ghost"}}
    <3>1. active[v] = {t \in Sockets :
                          UserOf[t] = v /\ phase[t] \in {"open", "ghost"}}
      BY DEF IInv, TrackingIsExact
    <3>2. /\ phase'[s] \in {"open", "ghost"}
          /\ \A t \in Sockets : t # s => phase'[t] = phase[t]
      BY <1>2 DEF IInv, TypeOK
    <3>3. QED BY <1>3, <3>1, <3>2
  <2>2. QED BY <2>1 DEF TrackingIsExact
<1>7. Calm'
  <2>1. CASE active[u] = {}
    <3>1. Desired(u)' = "online"
      BY <1>3 DEF Desired
    <3>2. QED BY <1>2, <1>3, <1>4, <2>1, <3>1, StartKeepsCalm DEF IInv, Status
  <2>2. CASE active[u] # {}
    <3>1. \A v \in Users : Desired(v)' = Desired(v)
      BY <1>1, <1>3, <2>2 DEF Desired
    <3>2. QED BY <1>2, <1>4, <2>2, <3>1, QuietKeepsCalm DEF IInv
  <2>3. QED BY <2>1, <2>2
<1>8. QED BY <1>5, <1>6, <1>7 DEF IInv

(* handleUserDisconnect: uncounting a socket, and the offline update after *)
(* a last one.                                                             *)
LEMMA DisconnectKeeps ==
    ASSUME IInv, NEW s \in Sockets, Disconnect(s)
    PROVE  IInv'
<1> DEFINE u == UserOf[s]
<1>1. u \in Users
  BY PresenceAssumption
<1>2. /\ phase[s] \in {"joining", "open", "failed"}
      /\ phase' = [phase EXCEPT ![s] = IF phase[s] = "joining" THEN "orphan" ELSE "closed"]
      /\ active' = [active EXCEPT ![u] = active[u] \ {s}]
      /\ UNCHANGED <<casting, status, announced>>
  BY DEF Disconnect, SetPhase, Remaining, Connected
<1>3. /\ active'[u] = active[u] \ {s}
      /\ \A v \in Users : v # u => active'[v] = active[v]
  BY <1>1, <1>2 DEF IInv, TypeOK
<1>4. /\ active'[u] = {} => StartUpdate(s, "offline")
      /\ active'[u] # {} => UNCHANGED <<writing, disturbed>>
  BY <1>3 DEF Disconnect, IsLast, Remaining, NoUpdate
<1>5. TypeOK'
  <2>1. phase' \in [Sockets -> Phases] /\ active' \in [Users -> SUBSET Sockets]
    BY <1>2 DEF IInv, TypeOK, Phases
  <2>2. writing' \subseteq Sockets \X Status /\ disturbed' \in [Users -> BOOLEAN]
    <3>1. CASE active'[u] = {}
      <4>1. /\ writing' = writing \cup {<<s, "offline">>}
            /\ disturbed' = [disturbed EXCEPT ![u] = Pending(u) # {}]
        BY <1>4, <3>1 DEF StartUpdate
      <4>2. (Pending(u) # {}) \in BOOLEAN
        OBVIOUS
      <4> HIDE DEF u
      <4>3. disturbed' \in [Users -> BOOLEAN]
        BY <4>1, <4>2 DEF IInv, TypeOK
      <4>4. QED BY <4>1, <4>3 DEF IInv, TypeOK, Status
    <3>2. CASE active'[u] # {}
      BY <1>4, <3>2 DEF IInv, TypeOK
    <3>3. QED BY <3>1, <3>2
  <2>3. QED BY <1>2, <2>1, <2>2 DEF IInv, TypeOK
<1>6. TrackingIsExact'
  <2>1. ASSUME NEW v \in Users
        PROVE  active'[v] = {t \in Sockets :
                                UserOf[t] = v /\ phase'[t] \in {"open", "ghost"}}
    <3>1. active[v] = {t \in Sockets :
                          UserOf[t] = v /\ phase[t] \in {"open", "ghost"}}
      BY DEF IInv, TrackingIsExact
    <3>2. /\ phase'[s] \notin {"open", "ghost"}
          /\ \A t \in Sockets : t # s => phase'[t] = phase[t]
      BY <1>2 DEF IInv, TypeOK
    <3>3. QED BY <1>3, <3>1, <3>2
  <2>2. QED BY <2>1 DEF TrackingIsExact
<1>7. Calm'
  <2>1. CASE active'[u] = {}
    <3>1. Desired(u)' = "offline"
      BY <2>1 DEF Desired
    <3>2. QED BY <1>2, <1>3, <1>4, <2>1, <3>1, StartKeepsCalm DEF IInv, Status
  <2>2. CASE active'[u] # {}
    <3>1. \A v \in Users : Desired(v)' = Desired(v)
      BY <1>1, <1>3, <2>2 DEF Desired
    <3>2. QED BY <1>2, <1>4, <2>2, <3>1, QuietKeepsCalm DEF IInv
  <2>3. QED BY <2>1, <2>2
<1>8. QED BY <1>5, <1>6, <1>7 DEF IInv

(* Connections that come, or fail to be tracked, leave tracking alone. *)
LEMMA PhaseOnlyKeeps ==
    ASSUME IInv, NEW s \in Sockets, Connect(s) \/ AutoJoinFails(s)
    PROVE  IInv'
<1>1. /\ UNCHANGED <<active, writing, casting, status, announced, disturbed>>
      /\ phase[s] \in {"new", "joining", "orphan"}
      /\ phase' \in [Sockets -> Phases]
      /\ phase'[s] \in {"joining", "failed", "closed"}
      /\ \A t \in Sockets : t # s => phase'[t] = phase[t]
  BY DEF Connect, AutoJoinFails, SetPhase, IInv, TypeOK, Phases
<1>2. TypeOK'
  BY <1>1 DEF IInv, TypeOK
<1>3. \A t \in Sockets : phase'[t] \in {"open", "ghost"} <=> phase[t] \in {"open", "ghost"}
  BY <1>1
<1>4. TrackingIsExact'
  <2>1. ASSUME NEW v \in Users
        PROVE  active'[v] = {t \in Sockets :
                                UserOf[t] = v /\ phase'[t] \in {"open", "ghost"}}
    BY <1>1, <1>3 DEF IInv, TrackingIsExact
  <2>2. QED BY <2>1 DEF TrackingIsExact
<1>5. \A v \in Users : Desired(v)' = Desired(v)
  BY <1>1 DEF Desired
<1>6. Calm'
  BY <1>1, <1>5, QuietKeepsCalm DEF IInv
<1>7. QED BY <1>2, <1>4, <1>6 DEF IInv

(* The database applies an update. *)
LEMMA ApplyStatusKeeps ==
    ASSUME IInv, NEW s \in Sockets, NEW st \in Status, ApplyStatus(s, st)
    PROVE  IInv'
<1> DEFINE u == UserOf[s]
           p == <<s, st>>
<1>1. /\ u \in Users /\ p[1] = s /\ p[2] = st /\ p \in writing
      /\ writing' = writing \ {p} /\ casting' = casting \cup {p}
      /\ status' = [status EXCEPT ![u] = st]
      /\ UNCHANGED <<phase, active, announced, disturbed>>
  BY PresenceAssumption DEF ApplyStatus
<1>2. TypeOK' /\ TrackingIsExact'
  BY <1>1 DEF IInv, TypeOK, TrackingIsExact
<1>3. ASSUME NEW v \in Users, ~disturbed'[v]
      PROVE  (Settled(v) \/ Writing(v) \/ Casting(v))'
  <2>1. Settled(v) \/ Writing(v) \/ Casting(v)
    BY <1>1, <1>3 DEF IInv, Calm
  <2>2. CASE v = u
    <3>1. p \in Mine(writing, u)
      BY <1>1 DEF Mine
    <3>2. Writing(u)
      BY <2>1, <2>2, <3>1 DEF Settled, Casting
    <3>3. Mine(writing, u) = {p} /\ Mine(casting, u) = {} /\ st = Desired(u)
      BY <1>1, <3>1, <3>2 DEF Writing
    <3>4. Mine(casting', u) = {p} /\ Mine(writing', u) = {} /\ p \in casting'
      BY <1>1, <3>3 DEF Mine
    <3>5. Desired(u)' = Desired(u) /\ status'[u] = st
      BY <1>1 DEF Desired, IInv, TypeOK
    <3>6. Casting(u)'
      BY <1>1, <3>3, <3>4, <3>5 DEF Casting
    <3>7. QED BY <2>2, <3>6
  <2>3. CASE v # u
    <3>1. Mine(writing', v) = Mine(writing, v) /\ Mine(casting', v) = Mine(casting, v)
      BY <1>1, <2>3 DEF Mine
    <3>2. status'[v] = status[v] /\ active'[v] = active[v] /\ announced'[v] = announced[v]
      BY <1>1, <2>3 DEF IInv, TypeOK
    <3>3. QED BY <2>1, <3>1, <3>2, CalmIsLocal
  <2>4. QED BY <2>2, <2>3
<1>4. QED BY <1>2, <1>3 DEF IInv, Calm

(* An update is broadcast. *)
LEMMA AnnounceKeeps ==
    ASSUME IInv, NEW s \in Sockets, NEW st \in Status, Announce(s, st)
    PROVE  IInv'
<1> DEFINE u == UserOf[s]
           p == <<s, st>>
<1>1. /\ u \in Users /\ p[1] = s /\ p[2] = st /\ p \in casting
      /\ casting' = casting \ {p}
      /\ announced' = [announced EXCEPT ![u] = st]
      /\ UNCHANGED <<phase, active, writing, status, disturbed>>
  BY PresenceAssumption DEF Announce
<1>2. TypeOK' /\ TrackingIsExact'
  BY <1>1 DEF IInv, TypeOK, TrackingIsExact
<1>3. ASSUME NEW v \in Users, ~disturbed'[v]
      PROVE  (Settled(v) \/ Writing(v) \/ Casting(v))'
  <2>1. Settled(v) \/ Writing(v) \/ Casting(v)
    BY <1>1, <1>3 DEF IInv, Calm
  <2>2. CASE v = u
    <3>1. p \in Mine(casting, u)
      BY <1>1 DEF Mine
    <3>2. Casting(u)
      BY <2>1, <2>2, <3>1 DEF Settled, Writing
    <3>3. /\ Mine(casting, u) = {p} /\ Mine(writing, u) = {} /\ st = Desired(u)
          /\ status[u] = Desired(u)
      BY <1>1, <3>1, <3>2 DEF Casting
    <3>4. Mine(casting', u) = {} /\ Mine(writing', u) = {}
      BY <1>1, <3>3 DEF Mine
    <3>5. Desired(u)' = Desired(u) /\ announced'[u] = st
      BY <1>1 DEF Desired, IInv, TypeOK
    <3>6. Settled(u)'
      BY <1>1, <3>3, <3>4, <3>5 DEF Settled
    <3>7. QED BY <2>2, <3>6
  <2>3. CASE v # u
    <3>1. Mine(writing', v) = Mine(writing, v) /\ Mine(casting', v) = Mine(casting, v)
      BY <1>1, <2>3 DEF Mine
    <3>2. status'[v] = status[v] /\ active'[v] = active[v] /\ announced'[v] = announced[v]
      BY <1>1, <2>3 DEF IInv, TypeOK
    <3>3. QED BY <2>1, <3>1, <3>2, CalmIsLocal
  <2>4. QED BY <2>2, <2>3
<1>4. QED BY <1>2, <1>3 DEF IInv, Calm

(* A call of an update rejects; its user is no longer promised anything. *)
LEMMA FailUpdateKeeps ==
    ASSUME IInv, NEW s \in Sockets, NEW st \in Status, FailUpdate(s, st)
    PROVE  IInv'
<1> DEFINE u == UserOf[s]
           p == <<s, st>>
<1>1. /\ u \in Users /\ p[1] = s
      /\ writing' = writing \ {p} /\ casting' = casting \ {p}
      /\ disturbed' = [disturbed EXCEPT ![u] = TRUE]
      /\ UNCHANGED <<phase, active, status, announced>>
  BY PresenceAssumption DEF FailUpdate
<1>2. TypeOK' /\ TrackingIsExact'
  BY <1>1 DEF IInv, TypeOK, TrackingIsExact
<1>3. ASSUME NEW v \in Users, ~disturbed'[v]
      PROVE  (Settled(v) \/ Writing(v) \/ Casting(v))'
  <2>1. v # u /\ disturbed'[v] = disturbed[v]
    BY <1>1, <1>3 DEF IInv, TypeOK
  <2>2. Mine(writing', v) = Mine(writing, v) /\ Mine(casting', v) = Mine(casting, v)
    BY <1>1, <2>1 DEF Mine
  <2>3. QED BY <1>1, <1>3, <2>1, <2>2, CalmIsLocal DEF IInv, Calm
<1>4. QED BY <1>2, <1>3 DEF IInv, Calm

(* A restart empties activeConnections and marks every user disturbed. *)
LEMMA RestartKeeps ==
    ASSUME IInv, Restart
    PROVE  IInv'
<1>1. TypeOK'
  BY DEF Restart, IInv, TypeOK, Phases
<1>2. TrackingIsExact'
  BY DEF Restart, TrackingIsExact
<1>3. Calm'
  BY DEF Restart, Calm
<1>4. QED BY <1>1, <1>2, <1>3 DEF IInv

(* Every reachable state satisfies the invariant. *)
LEMMA Inductive == Spec => []IInv
<1>1. IInv /\ [Next]_vars => IInv'
  <2> SUFFICES ASSUME IInv, [Next]_vars PROVE IInv'
    OBVIOUS
  <2>1. ASSUME NEW s \in Sockets, Connect(s) \/ AutoJoinFails(s) PROVE IInv'
    BY <2>1, PhaseOnlyKeeps
  <2>2. ASSUME NEW s \in Sockets, AutoJoined(s) PROVE IInv'
    BY <2>2, AutoJoinedKeeps
  <2>3. ASSUME NEW s \in Sockets, Disconnect(s) PROVE IInv'
    BY <2>3, DisconnectKeeps
  <2>4. ASSUME NEW s \in Sockets, NEW st \in Status,
               ApplyStatus(s, st) \/ Announce(s, st) \/ FailUpdate(s, st)
        PROVE  IInv'
    BY <2>4, ApplyStatusKeeps, AnnounceKeeps, FailUpdateKeeps
  <2>5. CASE Restart
    BY <2>5, RestartKeeps
  <2>6. CASE UNCHANGED vars
    BY <2>6 DEF vars, IInv, TypeOK, TrackingIsExact, Calm, Settled, Writing,
                Casting, Mine, Desired
  <2>7. QED BY <2>1, <2>2, <2>3, <2>4, <2>5, <2>6 DEF Next, Status
<1>2. QED BY <1>1, InitIInv, PTL DEF Spec

-----------------------------------------------------------------------------

(* The presence state keeps its types. *)
THEOREM TypeCorrect == Spec => []TypeOK
<1>1. IInv => TypeOK
  BY DEF IInv
<1>2. QED BY <1>1, Inductive, PTL

(* activeConnections never holds anything but open sockets and ghosts, and *)
(* misses none of them, whatever fails.                                    *)
THEOREM TrackingTheorem == Spec => []TrackingIsExact
<1>1. IInv => TrackingIsExact
  BY DEF IInv
<1>2. QED BY <1>1, Inductive, PTL

(* Users whose updates did not collide end up with the right status, in    *)
(* the database and in every room.                                         *)
THEOREM ConvergenceTheorem == Spec => []PresenceConverges
<1>1. IInv => PresenceConverges
  <2>1. ASSUME IInv, NEW u \in Users, ~disturbed[u], Pending(u) = {}
        PROVE  status[u] = Desired(u) /\ announced[u] = Desired(u)
    <3>1. Mine(writing, u) = {} /\ Mine(casting, u) = {}
      BY <2>1, PendingIsMine
    <3>2. ~Writing(u) /\ ~Casting(u)
      BY <3>1 DEF Writing, Casting
    <3>3. QED BY <2>1, <3>2 DEF IInv, Calm, Settled
  <2>2. QED BY <2>1 DEF PresenceConverges
<1>2. QED BY <1>1, Inductive, PTL
=============================================================================
