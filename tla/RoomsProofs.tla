---------------------------- MODULE RoomsProofs -----------------------------
(***************************************************************************)
(* For any number of clients and conversations: rooms hold members only,   *)
(* and the conversation a client has open is always covered.               *)
(***************************************************************************)
EXTENDS Rooms, TLAPS

(* What is open in a client is one of its user's conversations. *)
ViewIsMine == \A s \in Sockets : view[s] \in Mine(s) \cup {None}

IInv == RoomsTypeOK /\ ViewIsMine /\ RoomsAreMembersOnly /\ OpenIsCovered

(* The four conjuncts, for one client. *)
Holds(s) ==
    /\ view[s] \in Mine(s) \cup {None}
    /\ rooms[s] \subseteq Mine(s)
    /\ phase[s] = "up" /\ view[s] # None =>
        \/ view[s] \in rooms[s]
        \/ joins[s][view[s]] > 0
        \/ view[s] \in failed[s]

(* A user's conversations are conversations. *)
LEMMA MineTyped == \A s \in Sockets : Mine(s) \subseteq Conversations
BY DEF Mine

(* The invariant says the same of every client. *)
LEMMA PerClient == IInv <=> RoomsTypeOK /\ \A s \in Sockets : Holds(s)
BY DEF IInv, ViewIsMine, RoomsAreMembersOnly, OpenIsCovered, Holds

(* So it holds after a step when it holds of every client then. *)
LEMMA Assembled == ASSUME RoomsTypeOK', \A s \in Sockets : Holds(s)' PROVE IInv'
BY DEF IInv, ViewIsMine, RoomsAreMembersOnly, OpenIsCovered, Holds

(* A client whose connection, view and rooms stay keeps its part. *)
LEMMA OthersHold ==
    ASSUME NEW s \in Sockets, Holds(s), view'[s] = view[s], rooms'[s] = rooms[s],
           phase'[s] = phase[s], joins'[s] = joins[s], failed'[s] = failed[s]
    PROVE  Holds(s)'
BY DEF Holds, Mine

(* Initially no client is connected. *)
LEMMA InitHolds == RoomsInit => IInv
<1> SUFFICES ASSUME RoomsInit PROVE IInv
  OBVIOUS
<1>1. NoJoins \in [Conversations -> Nat]
  BY DEF NoJoins
<1>2. joins \in [Sockets -> [Conversations -> Nat]]
  BY <1>1 DEF RoomsInit
<1>3. RoomsTypeOK
  BY <1>2 DEF RoomsInit, RoomsTypeOK
<1>4. QED BY <1>3 DEF RoomsInit, IInv, ViewIsMine, RoomsAreMembersOnly, OpenIsCovered

(* Counting a join up or down changes one count of one client. *)
LEMMA CountTyped ==
    ASSUME RoomsTypeOK, NEW s \in Sockets, NEW c \in Conversations, NEW n \in Nat
    PROVE  LET j == [joins EXCEPT ![s][c] = n] IN
           /\ j \in [Sockets -> [Conversations -> Nat]]
           /\ j[s][c] = n
           /\ \A d \in Conversations : d # c => j[s][d] = joins[s][d]
           /\ \A r \in Sockets : r # s => j[r] = joins[r]
BY DEF RoomsTypeOK

(* Connecting, auto-joining and dropping. *)
LEMMA ConnectionKeeps ==
    ASSUME IInv, NEW s \in Sockets,
           Connect(s) \/ AutoJoined(s) \/ AutoJoinFails(s) \/ Drop(s)
    PROVE  IInv'
<1>1. RoomsTypeOK'
  <2>1. CASE Connect(s) \/ AutoJoined(s)
    <3>1. phase' \in [Sockets -> {"down", "joining", "up"}]
      BY <2>1 DEF Connect, AutoJoined, IInv, RoomsTypeOK, Set
    <3>2. rooms' \in [Sockets -> SUBSET Conversations]
      BY <2>1, MineTyped DEF Connect, AutoJoined, IInv, RoomsTypeOK, Set
    <3>3. QED BY <2>1, <3>1, <3>2 DEF Connect, AutoJoined, IInv, RoomsTypeOK
  <2>2. CASE AutoJoinFails(s)
    BY <2>2, MineTyped DEF AutoJoinFails, IInv, RoomsTypeOK, Set
  <2>3. CASE Drop(s)
    <3>1. joins' \in [Sockets -> [Conversations -> Nat]]
      BY <2>3 DEF Drop, IInv, RoomsTypeOK, Set, NoJoins
    <3>2. QED BY <2>3, <3>1 DEF Drop, IInv, RoomsTypeOK, Set
  <2>4. QED BY <2>1, <2>2, <2>3
<1>2. ASSUME NEW r \in Sockets, r # s PROVE Holds(r)'
  <2>1. /\ view'[r] = view[r] /\ rooms'[r] = rooms[r] /\ phase'[r] = phase[r]
        /\ joins'[r] = joins[r] /\ failed'[r] = failed[r]
    BY <1>2 DEF Connect, AutoJoined, AutoJoinFails, Drop, IInv, RoomsTypeOK, Set
  <2>2. QED BY <2>1, PerClient, OthersHold
<1>3. Holds(s)'
  <2>1. Holds(s) /\ view' = view
    BY PerClient DEF Connect, AutoJoined, AutoJoinFails, Drop
  <2>2. CASE Connect(s) \/ Drop(s)
    BY <2>1, <2>2 DEF Connect, Drop, Holds, Set, Mine, IInv, RoomsTypeOK
  <2>3. CASE AutoJoined(s) \/ AutoJoinFails(s)
    BY <2>1, <2>3 DEF AutoJoined, AutoJoinFails, Holds, Set, Mine, IInv, RoomsTypeOK
  <2>4. QED BY <2>2, <2>3
<1>4. QED BY <1>1, <1>2, <1>3, Assembled

(* Opening a conversation asks for its room. *)
LEMMA OpenKeeps ==
    ASSUME IInv, NEW s \in Sockets, NEW c \in Conversations, Open(s, c)
    PROVE  IInv'
<1>1. /\ joins' = [joins EXCEPT ![s][c] = joins[s][c] + 1] /\ joins[s][c] \in Nat
      /\ joins[s][c] + 1 \in Nat
  BY DEF Open, Asked, IInv, RoomsTypeOK
<1>2. /\ joins' \in [Sockets -> [Conversations -> Nat]]
      /\ joins'[s][c] = joins[s][c] + 1
      /\ \A r \in Sockets : r # s => joins'[r] = joins[r]
  BY <1>1, CountTyped DEF IInv
<1>3. RoomsTypeOK'
  <2>1. opens' \in [Sockets -> Nat] /\ view' \in [Sockets -> Conversations \cup {None}]
    BY DEF Open, Set, IInv, RoomsTypeOK
  <2>2. rooms' \in [Sockets -> SUBSET Conversations]
    BY DEF Open, Set, IInv, RoomsTypeOK
  <2>3. left' \in [Sockets -> SUBSET Conversations]
    BY DEF Open, Set, Leaving, IInv, RoomsTypeOK
  <2>4. QED BY <1>2, <2>1, <2>2, <2>3 DEF Open, IInv, RoomsTypeOK
<1>4. ASSUME NEW r \in Sockets, r # s PROVE Holds(r)'
  <2>1. /\ view'[r] = view[r] /\ rooms'[r] = rooms[r] /\ phase'[r] = phase[r]
        /\ failed'[r] = failed[r]
    BY <1>4 DEF Open, IInv, RoomsTypeOK, Set
  <2>2. QED BY <1>2, <1>4, <2>1, PerClient, OthersHold
<1>5. Holds(s)'
  <2>1. view'[s] = c /\ c \in Mine(s) /\ rooms'[s] \subseteq rooms[s]
    BY DEF Open, Set, IInv, RoomsTypeOK
  <2>2. joins'[s][c] > 0
    BY <1>1, <1>2
  <2>3. QED BY <2>1, <2>2, PerClient DEF Holds, Mine
<1>6. QED BY <1>3, <1>4, <1>5, Assembled

(* A join is asked for, answered or rejected. *)
LEMMA JoinKeeps ==
    ASSUME IInv, NEW s \in Sockets, NEW c \in Conversations,
           AskJoin(s, c) \/ JoinAnswered(s, c) \/ JoinFails(s, c)
    PROVE  IInv'
<1>1. PICK n \in Nat : /\ joins' = [joins EXCEPT ![s][c] = n]
                       /\ AskJoin(s, c) => n = joins[s][c] + 1
  <2>1. joins[s][c] \in Nat
    BY DEF IInv, RoomsTypeOK
  <2>2. CASE AskJoin(s, c)
    <3>1. joins' = [joins EXCEPT ![s][c] = joins[s][c] + 1] /\ joins[s][c] + 1 \in Nat
      BY <2>1, <2>2 DEF AskJoin, Asked
    <3>2. QED BY <3>1
  <2>3. CASE ~AskJoin(s, c)
    <3>1. joins' = [joins EXCEPT ![s][c] = joins[s][c] - 1] /\ joins[s][c] > 0
      BY <2>3 DEF JoinAnswered, JoinFails
    <3>2. joins[s][c] - 1 \in Nat
      BY <2>1, <3>1
    <3>3. QED BY <2>3, <3>1, <3>2
  <2>4. QED BY <2>2, <2>3
<1>2. /\ joins' \in [Sockets -> [Conversations -> Nat]]
      /\ joins'[s][c] = n
      /\ \A d \in Conversations : d # c => joins'[s][d] = joins[s][d]
      /\ \A r \in Sockets : r # s => joins'[r] = joins[r]
  BY <1>1, CountTyped DEF IInv
<1>3. RoomsTypeOK'
  <2>1. CASE AskJoin(s, c)
    BY <1>2, <2>1 DEF AskJoin, Set, IInv, RoomsTypeOK
  <2>2. CASE JoinAnswered(s, c)
    BY <1>2, <2>2 DEF JoinAnswered, Set, IInv, RoomsTypeOK
  <2>3. CASE JoinFails(s, c)
    BY <1>2, <2>3 DEF JoinFails, Set, IInv, RoomsTypeOK
  <2>4. QED BY <2>1, <2>2, <2>3
<1>4. ASSUME NEW r \in Sockets, r # s PROVE Holds(r)'
  <2>1. /\ view'[r] = view[r] /\ rooms'[r] = rooms[r] /\ phase'[r] = phase[r]
        /\ failed'[r] = failed[r]
    BY <1>4 DEF AskJoin, JoinAnswered, JoinFails, IInv, RoomsTypeOK, Set
  <2>2. QED BY <1>2, <1>4, <2>1, PerClient, OthersHold
<1>5. Holds(s)'
  <2>1. Holds(s) /\ view' = view /\ phase' = phase
    BY PerClient DEF AskJoin, JoinAnswered, JoinFails
  <2>2. /\ rooms[s] \subseteq rooms'[s] /\ rooms'[s] \subseteq Mine(s)
        /\ failed[s] \subseteq failed'[s]
    BY <2>1 DEF AskJoin, JoinAnswered, JoinFails, MayJoin, Set, Holds, IInv, RoomsTypeOK
  <2>3. CASE view[s] = c
    <3>1. \/ AskJoin(s, c) /\ joins'[s][c] > 0
          \/ c \in rooms'[s] \/ c \in failed'[s] \/ c \notin Mine(s)
      <4>1. CASE AskJoin(s, c)
        <5>1. joins[s][c] \in Nat
          BY DEF IInv, RoomsTypeOK
        <5>2. QED BY <1>1, <1>2, <4>1, <5>1
      <4>2. CASE JoinAnswered(s, c) \/ JoinFails(s, c)
        BY <4>2 DEF JoinAnswered, JoinFails, MayJoin, Set, IInv, RoomsTypeOK
      <4>3. QED BY <4>1, <4>2
    <3>2. c # None
      BY RoomsAssumption
    <3>3. QED BY <2>1, <2>2, <2>3, <3>1, <3>2 DEF Holds, Mine
  <2>4. CASE view[s] # c
    <3>1. view[s] \in Conversations \/ view[s] = None
      BY DEF IInv, RoomsTypeOK
    <3>2. QED BY <1>2, <2>1, <2>2, <2>4, <3>1 DEF Holds, Mine
  <2>5. QED BY <2>3, <2>4
<1>6. QED BY <1>3, <1>4, <1>5, Assembled

(* Every step keeps the invariant. *)
LEMMA RoomsNextKeeps ==
    ASSUME IInv, [RoomsNext]_roomVars
    PROVE  IInv'
<1>1. CASE Shutdown \/ Exit \/ UNCHANGED roomVars
  BY <1>1 DEF Shutdown, Exit, roomVars, IInv, RoomsTypeOK, ViewIsMine,
     RoomsAreMembersOnly, OpenIsCovered, Mine
<1>2. QED BY <1>1, ConnectionKeeps, OpenKeeps, JoinKeeps DEF RoomsNext, Answer

(* The invariant holds throughout. *)
LEMMA Inductive == RoomsSpec => []IInv
<1>1. IInv /\ [RoomsNext]_roomVars => IInv'
  BY RoomsNextKeeps
<1>2. QED BY <1>1, InitHolds, PTL DEF RoomsSpec

(* The state of connections and rooms keeps its types: no join is answered *)
(* that was not asked for.                                                 *)
THEOREM RoomsTypeCorrect == RoomsSpec => []RoomsTypeOK
<1>1. IInv => RoomsTypeOK
  BY DEF IInv
<1>2. QED BY <1>1, Inductive, PTL

(* However joins, leaves, drops and failures interleave, a room holds only *)
(* sockets of members.                                                     *)
THEOREM MembersTheorem == RoomsSpec => []RoomsAreMembersOnly
<1>1. IInv => RoomsAreMembersOnly
  BY DEF IInv
<1>2. QED BY <1>1, Inductive, PTL

(* An open conversation is joined, about to be, or its join was rejected. *)
THEOREM CoverageTheorem == RoomsSpec => []OpenIsCovered
<1>1. IInv => OpenIsCovered
  BY DEF IInv
<1>2. QED BY <1>1, Inductive, PTL
=============================================================================
