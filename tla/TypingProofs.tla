---------------------------- MODULE TypingProofs ----------------------------
(***************************************************************************)
(* Typing uses connections and rooms as Rooms describes them, so what is   *)
(* proved there holds here; and an indicator is always about to end unless *)
(* a :stop went astray, for any number of clients and keystrokes.          *)
(***************************************************************************)
EXTENDS Typing, RoomsProofs

Wandered(s, c) == <<UserOf[s], c>> \in astray

(* The :stop of client s for conversation c is still to come. *)
Due(s, c) == timer[s] = c \/ relays[s][c]["stop"] > 0

(* A :start on its way will be followed by a :stop. *)
StartIsBacked ==
    \A s \in Sockets, c \in Conversations :
        relays[s][c]["start"] > 0 => Wandered(s, c) \/ Due(s, c)

(* What a client displays about user u, for conversation c. *)
Backed(w, u, c) ==
    <<u, c>> \in astray \/ \E s \in Sockets : s # w /\ UserOf[s] = u /\ Due(s, c)

TInv ==
    /\ IInv
    /\ TypeOK
    /\ StartIsBacked
    /\ \A w \in Sockets : \A u \in typing[w] : Backed(w, u, view[w])
    /\ \A w \in Sockets : view[w] = None => typing[w] = {}

(* Nothing of the typing state or the views moves. *)
LEMMA StillKeeps ==
    ASSUME TInv, IInv', UNCHANGED typingVars, view' = view
    PROVE  TInv'
BY DEF TInv, TypeOK, StartIsBacked, Backed, Wandered, Due, typingVars, Mine

(* Every step is a step of Rooms. *)
LEMMA StepIsRoomStep ==
    ASSUME [Next]_vars
    PROVE  [RoomsNext]_roomVars
<1>1. ASSUME NEW s \in Sockets, NEW c \in Conversations, OpenThread(s, c) PROVE RoomsNext
  BY <1>1 DEF OpenThread, RoomsNext
<1>2. ASSUME RoomStep PROVE RoomsNext
  BY <1>2 DEF RoomStep, RoomsNext
<1>3. ASSUME NEW s \in Sockets, StopLost(s) PROVE RoomsNext
  BY <1>3 DEF StopLost, RoomsNext
<1>4. ASSUME NEW s \in Sockets, NEW c \in Conversations, NEW e \in Events,
             RelayFails(s, c, e)
      PROVE  RoomsNext \/ UNCHANGED roomVars
  BY <1>4, RoomsAssumption DEF RelayFails, RoomsNext, Shutdown, roomVars
<1>5. ASSUME UNCHANGED roomVars PROVE [RoomsNext]_roomVars
  BY <1>5
<1>6. \/ \E s \in Sockets, c \in Conversations : OpenThread(s, c)
      \/ RoomStep
      \/ \E s \in Sockets : StopLost(s)
      \/ \E s \in Sockets, c \in Conversations, e \in Events : RelayFails(s, c, e)
      \/ UNCHANGED roomVars
  BY DEF Next, Type, TimerFires, Relayed, vars
<1>7. QED BY <1>1, <1>2, <1>3, <1>4, <1>5, <1>6

(* The rooms' invariant survives every step of Typing. *)
LEMMA RoomsKeep ==
    ASSUME IInv, [Next]_vars
    PROVE  IInv'
BY StepIsRoomStep, RoomsNextKeeps

(* Initially nobody types. *)
LEMMA InitTInv == Init => TInv
<1> SUFFICES ASSUME Init PROVE TInv
  OBVIOUS
<1>1. IInv
  BY InitHolds DEF Init
<1>2. [c \in Conversations |-> [e \in Events |-> 0]] \in [Conversations -> [Events -> Nat]]
  OBVIOUS
<1>3. relays \in [Sockets -> [Conversations -> [Events -> Nat]]]
  BY <1>2 DEF Init
<1>4. TypeOK
  BY <1>3 DEF Init, TypeOK
<1>5. StartIsBacked
  BY DEF StartIsBacked, Init, Events
<1>6. QED BY <1>1, <1>4, <1>5 DEF TInv, Init

(* Counting a relay up or down changes one count. *)
LEMMA RelayTyped ==
    ASSUME TypeOK, NEW s \in Sockets, NEW c \in Conversations, NEW e \in Events,
           NEW n \in Nat
    PROVE  LET j == [relays EXCEPT ![s][c][e] = n] IN
           /\ j \in [Sockets -> [Conversations -> [Events -> Nat]]]
           /\ j[s][c][e] = n
           /\ \A f \in Events : f # e => j[s][c][f] = relays[s][c][f]
           /\ \A r \in Sockets, d \in Conversations :
                 r # s \/ d # c => j[r][d] = relays[r][d]
<1>1. relays[s] \in [Conversations -> [Events -> Nat]] /\ relays[s][c] \in [Events -> Nat]
  BY DEF TypeOK
<1>2. [relays[s][c] EXCEPT ![e] = n] \in [Events -> Nat]
  BY <1>1
<1>3. [relays[s] EXCEPT ![c] = [relays[s][c] EXCEPT ![e] = n]] \in [Conversations -> [Events -> Nat]]
  BY <1>1, <1>2
<1>4. QED BY <1>1, <1>2, <1>3 DEF TypeOK

(* Opening a conversation empties what the client displays. *)
LEMMA OpenThreadKeeps ==
    ASSUME TInv, IInv', NEW s \in Sockets, NEW c \in Conversations, OpenThread(s, c)
    PROVE  TInv'
<1>1. /\ UNCHANGED <<strokes, timer, relays, astray>>
      /\ typing' = [typing EXCEPT ![s] = {}]
      /\ view' = [view EXCEPT ![s] = c]
  BY DEF OpenThread, Open, Set
<1>2. TypeOK' /\ StartIsBacked'
  BY <1>1 DEF TInv, TypeOK, StartIsBacked, Wandered, Due, Mine
<1>3. ASSUME NEW w \in Sockets, NEW u \in typing'[w] PROVE w # s /\ view'[w] = view[w]
  BY <1>1, <1>3 DEF TInv, TypeOK, IInv, RoomsTypeOK
<1>4. ASSUME NEW w \in Sockets, NEW u \in typing'[w] PROVE Backed(w, u, view[w])'
  <2>1. w # s /\ view'[w] = view[w] /\ u \in typing[w]
    BY <1>1, <1>3, <1>4 DEF TInv, TypeOK
  <2>2. QED BY <1>1, <2>1 DEF TInv, Backed, Due
<1>5. ASSUME NEW w \in Sockets, view'[w] = None PROVE typing'[w] = {}
  BY <1>1, <1>5, RoomsAssumption DEF TInv, TypeOK, IInv, RoomsTypeOK
<1>6. QED BY <1>2, <1>4, <1>5 DEF TInv

(* What is due stays due or goes astray, when clients type or timers fire. *)
LEMMA DueKeeps ==
    ASSUME TInv, IInv', TypeOK', view' = view, typing' = typing,
           astray \subseteq astray',
           \A r \in Sockets, d \in Conversations :
              /\ Due(r, d) => Due(r, d)' \/ Wandered(r, d)'
              /\ relays'[r][d]["start"] > 0 =>
                    relays[r][d]["start"] > 0 \/ Due(r, d)'
    PROVE  TInv'
<1>1. StartIsBacked'
  BY DEF TInv, StartIsBacked, Wandered
<1>2. ASSUME NEW w \in Sockets, NEW u \in typing[w] PROVE Backed(w, u, view[w])'
  <2>1. Backed(w, u, view[w]) /\ view[w] \in Conversations
    BY <1>2 DEF TInv, IInv, RoomsTypeOK
  <2>2. QED BY <2>1 DEF Backed, Wandered
<1>3. QED BY <1>1, <1>2 DEF TInv

(* A keystroke starts a timer for the conversation it is typed in. *)
LEMMA TypeKeeps ==
    ASSUME TInv, IInv', NEW s \in Sockets, Type(s)
    PROVE  TInv'
<1> DEFINE c == view[s]
<1>1. /\ c \in Conversations /\ c \in Mine(s)
      /\ strokes' = [strokes EXCEPT ![s] = strokes[s] + 1]
      /\ timer' = [timer EXCEPT ![s] = c]
      /\ relays' = [relays EXCEPT ![s][c]["start"] = relays[s][c]["start"] + 1]
      /\ view' = view /\ typing' = typing
      /\ timer[s] \notin {None, c} => astray' = astray \cup {<<UserOf[s], timer[s]>>}
      /\ timer[s] \in {None, c} => astray' = astray
  BY DEF Type, Set, Strays, roomVars, TInv, IInv, ViewIsMine, RoomsTypeOK
<1>2. relays[s][c]["start"] \in Nat /\ "start" \in Events
  BY <1>1 DEF TInv, TypeOK, Events
<1>3. relays[s][c]["start"] + 1 \in Nat
  BY <1>2
<1>4. /\ relays' \in [Sockets -> [Conversations -> [Events -> Nat]]]
      /\ relays'[s][c]["stop"] = relays[s][c]["stop"]
      /\ \A r \in Sockets, d \in Conversations :
            r # s \/ d # c => relays'[r][d] = relays[r][d]
  <2>1. TypeOK /\ "stop" \in Events /\ "stop" # "start"
    BY DEF TInv, Events
  <2>2. PICK n \in Nat : relays' = [relays EXCEPT ![s][c]["start"] = n]
    BY <1>1, <1>3
  <2>3. QED BY <1>1, <1>2, <2>1, <2>2, RelayTyped
<1>5. astray' \subseteq Users \X Conversations /\ astray \subseteq astray'
  <2>1. timer[s] \in {None, c} \/ (timer[s] \in Conversations /\ UserOf[s] \in Users)
    BY RoomsAssumption DEF TInv, TypeOK
  <2>2. astray \subseteq Users \X Conversations
    BY DEF TInv, TypeOK
  <2>3. QED BY <1>1, <2>1, <2>2
<1>6. TypeOK'
  <2>1. strokes' \in [Sockets -> Nat] /\ timer' \in [Sockets -> Conversations \cup {None}]
    BY <1>1 DEF TInv, TypeOK
  <2>2. \A r \in Sockets : timer'[r] \in Mine(r)' \cup {None}
    BY <1>1 DEF TInv, TypeOK, Mine
  <2>3. QED BY <1>1, <1>4, <1>5, <2>1, <2>2 DEF TInv, TypeOK
<1>7. ASSUME NEW r \in Sockets, NEW d \in Conversations
      PROVE  /\ Due(r, d) => Due(r, d)' \/ Wandered(r, d)'
             /\ relays'[r][d]["start"] > 0 => relays[r][d]["start"] > 0 \/ Due(r, d)'
  <2>1. /\ r # s => timer'[r] = timer[r]
        /\ r = s => timer'[r] = c
        /\ relays'[r][d]["stop"] = relays[r][d]["stop"]
    BY <1>1, <1>4 DEF TInv, TypeOK
  <2>2. timer[s] = d /\ d # c => <<UserOf[s], d>> \in astray'
    BY <1>1, <1>7, RoomsAssumption
  <2>3. Due(r, d) => Due(r, d)' \/ Wandered(r, d)'
    BY <2>1, <2>2 DEF Due, Wandered
  <2>4. relays'[r][d]["start"] > 0 => relays[r][d]["start"] > 0 \/ Due(r, d)'
    BY <1>4, <2>1 DEF Due
  <2>5. QED BY <2>3, <2>4
<1>8. QED BY <1>1, <1>5, <1>6, <1>7, DueKeeps

(* A timer that fires sends its :stop on the way. *)
LEMMA TimerKeeps ==
    ASSUME TInv, IInv', NEW s \in Sockets, TimerFires(s)
    PROVE  TInv'
<1> DEFINE c == timer[s]
<1>1. /\ c \in Conversations
      /\ timer' = [timer EXCEPT ![s] = None]
      /\ relays' = [relays EXCEPT ![s][c]["stop"] = relays[s][c]["stop"] + 1]
      /\ UNCHANGED <<view, typing, strokes, astray>>
  BY DEF TimerFires, Set, roomVars, TInv, TypeOK
<1>2. relays[s][c]["stop"] \in Nat /\ "stop" \in Events /\ relays[s][c]["stop"] + 1 \in Nat
  BY <1>1 DEF TInv, TypeOK, Events
<1>3. /\ relays' \in [Sockets -> [Conversations -> [Events -> Nat]]]
      /\ relays'[s][c]["stop"] = relays[s][c]["stop"] + 1
      /\ relays'[s][c]["start"] = relays[s][c]["start"]
      /\ \A r \in Sockets, d \in Conversations :
            r # s \/ d # c => relays'[r][d] = relays[r][d]
  <2>1. TypeOK /\ "start" \in Events /\ "stop" # "start"
    BY DEF TInv, Events
  <2>2. PICK n \in Nat : /\ relays' = [relays EXCEPT ![s][c]["stop"] = n]
                         /\ n = relays[s][c]["stop"] + 1
    BY <1>1, <1>2
  <2>3. QED BY <1>1, <1>2, <2>1, <2>2, RelayTyped
<1>4. relays'[s][c]["stop"] > 0
  BY <1>2, <1>3
<1>5. TypeOK'
  BY <1>1, <1>3 DEF TInv, TypeOK, Mine
<1>6. ASSUME NEW r \in Sockets, NEW d \in Conversations
      PROVE  /\ Due(r, d) => Due(r, d)' \/ Wandered(r, d)'
             /\ relays'[r][d]["start"] > 0 => relays[r][d]["start"] > 0 \/ Due(r, d)'
  <2>1. r # s => timer'[r] = timer[r]
    BY <1>1 DEF TInv, TypeOK
  <2>2. CASE r = s /\ d = c
    BY <1>3, <1>4, <2>2 DEF Due
  <2>3. CASE ~(r = s /\ d = c)
    BY <1>3, <2>1, <2>3 DEF Due
  <2>4. QED BY <2>2, <2>3
<1>7. QED BY <1>1, <1>5, <1>6, DueKeeps

(* A :stop that is lost with the connection goes astray. *)
LEMMA StopLostKeeps ==
    ASSUME TInv, IInv', NEW s \in Sockets, StopLost(s)
    PROVE  TInv'
<1>1. /\ timer[s] \in Conversations
      /\ timer' = [timer EXCEPT ![s] = None]
      /\ astray' = astray \cup {<<UserOf[s], timer[s]>>}
      /\ UNCHANGED <<view, typing, strokes, relays>>
  BY DEF StopLost, Drop, Set, Strays, TInv, TypeOK
<1>2. TypeOK'
  BY <1>1, RoomsAssumption DEF TInv, TypeOK, Mine
<1>3. ASSUME NEW r \in Sockets, NEW d \in Conversations
      PROVE  Due(r, d) => Due(r, d)' \/ Wandered(r, d)'
  <2>1. r # s => timer'[r] = timer[r]
    BY <1>1 DEF TInv, TypeOK
  <2>2. QED BY <1>1, <2>1 DEF Due, Wandered
<1>4. QED BY <1>1, <1>2, <1>3, DueKeeps

(* A relayed :start is backed, and a relayed :stop ends what it should. *)
LEMMA RelayedKeeps ==
    ASSUME TInv, IInv', NEW s \in Sockets, NEW c \in Conversations, NEW e \in Events,
           Relayed(s, c, e)
    PROVE  TInv'
<1>1. /\ relays[s][c][e] > 0
      /\ relays' = [relays EXCEPT ![s][c][e] = relays[s][c][e] - 1]
      /\ typing' = [w \in Sockets |->
            IF w = s \/ ~Shows(w, c) THEN typing[w]
            ELSE IF e = "start" THEN typing[w] \cup {UserOf[s]}
                                ELSE typing[w] \ {UserOf[s]}]
      /\ UNCHANGED <<view, strokes, timer>>
      /\ astray' \in {astray, astray \cup {<<UserOf[s], c>>}}
      /\ e = "stop" /\ relays[s][c]["start"] > 0 => <<UserOf[s], c>> \in astray'
      /\ e = "stop" => \A w \in Sockets : view[w] = c /\ c \notin rooms[w] =>
                           <<UserOf[s], c>> \in astray'
  BY DEF Relayed, Typist, Strays, roomVars
<1>2. relays[s][c][e] \in Nat /\ relays[s][c][e] - 1 \in Nat
  BY <1>1 DEF TInv, TypeOK
<1>3. /\ relays' \in [Sockets -> [Conversations -> [Events -> Nat]]]
      /\ relays'[s][c][e] = relays[s][c][e] - 1
      /\ \A f \in Events : f # e => relays'[s][c][f] = relays[s][c][f]
      /\ \A r \in Sockets, d \in Conversations :
            r # s \/ d # c => relays'[r][d] = relays[r][d]
  <2>1. TypeOK
    BY DEF TInv
  <2>2. PICK n \in Nat : /\ relays' = [relays EXCEPT ![s][c][e] = n]
                         /\ n = relays[s][c][e] - 1
    BY <1>1, <1>2
  <2>3. QED BY <2>1, <2>2, RelayTyped
<1>4. "start" \in Events /\ "stop" \in Events /\ e \in {"start", "stop"}
  BY DEF Events
<1>5. TypeOK'
  <2>1. typing' \in [Sockets -> SUBSET Users]
    <3>1. typing \in [Sockets -> SUBSET Users] /\ UserOf[s] \in Users
      BY RoomsAssumption DEF TInv, TypeOK
    <3>2. \A w \in Sockets : typing[w] \cup {UserOf[s]} \in SUBSET Users
      BY <3>1
    <3>3. \A w \in Sockets : typing[w] \ {UserOf[s]} \in SUBSET Users
      BY <3>1
    <3>4. QED BY <1>1, <3>1, <3>2, <3>3
  <2>2. QED BY <1>1, <1>3, <2>1, RoomsAssumption DEF TInv, TypeOK, Mine
<1>6. astray \subseteq astray'
  BY <1>1
<1>7. ASSUME NEW r \in Sockets, NEW d \in Conversations, Due(r, d)
      PROVE  Due(r, d)' \/ (r = s /\ d = c /\ e = "stop")
  <2>1. CASE r = s /\ d = c /\ e = "start"
    BY <1>1, <1>3, <1>4, <1>7, <2>1 DEF Due
  <2>2. CASE r # s \/ d # c
    BY <1>1, <1>3, <1>7, <2>2 DEF Due
  <2>3. QED BY <1>4, <2>1, <2>2
<1>8. StartIsBacked'
  <2>1. SUFFICES ASSUME NEW r \in Sockets, NEW d \in Conversations,
                        relays'[r][d]["start"] > 0
                 PROVE  Wandered(r, d)' \/ Due(r, d)'
    BY DEF StartIsBacked
  <2>2. relays[r][d]["start"] > 0
    <3>1. CASE r = s /\ d = c /\ e = "start"
      BY <1>1, <3>1
    <3>2. CASE ~(r = s /\ d = c /\ e = "start")
      BY <1>3, <1>4, <2>1, <3>2
    <3>3. QED BY <3>1, <3>2
  <2>3. Wandered(r, d) \/ Due(r, d)
    BY <2>2 DEF TInv, StartIsBacked
  <2>4. CASE Wandered(r, d)
    BY <1>6, <2>4 DEF Wandered
  <2>5. CASE r = s /\ d = c /\ e = "stop"
    BY <1>1, <2>2, <2>5 DEF Wandered
  <2>6. QED BY <1>7, <2>3, <2>4, <2>5
<1>9. ASSUME NEW w \in Sockets, NEW u \in typing'[w] PROVE Backed(w, u, view[w])'
  <2>1. CASE u \in typing[w]
    <3>1. Backed(w, u, view[w]) /\ view[w] \in Conversations
      BY <2>1 DEF TInv, IInv, RoomsTypeOK
    <3>2. CASE <<u, view[w]>> \in astray
      BY <1>1, <1>6, <3>2 DEF Backed
    <3>3. ASSUME NEW r \in Sockets, r # w, UserOf[r] = u, Due(r, view[w])
          PROVE  Backed(w, u, view[w])'
      <4>1. CASE r = s /\ view[w] = c /\ e = "stop"
        <5>1. c \notin rooms[w]
          BY <1>1, <1>9, <3>3, <4>1 DEF Shows
        <5>2. QED BY <1>1, <3>3, <4>1, <5>1 DEF Backed
      <4>2. CASE Due(r, view[w])'
        BY <1>1, <3>3, <4>2 DEF Backed
      <4>3. QED BY <1>1, <1>7, <3>1, <3>3, <4>1, <4>2 DEF Due
    <3>4. QED BY <3>1, <3>2, <3>3 DEF Backed
  <2>2. CASE u \notin typing[w]
    <3>1. w # s /\ view[w] = c /\ u = UserOf[s] /\ e = "start"
      BY <1>1, <1>4, <1>9, <2>2 DEF Shows
    <3>2. Wandered(s, c) \/ Due(s, c)
      BY <1>1, <3>1 DEF TInv, StartIsBacked
    <3>3. Wandered(s, c)' \/ Due(s, c)'
      BY <1>6, <1>7, <3>1, <3>2 DEF Wandered
    <3>4. QED BY <1>1, <3>1, <3>3 DEF Backed, Wandered
  <2>3. QED BY <2>1, <2>2
<1>10. ASSUME NEW w \in Sockets, view'[w] = None PROVE typing'[w] = {}
  BY <1>1, <1>10, RoomsAssumption DEF TInv, Shows
<1>11. QED BY <1>5, <1>8, <1>9, <1>10 DEF TInv

(* A relay whose query rejects: a :stop that is not sent goes astray. *)
LEMMA RelayFailsKeeps ==
    ASSUME TInv, IInv', NEW s \in Sockets, NEW c \in Conversations, NEW e \in Events,
           RelayFails(s, c, e)
    PROVE  TInv'
<1>1. /\ relays[s][c][e] > 0
      /\ relays' = [relays EXCEPT ![s][c][e] = relays[s][c][e] - 1]
      /\ UNCHANGED <<view, typing, strokes, timer>>
      /\ astray' \in {astray, astray \cup {<<UserOf[s], c>>}}
      /\ e = "stop" => <<UserOf[s], c>> \in astray'
  BY DEF RelayFails, Strays
<1>2. relays[s][c][e] \in Nat /\ relays[s][c][e] - 1 \in Nat
  BY <1>1 DEF TInv, TypeOK
<1>3. /\ relays' \in [Sockets -> [Conversations -> [Events -> Nat]]]
      /\ relays'[s][c][e] = relays[s][c][e] - 1
      /\ \A f \in Events : f # e => relays'[s][c][f] = relays[s][c][f]
      /\ \A r \in Sockets, d \in Conversations :
            r # s \/ d # c => relays'[r][d] = relays[r][d]
  <2>1. TypeOK
    BY DEF TInv
  <2>2. PICK n \in Nat : /\ relays' = [relays EXCEPT ![s][c][e] = n]
                         /\ n = relays[s][c][e] - 1
    BY <1>1, <1>2
  <2>3. QED BY <2>1, <2>2, RelayTyped
<1>4. "start" \in Events /\ "stop" \in Events /\ e \in {"start", "stop"}
  BY DEF Events
<1>5. TypeOK' /\ astray \subseteq astray'
  BY <1>1, <1>3, RoomsAssumption DEF TInv, TypeOK, Mine
<1>6. ASSUME NEW r \in Sockets, NEW d \in Conversations
      PROVE  /\ Due(r, d) => Due(r, d)' \/ Wandered(r, d)'
             /\ relays'[r][d]["start"] > 0 => relays[r][d]["start"] > 0 \/ Due(r, d)'
  <2>1. CASE r = s /\ d = c /\ e = "start"
    BY <1>1, <1>3, <1>4, <2>1 DEF Due
  <2>2. CASE r = s /\ d = c /\ e = "stop"
    BY <1>1, <1>3, <1>4, <2>2 DEF Wandered
  <2>3. CASE r # s \/ d # c
    BY <1>1, <1>3, <2>3 DEF Due
  <2>4. QED BY <1>4, <2>1, <2>2, <2>3
<1>7. QED BY <1>1, <1>5, <1>6, DueKeeps

(* The invariant of typing and rooms together. *)
LEMMA TypingInductive == Spec => []TInv
<1>1. TInv /\ [Next]_vars => TInv'
  <2> SUFFICES ASSUME TInv, [Next]_vars PROVE TInv'
    OBVIOUS
  <2>1. IInv'
    BY RoomsKeep DEF TInv
  <2>2. CASE RoomStep \/ UNCHANGED vars
    <3>1. UNCHANGED typingVars /\ view' = view
      BY <2>2 DEF RoomStep, vars, roomVars, Connect, Drop, Answer, AutoJoined, AutoJoinFails,
         JoinAnswered, JoinFails, Shutdown, Exit
    <3>2. QED BY <2>1, <3>1, StillKeeps
  <2>3. QED BY <2>1, <2>2, OpenThreadKeeps, TypeKeeps, TimerKeeps, StopLostKeeps,
           RelayedKeeps, RelayFailsKeeps DEF Next
<1>2. QED BY <1>1, InitTInv, PTL DEF Spec

(* Typing is a client of the rooms: it only does what Rooms allows, so the *)
(* theorems about Rooms hold of it.                                        *)
THEOREM TypingUsesRooms == Spec => RoomsSpec
<1>1. Init => RoomsInit
  BY DEF Init
<1>2. [Next]_vars => [RoomsNext]_roomVars
  BY StepIsRoomStep
<1>3. QED BY <1>1, <1>2, PTL DEF Spec, RoomsSpec

(* Timers, relays and indicators keep their types: a timer is only ever    *)
(* set for a conversation of the user who types.                           *)
THEOREM TypingTypeCorrect == Spec => []TypeOK
<1>1. TInv => TypeOK
  BY DEF TInv
<1>2. QED BY <1>1, TypingInductive, PTL

(* "u is typing" is about to end wherever it is displayed, unless a :stop  *)
(* of u for that conversation went astray.                                 *)
THEOREM IndicatorTheorem == Spec => []IndicatorIsBacked
<1>1. TInv => IndicatorIsBacked
  BY DEF TInv, Backed, Due, IndicatorIsBacked
<1>2. QED BY <1>1, TypingInductive, PTL
=============================================================================
