------------------------------- MODULE Typing -------------------------------
(***************************************************************************)
(* Typing indicators, over the rooms of Rooms: notifyTyping and its        *)
(* debounce timer in useMessages, the typing handlers that relay an event  *)
(* to the room once a query has shown the sender to be a member, and the   *)
(* typingUsers that the other clients display.                             *)
(*                                                                         *)
(* Two relays of one client may answer in either order.  A client that is  *)
(* offline buffers what it emits; its typing is taken to happen once it is *)
(* connected again.                                                        *)
(***************************************************************************)
EXTENDS Rooms

CONSTANT MaxStrokes     \* bound: keystrokes, by client

ASSUME StrokesAssumption == MaxStrokes \in [Sockets -> Nat]

VARIABLES
    strokes,    \* keystrokes so far, for the bound
    timer,      \* typingTimeoutRef: the conversation a :stop is due for
    relays,     \* typing handlers awaiting the membership query, counted
    typing,     \* typingUsers: whom the client shows as typing in its view
    astray      \* history: <<user, conversation>> whose :stop went astray

typingVars == <<strokes, timer, relays, typing, astray>>
vars == <<roomVars, typingVars>>

Events == {"start", "stop"}

Init ==
    /\ RoomsInit
    /\ strokes = [s \in Sockets |-> 0]
    /\ timer = [s \in Sockets |-> None]
    /\ relays = [s \in Sockets |-> [c \in Conversations |-> [e \in Events |-> 0]]]
    /\ typing = [s \in Sockets |-> {}]
    /\ astray = {}

Strays(s, c) == astray' = astray \cup {<<UserOf[s], c>>}

(* A slip the runs catch: the thread's state survives the switch. *)
OpenUncleared(s, c) == Open(s, c) /\ UNCHANGED typingVars

(* Opening a conversation clears typingUsers and leaves the timer alone. *)
OpenThread(s, c) ==
    /\ Open(s, c)
    /\ typing' = Set(typing, s, {})
    /\ UNCHANGED <<strokes, timer, relays, astray>>

(* What else happens to connections and rooms does not touch typing. *)
RoomStep ==
    /\ \/ \E s \in Sockets : Connect(s) \/ Drop(s) \/ Answer(s)
       \/ Shutdown
       \/ Exit
    /\ UNCHANGED typingVars

(* A keystroke: :start is emitted and the timer runs anew, for the         *)
(* conversation open now.  A :stop due for another one is never emitted.   *)
Type(s) ==
    LET c == view[s] IN
    /\ phase[s] # "down"
    /\ c # None
    /\ strokes[s] < MaxStrokes[s]
    /\ strokes' = Set(strokes, s, strokes[s] + 1)
    /\ timer' = Set(timer, s, c)
    /\ relays' = [relays EXCEPT ![s][c]["start"] = @ + 1]
    /\ IF timer[s] \in {None, c} THEN UNCHANGED astray ELSE Strays(s, timer[s])
    /\ UNCHANGED <<roomVars, typing>>

(* A slip the runs catch: the timer emits for the conversation open now. *)
TimerFiresForView(s) ==
    /\ phase[s] # "down"
    /\ timer[s] # None
    /\ timer' = Set(timer, s, None)
    /\ relays' = [relays EXCEPT ![s][view[s]]["stop"] = @ + 1]
    /\ UNCHANGED <<roomVars, strokes, typing, astray>>

(* The debounce timer emits :stop, for the conversation it was set in. *)
TimerFires(s) ==
    /\ phase[s] # "down"
    /\ timer[s] # None
    /\ timer' = Set(timer, s, None)
    /\ relays' = [relays EXCEPT ![s][timer[s]]["stop"] = @ + 1]
    /\ UNCHANGED <<roomVars, strokes, typing, astray>>

(* The timer emits :stop and the connection drops before it arrives. *)
StopLost(s) ==
    /\ timer[s] # None
    /\ Drop(s)
    /\ timer' = Set(timer, s, None)
    /\ Strays(s, timer[s])
    /\ UNCHANGED <<strokes, relays, typing>>

(* A slip the runs catch: the payload names the socket, not the user. *)
TypistSocket(s) == s

(* Whom the relayed payload names. *)
Typist(s) == UserOf[s]

Shows(w, c) == c \in rooms[w] /\ view[w] = c

(* The query finds the sender a member: socket.to(room) reaches every      *)
(* other socket of the room, and the clients with that conversation open   *)
(* update typingUsers.  A :stop strays when it overtakes a :start, or when *)
(* a client with the conversation open is not in the room.                 *)
Relayed(s, c, e) ==
    /\ relays[s][c][e] > 0
    /\ relays' = [relays EXCEPT ![s][c][e] = @ - 1]
    /\ typing' = [w \in Sockets |->
          IF w = s \/ ~Shows(w, c) THEN typing[w]
          ELSE IF e = "start" THEN typing[w] \cup {Typist(s)}
                              ELSE typing[w] \ {Typist(s)}]
    /\ IF e = "stop" /\ (\/ relays[s][c]["start"] > 0
                         \/ \E w \in Sockets : view[w] = c /\ c \notin rooms[w])
       THEN Strays(s, c) ELSE UNCHANGED astray
    /\ UNCHANGED <<roomVars, strokes, timer>>

(* The query rejects.  Nothing catches it: the process takes the unhandled *)
(* rejection for a reason to shut down.                                    *)
RelayFails(s, c, e) ==
    /\ MayFail
    /\ relays[s][c][e] > 0
    /\ relays' = [relays EXCEPT ![s][c][e] = @ - 1]
    /\ closing' = TRUE
    /\ IF e = "stop" THEN Strays(s, c) ELSE UNCHANGED astray
    /\ UNCHANGED <<phase, view, rooms, joins, opens, left, failed,
                   strokes, timer, typing>>

Next ==
    \/ \E s \in Sockets, c \in Conversations : OpenThread(s, c)
    \/ RoomStep
    \/ \E s \in Sockets : Type(s) \/ TimerFires(s) \/ StopLost(s)
    \/ \E s \in Sockets, c \in Conversations, e \in Events :
          Relayed(s, c, e) \/ RelayFails(s, c, e)

Spec == Init /\ [][Next]_vars

(* Timers fire while the client is connected, and queries are answered. *)
FairSpec ==
    /\ Spec
    /\ \A s \in Sockets :
          /\ WF_vars(TimerFires(s))
          /\ \A c \in Conversations, e \in Events :
                WF_vars(Relayed(s, c, e) \/ RelayFails(s, c, e))

-----------------------------------------------------------------------------
(* Properties *)

(* Types of the typing state; a timer is only set for one's conversation. *)
TypeOK ==
    /\ strokes \in [Sockets -> Nat]
    /\ timer \in [Sockets -> Conversations \cup {None}]
    /\ relays \in [Sockets -> [Conversations -> [Events -> Nat]]]
    /\ typing \in [Sockets -> SUBSET Users]
    /\ astray \subseteq Users \X Conversations
    /\ \A s \in Sockets : timer[s] \in Mine(s) \cup {None}

(* "u is typing" is displayed only in the conversation u types in: a timer *)
(* of another client, or its :stop on the way, will end it, unless a :stop *)
(* of u for this very conversation went astray.                            *)
IndicatorIsBacked ==
    \A w \in Sockets : \A u \in typing[w] :
        \/ <<u, view[w]>> \in astray
        \/ \E s \in Sockets :
              /\ s # w /\ UserOf[s] = u
              /\ timer[s] = view[w] \/ relays[s][view[w]]["stop"] > 0

(* An indicator ends by itself, unless the :stop that ends it went astray  *)
(* or the client that typed is gone.                                       *)
IndicatorEnds ==
    \A w \in Sockets, u \in Users :
        u \in typing[w] ~>
            \/ u \notin typing[w] \/ <<u, view[w]>> \in astray
            \/ \E s \in Sockets : UserOf[s] = u /\ phase[s] = "down"

-----------------------------------------------------------------------------
(* What docs and comments say and the code does not do *)

(* typing.handler.ts:14, "a user never sees their own typing indicator     *)
(* echoed back".                                                           *)
OwnTypingIsNotShown == \A w \in Sockets : UserOf[w] \notin typing[w]

(* APIDoc.md:751, typing:stop is emitted automatically some time after the *)
(* last typing:start: a timer is not put off by typing somewhere else.     *)
StopFollowsStart ==
    [][\A s \in Sockets : timer[s] # None /\ timer'[s] # timer[s] =>
          timer'[s] = None]_vars

(* Plan.md:93, typing "fails silently (no ack)": a failed relay has no     *)
(* effect on anyone's connection.                                          *)
FailureIsSilent ==
    [][\A s \in Sockets, c \in Conversations, e \in Events :
          RelayFails(s, c, e) => closing' = closing]_vars
=============================================================================
