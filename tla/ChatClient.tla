----------------------------- MODULE ChatClient -----------------------------
(***************************************************************************)
(* The thread a client displays: the useMessages effect, which on opening  *)
(* a conversation asks for its history over HTTP and joins its room, and   *)
(* from then on appends the messages the room announces and upgrades their *)
(* status by the receipts it announces.                                    *)
(*                                                                         *)
(* Rooms says what the client's socket can hear.  The server stores and    *)
(* announces messages as DurableBroadcast describes.  Socket events reach  *)
(* a client in order; HTTP responses overtake them and each other.         *)
(***************************************************************************)
EXTENDS Rooms, SequencesExt

CONSTANT MaxMsgs    \* bound: messages ever stored, fewer than a page of 50

ASSUME ChatAssumption == MaxMsgs \in Nat

VARIABLES
    where,      \* the conversation of each stored message, None if not stored
    announced,  \* messages announced to their room
    reached,    \* receipts the database has recorded of each message
    told,       \* receipts announced to the room of their message
    thread,     \* messages: what the client displays, with their status
    loading,    \* loading: the history is being fetched
    loads,      \* history requests on their way, by the effect that sent them
    inbox,      \* message events on their way to the client
    due,        \* history: messages the open thread has to show
    dueRead     \* history: those of them it has to show as read

serverVars == <<where, announced, reached, told>>
clientVars == <<thread, loading, loads, inbox, due, dueRead>>
vars == <<roomVars, serverVars, clientVars>>

Ids == 1 .. MaxMsgs

Receipts == {"delivered", "read"}

(* What a client displays of a message. *)
Entry == [msg : Ids, status : Receipts \cup {"sent"}]

(* message:new, message:delivered or message:read, on its way. *)
Event == [type : Receipts \cup {"new"}, msg : Ids]

Pages == UNION {[1 .. n -> Entry] : n \in 0 .. MaxMsgs}

(* A history request, and the page the database has answered it with. *)
Load == [effect : Nat, conv : Conversations, read : BOOLEAN, page : Pages]

MsgsOf(seq) == {e.msg : e \in ToSet(seq)}
ReadIn(seq) == {e.msg : e \in {d \in ToSet(seq) : d.status = "read"}}

Init ==
    /\ RoomsInit
    /\ where = [m \in Ids |-> None]
    /\ announced = {}
    /\ reached = [m \in Ids |-> {}]
    /\ told = [m \in Ids |-> {}]
    /\ thread = [s \in Sockets |-> <<>>]
    /\ loading = [s \in Sockets |-> FALSE]
    /\ loads = [s \in Sockets |-> {}]
    /\ inbox = [s \in Sockets |-> <<>>]
    /\ due = [s \in Sockets |-> {}]
    /\ dueRead = [s \in Sockets |-> {}]

-----------------------------------------------------------------------------
(* The server *)

(* Messages are numbered in the order of createdAt. *)
Store(m, c) ==
    /\ where[m] = None
    /\ \A k \in Ids : k < m => where[k] # None
    /\ where' = [where EXCEPT ![m] = c]
    /\ UNCHANGED <<roomVars, announced, reached, told, clientVars>>

(* A receipt is recorded; see Messaging for when the handlers do. *)
Record(m, r) ==
    /\ where[m] # None
    /\ r \notin reached[m]
    /\ reached' = [reached EXCEPT ![m] = @ \cup {r}]
    /\ UNCHANGED <<roomVars, where, announced, told, clientVars>>

(* The status getMessageHistory finds.  Of two receipts either may be the  *)
(* last: a stale message:delivered overwrites read (see Messaging).        *)
MayBe(m, st) == IF reached[m] = {} THEN st = "sent" ELSE st \in reached[m]

(* The thread is loaded: what is announced to the client now must show. *)
Loaded(s) == view[s] # None /\ \A l \in loads[s] : l.effect # opens[s]

(* An event goes to the sockets in the room. *)
Emit(type, m) ==
    inbox' = [s \in Sockets |->
        IF where[m] \in rooms[s]
        THEN Append(inbox[s], [type |-> type, msg |-> m]) ELSE inbox[s]]

Hears(s, m) == where[m] \in rooms[s] /\ view[s] = where[m] /\ Loaded(s)

(* message:new *)
Announce(m) ==
    /\ where[m] # None
    /\ m \notin announced
    /\ announced' = announced \cup {m}
    /\ Emit("new", m)
    /\ due' = [s \in Sockets |-> IF Hears(s, m) THEN due[s] \cup {m} ELSE due[s]]
    /\ UNCHANGED <<roomVars, where, reached, told, thread, loading, loads, dueRead>>

(* message:delivered and message:read: the first is announced whether or   *)
(* not there was something to record.  Bound: each is announced once.      *)
AnnounceReceipt(m, r) ==
    /\ r \in reached[m] \/ (r = "delivered" /\ reached[m] # {})
    /\ r \notin told[m]
    /\ told' = [told EXCEPT ![m] = @ \cup {r}]
    /\ Emit(r, m)
    /\ dueRead' = [s \in Sockets |->
          IF r = "read" /\ Hears(s, m) THEN dueRead[s] \cup ({m} \cap due[s])
                                       ELSE dueRead[s]]
    /\ UNCHANGED <<roomVars, where, announced, reached, thread, loading, loads, due>>

-----------------------------------------------------------------------------
(* The client *)

(* A slip the runs catch: the request is tied to the effect cleaned up. *)
RequestStale(s, c) ==
    [effect |-> opens[s], conv |-> c, read |-> FALSE, page |-> <<>>]

(* The history request of the effect about to run: effects are numbered by *)
(* opens[s], and `cancelled` is set for all but the last.                  *)
Request(s, c) ==
    [effect |-> opens[s] + 1, conv |-> c, read |-> FALSE, page |-> <<>>]

(* A slip the runs catch: the thread of the old conversation is kept. *)
OpenKeepingThread(s, c) ==
    /\ Open(s, c)
    /\ loading' = Set(loading, s, TRUE)
    /\ loads' = Set(loads, s, loads[s] \cup {Request(s, c)})
    /\ due' = Set(due, s, {})
    /\ dueRead' = Set(dueRead, s, {})
    /\ UNCHANGED <<serverVars, thread, inbox>>

(* The effect starts: the thread is emptied and its history asked for. *)
OpenThread(s, c) ==
    /\ Open(s, c)
    /\ thread' = Set(thread, s, <<>>)
    /\ loading' = Set(loading, s, TRUE)
    /\ loads' = Set(loads, s, loads[s] \cup {Request(s, c)})
    /\ due' = Set(due, s, {})
    /\ dueRead' = Set(dueRead, s, {})
    /\ UNCHANGED <<serverVars, inbox>>

(* getMessageHistory of a conversation, reversed: oldest first. *)
History(c, page) ==
    /\ MsgsOf(page) = {m \in Ids : where[m] = c}
    /\ \A i, j \in DOMAIN page : i < j => page[i].msg < page[j].msg
    /\ \A e \in ToSet(page) : MayBe(e.msg, e.status)

(* The database answers getMessageHistory. *)
PageRead(s, l) ==
    /\ l \in loads[s]
    /\ ~l.read
    /\ \E page \in Pages : /\ History(l.conv, page)
                          /\ loads' = Set(loads, s, (loads[s] \ {l}) \cup
                                {[l EXCEPT !.read = TRUE, !.page = page]})
    /\ UNCHANGED <<roomVars, serverVars, thread, loading, inbox, due, dueRead>>

(* A slip the runs catch: the response of any effect is accepted. *)
AnyEffect(s, l) == TRUE

(* ~cancelled *)
Current(s, l) == l.effect = opens[s]

(* The response arrives: unless cancelled, it replaces the thread. *)
PageArrives(s, l) ==
    /\ l \in loads[s]
    /\ l.read
    /\ loads' = Set(loads, s, loads[s] \ {l})
    /\ IF Current(s, l)
       THEN /\ thread' = Set(thread, s, l.page)
            /\ loading' = Set(loading, s, FALSE)
            /\ due' = Set(due, s, due[s] \cup MsgsOf(l.page))
            /\ dueRead' = Set(dueRead, s, dueRead[s] \cup ReadIn(l.page))
       ELSE UNCHANGED <<thread, loading, due, dueRead>>
    /\ UNCHANGED <<roomVars, serverVars, inbox>>

(* A slip the runs catch: a failed request leaves the spinner on. *)
PageFailsLoading(s, l) ==
    /\ MayFail
    /\ l \in loads[s]
    /\ loads' = Set(loads, s, loads[s] \ {l})
    /\ UNCHANGED <<roomVars, serverVars, thread, loading, inbox, due, dueRead>>

(* The request fails: an error is shown in place of the history. *)
PageFails(s, l) ==
    /\ MayFail
    /\ l \in loads[s]
    /\ loads' = Set(loads, s, loads[s] \ {l})
    /\ loading' = IF Current(s, l) THEN Set(loading, s, FALSE) ELSE loading
    /\ UNCHANGED <<roomVars, serverVars, thread, inbox, due, dueRead>>

(* A slip the runs catch: a receipt is applied whatever is displayed. *)
AppliedBlind(t, e) ==
    IF e.type = "new" THEN Append(t, [msg |-> e.msg, status |-> "sent"])
    ELSE [i \in DOMAIN t |->
        IF t[i].msg = e.msg THEN [t[i] EXCEPT !.status = e.type] ELSE t[i]]

(* onNewMessage, onDelivered and onRead of the open conversation: the      *)
(* status is upgraded of every entry with the message.                     *)
Applied(t, e) ==
    IF e.type = "new" THEN Append(t, [msg |-> e.msg, status |-> "sent"])
    ELSE [i \in DOMAIN t |->
        IF t[i].msg = e.msg /\ (e.type = "read" \/ t[i].status = "sent")
        THEN [t[i] EXCEPT !.status = e.type] ELSE t[i]]

(* A slip the runs catch: an event of any conversation is applied. *)
ReceiveAny(s) ==
    /\ inbox[s] # <<>>
    /\ inbox' = Set(inbox, s, Tail(inbox[s]))
    /\ thread' = Set(thread, s, Applied(thread[s], Head(inbox[s])))
    /\ UNCHANGED <<roomVars, serverVars, loading, loads, due, dueRead>>

(* The listeners of the effect apply the events of its conversation. *)
Receive(s) ==
    /\ inbox[s] # <<>>
    /\ inbox' = Set(inbox, s, Tail(inbox[s]))
    /\ thread' = IF where[Head(inbox[s]).msg] = view[s]
                 THEN Set(thread, s, Applied(thread[s], Head(inbox[s]))) ELSE thread
    /\ UNCHANGED <<roomVars, serverVars, loading, loads, due, dueRead>>

(* The connection is lost with the events on it; nothing is loaded again   *)
(* when it comes back.                                                     *)
Disconnect(s) ==
    /\ Drop(s)
    /\ inbox' = Set(inbox, s, <<>>)
    /\ due' = Set(due, s, due[s] \ MsgsOf(inbox[s]))
    /\ dueRead' = Set(dueRead, s, dueRead[s] \ MsgsOf(inbox[s]))
    /\ UNCHANGED <<serverVars, thread, loading, loads>>

(* What else happens to the connection and its rooms. *)
RoomStep(s) ==
    /\ Connect(s) \/ Answer(s)
    /\ UNCHANGED <<serverVars, clientVars>>

(* The history request moves on. *)
LoadStep(s) ==
    \E l \in loads[s] : PageRead(s, l) \/ PageArrives(s, l) \/ PageFails(s, l)

Next ==
    \/ \E m \in Ids, c \in Conversations : Store(m, c)
    \/ \E m \in Ids : Announce(m)
    \/ \E m \in Ids, r \in Receipts : Record(m, r) \/ AnnounceReceipt(m, r)
    \/ \E s \in Sockets, c \in Conversations : OpenThread(s, c)
    \/ \E s \in Sockets : LoadStep(s) \/ Receive(s) \/ Disconnect(s) \/ RoomStep(s)

Spec == Init /\ [][Next]_vars

-----------------------------------------------------------------------------
(* Properties *)

(* Types; a client's requests are of effects it has run. *)
TypeOK ==
    /\ where \in [Ids -> Conversations \cup {None}]
    /\ announced \subseteq Ids
    /\ reached \in [Ids -> SUBSET Receipts]
    /\ told \in [Ids -> SUBSET Receipts]
    /\ thread \in [Sockets -> Seq(Entry)]
    /\ loading \in [Sockets -> BOOLEAN]
    /\ loads \in [Sockets -> SUBSET Load]
    /\ \A s \in Sockets : \A l \in loads[s] : l.effect \in 1 .. opens[s]
    /\ inbox \in [Sockets -> Seq(Event)]
    /\ due \in [Sockets -> SUBSET Ids]
    /\ dueRead \in [Sockets -> SUBSET Ids]

(* However responses, events and clicks interleave, a thread shows only    *)
(* messages of the conversation that is open.                              *)
ThreadIsOfView ==
    \A s \in Sockets : \A m \in MsgsOf(thread[s]) : where[m] = view[s]

(* What the history held, and what the room announced once the history was *)
(* there, is displayed or about to be, until another conversation opens.   *)
DueIsShown ==
    \A s \in Sockets : due[s] \subseteq MsgsOf(thread[s]) \cup MsgsOf(inbox[s])

(* A message the history held as read, or whose message:read the room      *)
(* announced once the thread was due to have it, is displayed as read or   *)
(* about to be, however late a message:delivered of it comes.              *)
ReadIsShown ==
    \A s \in Sockets : dueRead[s] \subseteq ReadIn(thread[s]) \cup
        {e.msg : e \in {d \in ToSet(inbox[s]) : d.type = "read"}}

(* The loading hint is there only while the history of the open            *)
(* conversation is on its way: whatever a request comes to, and whichever  *)
(* requests of other conversations are answered meanwhile, it goes away.   *)
LoadingIsBacked ==
    \A s \in Sockets : loading[s] => \E l \in loads[s] : Current(s, l)

-----------------------------------------------------------------------------
(* What docs and comments say and the code does not do *)

(* Everything stored was announced, answered and received. *)
Quiet ==
    /\ \A m \in Ids : where[m] # None => m \in announced /\ reached[m] \subseteq told[m]
    /\ \A s \in Sockets :
          loads[s] = {} /\ inbox[s] = <<>> /\ joins[s] = NoJoins /\ phase[s] = "up"

(* useMessages.ts:18, opening a conversation (re)synchronizes the thread   *)
(* with the server.                                                        *)
ThreadMissesNothing ==
    Quiet => \A s \in Sockets : view[s] # None =>
        {m \in Ids : where[m] = view[s]} \subseteq MsgsOf(thread[s])

(* receipt.handler.ts:23, every member's UI reflects the new status.       *)
ReadReachesThread ==
    Quiet => \A s \in Sockets : \A m \in MsgsOf(thread[s]) :
        reached[m] = {"read"} => m \in ReadIn(thread[s])

(* Plan.md:78, history and real-time delivery are consistent: a message is *)
(* displayed once.                                                         *)
ThreadHasNoDuplicates ==
    \A s \in Sockets : \A i, j \in DOMAIN thread[s] :
        i # j => thread[s][i].msg # thread[s][j].msg
=============================================================================
