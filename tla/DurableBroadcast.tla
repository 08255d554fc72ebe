-------------------------- MODULE DurableBroadcast --------------------------
(***************************************************************************)
(* What the message pipeline promises the people in a room, stated without *)
(* handlers, database calls or failures: whatever a client displays about  *)
(* a message was first made durable, a message appears by being announced  *)
(* as new, and what is displayed about it never moves backwards.           *)
(***************************************************************************)
EXTENDS Naturals

CONSTANTS Msgs

VARIABLES
    reached,    \* per message, every status it has durably had
    shown       \* per message, what a client in the room displays

vars == <<reached, shown>>

Status == {"sent", "delivered", "read"}

Rank == [absent |-> 0, sent |-> 1, delivered |-> 2, read |-> 3]

Init ==
    /\ reached = [m \in Msgs |-> {}]
    /\ shown = [m \in Msgs |-> "absent"]

(* A message is stored, once. *)
Store(m) ==
    /\ reached[m] = {}
    /\ reached' = [reached EXCEPT ![m] = {"sent"}]
    /\ UNCHANGED shown

(* A receipt about stored messages is made durable. *)
Record(ms, st) ==
    /\ \A m \in ms : "sent" \in reached[m]
    /\ reached' = [m \in Msgs |-> IF m \in ms THEN reached[m] \cup {st}
                                              ELSE reached[m]]
    /\ UNCHANGED shown

(* A stored message is announced, once. *)
Announce(m) ==
    /\ "sent" \in reached[m]
    /\ shown[m] = "absent"
    /\ shown' = [shown EXCEPT ![m] = "sent"]
    /\ UNCHANGED reached

(* A receipt that is durable, or that a stronger durable one implies, is   *)
(* announced; messages not displayed stay so.                              *)
Receipt(ms, st) ==
    /\ \A m \in ms : \E x \in reached[m] : Rank[x] >= Rank[st]
    /\ shown' = [m \in Msgs |->
          IF m \in ms /\ shown[m] # "absent" /\ Rank[shown[m]] < Rank[st]
          THEN st ELSE shown[m]]
    /\ UNCHANGED reached

Next ==
    \/ \E m \in Msgs : Store(m) \/ Announce(m)
    \/ \E ms \in SUBSET Msgs, st \in {"delivered", "read"} :
          Record(ms, st) \/ Receipt(ms, st)

Spec == Init /\ [][Next]_vars

-----------------------------------------------------------------------------
(* What follows *)

TypeOK ==
    /\ reached \in [Msgs -> SUBSET Status]
    /\ shown \in [Msgs -> DOMAIN Rank]

(* What is displayed of a message, and anything weaker, is behind what is   *)
(* durable about it.                                                       *)
DisplayedIsDurable ==
    \A m \in Msgs : shown[m] # "absent" =>
        \E x \in reached[m] : Rank[x] >= Rank[shown[m]]

(* Nothing durable is undone, and no display goes back to less.            *)
OnlyForward ==
    \A m \in Msgs : /\ reached[m] \subseteq reached'[m]
                    /\ Rank[shown[m]] <= Rank[shown'[m]]
=============================================================================
