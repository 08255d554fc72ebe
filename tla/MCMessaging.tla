---------------------------- MODULE MCMessaging -----------------------------
EXTENDS Messaging, TLC

(* Everyone is in every conversation; rejected sends are SendRejected. *)
MCMembers == [c \in Conversations |-> Users]

(* Slots are interchangeable: no action or property tells them apart. *)
SlotSymmetry == Permutations(Slots)
=============================================================================
