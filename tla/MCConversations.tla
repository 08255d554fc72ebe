-------------------------- MODULE MCConversations ---------------------------
(* Alice and Bob with a client each; the list is Alice's. *)
EXTENDS Conversations

CONSTANTS alice, bob, a1, b1

MCUserOf == [c \in Clients |-> IF c = b1 THEN bob ELSE alice]
=============================================================================
