----------------------------- MODULE MCPresence -----------------------------
EXTENDS Presence

CONSTANTS a1, a2, b1, alice, bob

(* Alice's tabs and one of Bob's. *)
MCUserOf == [s \in Sockets |-> IF s = b1 THEN bob ELSE alice]
=============================================================================
