------------------------------ MODULE MCRooms -------------------------------
EXTENDS Rooms, TLC

CONSTANTS alice, bob, a1, b1, ab, ab2, other

(* Two conversations of Alice and Bob and one that Alice is not in. *)
MCMembers == (ab :> {alice, bob}) @@ (ab2 :> {alice, bob}) @@ (other :> {bob})

MCMaxOpens == [s \in Sockets |-> 4]

MCUserOf == [s \in Sockets |-> IF s = b1 THEN bob ELSE alice]
=============================================================================
