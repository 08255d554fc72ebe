------------------------------ MODULE MCTyping ------------------------------
EXTENDS Typing, TLC

CONSTANTS alice, bob, a1, a2, b1, ab, ab2, Opens, Strokes

(* Alice and Bob share every conversation; Alice may have two tabs. *)
MCMembers == [c \in Conversations |-> {alice, bob}]

MCUserOf == [s \in Sockets |-> IF s = b1 THEN bob ELSE alice]

(* Bob only watches: he opens one conversation, or two, and never types. *)
MCMaxOpens == [s \in Sockets |-> IF s = b1 THEN Opens ELSE 2]
MCMaxStrokes == [s \in Sockets |-> IF s = b1 THEN 0 ELSE Strokes]
=============================================================================
