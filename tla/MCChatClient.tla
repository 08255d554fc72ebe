---------------------------- MODULE MCChatClient ----------------------------
EXTENDS ChatClient

CONSTANTS alice, a1, c1, c2

MCMembers == [c \in Conversations |-> {alice}]
MCUserOf == [s \in Sockets |-> alice]
MCMaxOpens == [s \in Sockets |-> 3]
=============================================================================
