CONSTANTS
    alice = alice
    bob = bob
    a1 = a1
    b1 = b1
    ab = ab
    ab2 = ab2
    other = other
    Users = {alice, bob}
    Sockets = {a1}
    UserOf <- MCUserOf
    Conversations = {ab, ab2, other}
    Members <- MCMembers
    None = None
    MaxOpens <- MCMaxOpens
    MayFail = TRUE
SPECIFICATION FairRooms
INVARIANTS
    RoomsTypeOK
    RoomsAreMembersOnly
    OpenIsCovered
PROPERTIES
    OpenIsJoined
